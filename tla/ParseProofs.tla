---------------------------- MODULE ParseProofs ----------------------------
(***************************************************************************)
(* What hotkey.rs's parse and backend_linux.rs's parse_format_pod make of   *)
(* every input.  Both are loops: the first part of the module shows that a  *)
(* recursive function on an interval of numbers satisfies its equation, the *)
(* other two go round each loop by induction.                               *)
(***************************************************************************)
EXTENDS HotkeyParse, SampleFormat, WellFoundedInduction, TLAPS

-----------------------------------------------------------------------------
\* Induction over a set of numbers, from the least number missing in it.
LEMMA Induction ==
    ASSUME NEW P, 0 \in P, \A k \in Nat : k \in P => k + 1 \in P
    PROVE  Nat \subseteq P
<1> DEFINE Missing == Nat \ P
<1>1. SUFFICES ASSUME Missing # {} PROVE FALSE OBVIOUS
<1>2. PICK m \in Missing : \A k \in Missing : ~(<<k, m>> \in OpToRel(<, Nat))
  <2>1. Missing \subseteq Nat OBVIOUS
  <2> HIDE DEF Missing
  <2>2. QED BY <1>1, <2>1, WFMin, NatLessThanWellFounded, Zenon
<1>3. \A k \in Missing : ~(k < m) BY <1>2, Zenon DEF OpToRel
<1>4. m # 0 /\ m - 1 \in Nat /\ m - 1 < m /\ (m - 1) + 1 = m OBVIOUS
<1>5. QED BY <1>3, <1>4

\* f starts at base and takes a step from each index to the next, up to j.
Follows(f, j, base, step) ==
    \A k \in 0..j : f[k] = IF k = 0 THEN base ELSE step[<<f[k - 1], k>>]

LEMMA OneStepMore ==
    ASSUME NEW A, NEW base \in A, NEW n \in Nat, NEW step \in [A \X (1..n) -> A],
           NEW j \in Nat, j + 1 <= n, NEW f \in [0..j -> A], Follows(f, j, base, step)
    PROVE  \E g \in [0..(j + 1) -> A] : Follows(g, j + 1, base, step)
<1> DEFINE y == step[<<f[j], j + 1>>]
           g == [k \in 0..(j + 1) |-> IF k = j + 1 THEN y ELSE f[k]]
<1>1. y \in A
  <2>1. f[j] \in A /\ j + 1 \in 1..n OBVIOUS
  <2>2. <<f[j], j + 1>> \in A \X (1..n) BY <2>1
  <2>3. QED BY <2>2
<1>2. \A k \in 0..(j + 1) : k # j + 1 => k \in 0..j OBVIOUS
<1>3. \A k \in 0..j : k \in 0..(j + 1) /\ k # j + 1 /\ (k # 0 => k - 1 \in 0..j) OBVIOUS
<1>4. j + 1 \in 0..(j + 1) /\ j + 1 # 0 /\ (j + 1) - 1 = j /\ j \in 0..j OBVIOUS
<1>5. g[j + 1] = y /\ \A k \in 0..j : g[k] = f[k]
  <2> HIDE DEF y
  <2>1. QED BY <1>3, <1>4
<1>6. g \in [0..(j + 1) -> A]
  <2>1. \A k \in 0..j : f[k] \in A OBVIOUS
  <2> HIDE DEF y
  <2>2. QED BY <1>1, <1>2, <2>1
<1> HIDE DEF g
<1>7. ASSUME NEW k \in 0..(j + 1)
      PROVE  g[k] = IF k = 0 THEN base ELSE step[<<g[k - 1], k>>]
  <2>1. CASE k = j + 1
    <3>1. g[k - 1] = f[j] BY <2>1, <1>4, <1>5
    <3>2. QED BY <2>1, <3>1, <1>4, <1>5
  <2>2. CASE k # j + 1
    <3>1. k \in 0..j BY <2>2, <1>2
    <3>2. f[k] = IF k = 0 THEN base ELSE step[<<f[k - 1], k>>] BY <3>1 DEF Follows
    <3>3. g[k] = f[k] /\ (k # 0 => g[k - 1] = f[k - 1]) BY <3>1, <1>3, <1>5
    <3>4. QED BY <3>2, <3>3
  <2>3. QED BY <2>1, <2>2
<1>8. Follows(g, j + 1, base, step) BY <1>7 DEF Follows
<1>9. QED BY <1>6, <1>8

\* Hence every recursive definition of this form has a function that satisfies it.
Iterates(f, n, base, step) ==
    f = [k \in 0..n |-> IF k = 0 THEN base ELSE step[<<f[k - 1], k>>]]

LEMMA Iterated ==
    ASSUME NEW A, NEW base \in A, NEW n \in Nat, NEW step \in [A \X (1..n) -> A]
    PROVE  \E f \in [0..n -> A] : Iterates(f, n, base, step)
<1> DEFINE Reached(j) == \E f \in [0..j -> A] : Follows(f, j, base, step)
           P == {j \in Nat : j <= n => Reached(j)}
<1>1. Reached(0)
  <2>1. [k \in 0..0 |-> base] \in [0..0 -> A] OBVIOUS
  <2>2. Follows([k \in 0..0 |-> base], 0, base, step) BY DEF Follows
  <2>3. QED BY <2>1, <2>2
<1>2. ASSUME NEW j \in Nat, j + 1 <= n, Reached(j) PROVE Reached(j + 1)
  BY <1>2, OneStepMore
<1> HIDE DEF Reached
<1>3. 0 \in P BY <1>1
<1>4. \A j \in Nat : j \in P => j + 1 \in P
  <2>1. ASSUME NEW j \in Nat, j \in P PROVE j + 1 \in P
    <3>1. j + 1 \in Nat /\ (j + 1 <= n => j <= n) OBVIOUS
    <3>2. j <= n => Reached(j) BY <2>1
    <3>3. j + 1 <= n => Reached(j + 1) BY <1>2, <3>1, <3>2
    <3>4. QED BY <3>1, <3>3
  <2>2. QED BY <2>1
<1>5. n \in P
  <2> HIDE DEF P
  <2>1. Nat \subseteq P BY <1>3, <1>4, Induction
  <2>2. QED BY <2>1
<1>6. Reached(n) BY <1>5
<1>7. PICK f \in [0..n -> A] : Follows(f, n, base, step) BY <1>6 DEF Reached
<1>8. f = [k \in 0..n |-> IF k = 0 THEN base ELSE step[<<f[k - 1], k>>]]
  <2>1. f = [k \in 0..n |-> f[k]] OBVIOUS
  <2>2. \A k \in 0..n : f[k] = IF k = 0 THEN base ELSE step[<<f[k - 1], k>>] BY <1>7 DEF Follows
  <2>3. QED BY <2>1, <2>2
<1>9. QED BY <1>8 DEF Iterates

-----------------------------------------------------------------------------
\* parse.
LEMMA CodesFacts ==
    ASSUME NEW keys, DOMAIN keys \subseteq Nat \ {0}, NEW first \in Nat \ {0}
    PROVE  \A w \in DOMAIN Codes(keys, first) : Codes(keys, first)[w] \in Nat \ {0}
<1> SUFFICES ASSUME NEW w \in ToSet(keys) PROVE Codes(keys, first)[w] \in Nat \ {0}
  BY DEF Codes
<1>1. AntiFunction(keys)[w] \in DOMAIN keys
  <2>1. w \in Range(keys) BY DEF Range, ToSet
  <2>2. \E s \in DOMAIN keys : w \in Range(keys) => keys[s] = w BY <2>1 DEF Range
  <2>3. AntiFunction(keys)[w] = CHOOSE s \in DOMAIN keys : w \in Range(keys) => keys[s] = w
    BY <2>1 DEF AntiFunction, Inverse
  <2>4. QED BY <2>2, <2>3
<1>2. AntiFunction(keys)[w] \in Nat \ {0} BY <1>1
<1>3. QED BY <1>2 DEF Codes

LEMMA KeyCodes == \A w \in DOMAIN KeyToVk : KeyToVk[w] \in Nat \ {0}
<1>1. \A t \in KeyTables : \A w \in DOMAIN t : t[w] \in Nat \ {0}
  <2>1. \A w \in DOMAIN NamedKeys : NamedKeys[w] \in Nat \ {0} BY DEF NamedKeys
  <2>2. /\ DOMAIN Letters \subseteq Nat \ {0} /\ DOMAIN Digits \subseteq Nat \ {0}
        /\ DOMAIN FunctionKeys \subseteq Nat \ {0}
    BY DEF Letters, Digits, FunctionKeys
  <2>3. 65 \in Nat \ {0} /\ 48 \in Nat \ {0} /\ 112 \in Nat \ {0} OBVIOUS
  <2>4. \A w \in DOMAIN Codes(Letters, 65) : Codes(Letters, 65)[w] \in Nat \ {0}
    BY <2>2, <2>3, CodesFacts
  <2>5. \A w \in DOMAIN Codes(Digits, 48) : Codes(Digits, 48)[w] \in Nat \ {0}
    BY <2>2, <2>3, CodesFacts
  <2>6. \A w \in DOMAIN Codes(FunctionKeys, 112) : Codes(FunctionKeys, 112)[w] \in Nat \ {0}
    BY <2>2, <2>3, CodesFacts
  <2>7. QED BY <2>1, <2>4, <2>5, <2>6 DEF KeyTables
<1>2. SUFFICES ASSUME NEW w \in UNION {DOMAIN t : t \in KeyTables} PROVE KeyToVk[w] \in Nat \ {0}
  BY DEF KeyToVk
<1>3. \E t \in KeyTables : w \in DOMAIN t BY <1>2
<1> DEFINE u == CHOOSE t \in KeyTables : w \in DOMAIN t
<1>4. u \in KeyTables /\ w \in DOMAIN u BY <1>3
<1>5. KeyToVk[w] = u[w] BY DEF KeyToVk
<1> HIDE DEF u
<1>6. QED BY <1>1, <1>4, <1>5

ModifierNames == {"ctrl", "alt", "shift", "win"}
Readings == [failed : BOOLEAN, mods : SUBSET ModifierNames, vk : Nat]

LEMMA ScanTypes ==
    ASSUME NEW acc \in Readings, NEW tok PROVE Scan(acc, tok) \in Readings
<1>1. \A w \in DOMAIN Modifiers : Modifiers[w] \in ModifierNames BY DEF Modifiers, ModifierNames
<1>2. tok \in DOMAIN Modifiers => [acc EXCEPT !.mods = @ \cup {Modifiers[tok]}] \in Readings
  BY <1>1 DEF Readings
<1>3. tok \in DOMAIN KeyToVk => [acc EXCEPT !.vk = KeyToVk[tok]] \in Readings
  BY KeyCodes DEF Readings
<1>4. [acc EXCEPT !.failed = TRUE] \in Readings BY DEF Readings
<1>5. QED BY <1>2, <1>3, <1>4, Zenon DEF Scan

\* What parse has made of the first k tokens.
MainTo(text, k) == {i \in MainKeys(text) : i <= k}
HeldTo(text, k) == {Modifiers[text[i]] : i \in {j \in 1..k : text[j] \in DOMAIN Modifiers}}
OneKey(text, k, vk) ==
    \E i \in MainKeys(text) :
        MainTo(text, k) = {i} /\ text[i] \in DOMAIN KeyToVk /\ vk = KeyToVk[text[i]]
NotOneKey(text) ==
    \E i \in MainKeys(text) :
        text[i] \notin DOMAIN KeyToVk \/ \E j \in MainKeys(text) : j # i
ReadTo(text, k, acc) ==
    /\ acc \in Readings
    /\ acc.failed => NotOneKey(text)
    /\ ~acc.failed => acc.mods = HeldTo(text, k)
    /\ ~acc.failed => (acc.vk = 0 /\ MainTo(text, k) = {}) \/ OneKey(text, k, acc.vk)

LEMMA IndicesInNat == ASSUME NEW S, NEW text \in Seq(S) PROVE MainKeys(text) \subseteq 1..Len(text)
<1>1. DOMAIN text = 1..Len(text) OBVIOUS
<1>2. MainKeys(text) \subseteq DOMAIN text BY DEF MainKeys
<1>3. QED BY <1>1, <1>2

LEMMA ReadsOn ==
    ASSUME NEW S, NEW text \in Seq(S), NEW k \in Nat, k + 1 \in DOMAIN text,
           NEW acc, ReadTo(text, k, acc)
    PROVE  ReadTo(text, k + 1, Scan(acc, text[k + 1]))
<1> DEFINE tok == text[k + 1]
           new == Scan(acc, tok)
<1>1. acc \in Readings /\ new \in Readings BY ScanTypes DEF ReadTo
<1>2. DOMAIN text = 1..Len(text) /\ Len(text) \in Nat OBVIOUS
<1>3. MainKeys(text) \subseteq Nat BY IndicesInNat, <1>2
<1>4. k + 1 \in Nat /\ \A i \in Nat : i <= k + 1 <=> i <= k \/ i = k + 1 OBVIOUS
<1>5. MainTo(text, k + 1) = MainTo(text, k) \cup {i \in {k + 1} : i \in MainKeys(text)}
  BY <1>3, <1>4 DEF MainTo
<1>6. 1..(k + 1) = (1..k) \cup {k + 1} OBVIOUS
<1>7. HeldTo(text, k + 1) = HeldTo(text, k) \cup
          {Modifiers[text[i]] : i \in {j \in {k + 1} : text[j] \in DOMAIN Modifiers}}
  BY <1>6 DEF HeldTo
<1>8. "" \notin DOMAIN Modifiers BY DEF Modifiers
<1>9. k + 1 \notin MainTo(text, k) BY DEF MainTo
<1> HIDE DEF new
<1>10. CASE acc.failed
  <2>1. new = acc BY <1>10 DEF Scan, new
  <2>2. QED BY <1>10, <2>1 DEF ReadTo, new
<1>11. CASE ~acc.failed /\ tok = ""
  <2>1. new = acc BY <1>11 DEF Scan, new
  <2>2. k + 1 \notin MainKeys(text) BY <1>11 DEF MainKeys
  <2>3. MainTo(text, k + 1) = MainTo(text, k) BY <1>5, <2>2
  <2>4. HeldTo(text, k + 1) = HeldTo(text, k) BY <1>7, <1>8, <1>11
  <2>5. QED BY <2>1, <2>3, <2>4 DEF ReadTo, OneKey, new
<1>12. CASE ~acc.failed /\ tok # "" /\ tok \in DOMAIN Modifiers
  <2>1. new = [acc EXCEPT !.mods = @ \cup {Modifiers[tok]}] BY <1>12 DEF Scan, new
  <2>2. k + 1 \notin MainKeys(text) BY <1>12 DEF MainKeys
  <2>3. MainTo(text, k + 1) = MainTo(text, k) BY <1>5, <2>2
  <2>4. HeldTo(text, k + 1) = HeldTo(text, k) \cup {Modifiers[tok]} BY <1>7, <1>12
  <2>5. new.failed = acc.failed /\ new.vk = acc.vk /\ new.mods = acc.mods \cup {Modifiers[tok]}
    BY <1>1, <2>1 DEF Readings
  <2>6. QED BY <1>1, <1>12, <2>3, <2>4, <2>5 DEF ReadTo, OneKey, new
<1>13. CASE ~acc.failed /\ tok # "" /\ tok \notin DOMAIN Modifiers
  <2>1. k + 1 \in MainKeys(text) BY <1>13 DEF MainKeys
  <2>2. MainTo(text, k + 1) = MainTo(text, k) \cup {k + 1} BY <1>5, <2>1
  <2>3. HeldTo(text, k + 1) = HeldTo(text, k) BY <1>7, <1>13
  <2>4. CASE tok \in DOMAIN KeyToVk /\ acc.vk = 0
    <3>1. new = [acc EXCEPT !.vk = KeyToVk[tok]] BY <1>13, <2>4 DEF Scan, new
    <3>2. new.failed = acc.failed /\ new.vk = KeyToVk[tok] /\ new.mods = acc.mods
      BY <1>1, <3>1 DEF Readings
    <3>3. ~OneKey(text, k, acc.vk) BY <2>4, KeyCodes DEF OneKey
    <3>4. MainTo(text, k) = {} BY <1>13, <3>3 DEF ReadTo
    <3>5. OneKey(text, k + 1, new.vk) BY <2>1, <2>2, <2>4, <3>2, <3>4 DEF OneKey
    <3>6. QED BY <1>1, <1>13, <2>3, <3>2, <3>5 DEF ReadTo, new
  <2>5. CASE ~(tok \in DOMAIN KeyToVk /\ acc.vk = 0)
    <3>1. new = [acc EXCEPT !.failed = TRUE] BY <1>13, <2>5 DEF Scan, new
    <3>2. new.failed BY <1>1, <3>1 DEF Readings
    <3>3. NotOneKey(text)
      <4>1. CASE tok \notin DOMAIN KeyToVk BY <2>1, <4>1 DEF NotOneKey
      <4>2. CASE acc.vk # 0
        <5>1. OneKey(text, k, acc.vk) BY <1>13, <4>2 DEF ReadTo
        <5>2. PICK i \in MainKeys(text) : i \in MainTo(text, k) BY <5>1 DEF OneKey
        <5>3. i # k + 1 BY <1>9, <5>2
        <5>4. QED BY <2>1, <5>3 DEF NotOneKey
      <4>3. QED BY <2>5, <4>1, <4>2
    <3>4. QED BY <1>1, <3>2, <3>3 DEF ReadTo, new
  <2>6. QED BY <2>4, <2>5
<1>14. QED BY <1>10, <1>11, <1>12, <1>13

LEMMA RoundsAre ==
    ASSUME NEW S, NEW text \in Seq(S)
    PROVE  Rounds(text) =
               [k \in 0..Len(text) |->
                   IF k = 0 THEN Unread ELSE Scan(Rounds(text)[k - 1], text[k])]
<1> DEFINE n == Len(text)
           step == [p \in Readings \X (1..n) |-> Scan(p[1], text[p[2]])]
           Is(f) == f = [k \in 0..n |-> IF k = 0 THEN Unread ELSE Scan(f[k - 1], text[k])]
<1>1. n \in Nat OBVIOUS
<1>2. Unread \in Readings BY DEF Unread, Readings
<1>3. step \in [Readings \X (1..n) -> Readings] BY ScanTypes
<1>4. PICK f \in [0..n -> Readings] : Iterates(f, n, Unread, step)
  <2> HIDE DEF step, n
  <2>1. QED BY <1>1, <1>2, <1>3, Iterated
<1>5. \A k \in 0..n : k # 0 => k - 1 \in 0..n /\ k \in 1..n BY <1>1
<1>6. \A k \in 0..n : k # 0 => step[<<f[k - 1], k>>] = Scan(f[k - 1], text[k])
  <2> HIDE DEF n
  <2>1. QED BY <1>5
<1>7. Is(f)
  <2> HIDE DEF step, n
  <2>1. QED BY <1>4, <1>6 DEF Iterates
<1>8. Rounds(text) = CHOOSE g : Is(g) BY DEF Rounds
<1> HIDE DEF Is
<1>9. Is(Rounds(text)) BY <1>7, <1>8
<1>10. QED BY <1>9 DEF Is

LEMMA RoundsRead ==
    ASSUME NEW S, NEW text \in Seq(S)
    PROVE  ReadTo(text, Len(text), Rounds(text)[Len(text)])
<1> DEFINE n == Len(text)
           r == Rounds(text)
           P == {k \in Nat : k <= n => ReadTo(text, k, r[k])}
<1>1. n \in Nat OBVIOUS
<1>2. r[0] = Unread /\ \A k \in Nat : k + 1 <= n => r[k + 1] = Scan(r[k], text[k + 1])
  <2>1. r = [k \in 0..n |-> IF k = 0 THEN Unread ELSE Scan(r[k - 1], text[k])]
    BY RoundsAre
  <2> HIDE DEF r, n
  <2>2. 0 \in 0..n BY <1>1
  <2>3. \A k \in Nat : k + 1 <= n => k + 1 \in 0..n /\ k + 1 # 0 /\ (k + 1) - 1 = k BY <1>1
  <2>4. QED BY <2>1, <2>2, <2>3
<1>3. 0 \in P
  <2>1. MainTo(text, 0) = {} BY IndicesInNat DEF MainTo
  <2>2. HeldTo(text, 0) = {} BY DEF HeldTo
  <2>3. Unread \in Readings /\ Unread.mods = {} /\ Unread.vk = 0 /\ ~Unread.failed
    BY DEF Unread, Readings
  <2>4. ReadTo(text, 0, r[0]) BY <1>2, <2>1, <2>2, <2>3 DEF ReadTo
  <2>5. QED BY <2>4
<1>4. ASSUME NEW k \in Nat, k \in P PROVE k + 1 \in P
  <2> HIDE DEF r
  <2>1. k + 1 \in Nat OBVIOUS
  <2>2. ASSUME k + 1 <= n PROVE ReadTo(text, k + 1, r[k + 1])
    <3>1. k + 1 \in DOMAIN text /\ k <= n BY <2>2
    <3>2. ReadTo(text, k, r[k]) BY <1>4, <3>1
    <3>3. QED BY <1>2, <2>2, <3>1, <3>2, ReadsOn
  <2>3. QED BY <2>1, <2>2
<1>5. Nat \subseteq P
  <2> HIDE DEF P
  <2>1. QED BY <1>3, <1>4, Induction
<1>6. QED BY <1>1, <1>5

\* Whatever the text says, it is accepted with the key and the modifiers it names.
THEOREM TextsMeanTheirKeys == ASSUME NEW S, NEW text \in Seq(S) PROVE MeansItsKeys(text)
<1> DEFINE n == Len(text)
           read == Rounds(text)[n]
<1>1. ReadTo(text, n, read) BY RoundsRead
<1>2. MainTo(text, n) = MainKeys(text) BY IndicesInNat DEF MainTo
<1>3. HeldTo(text, n) = Held(text)
  <2>1. 1..n = DOMAIN text OBVIOUS
  <2>2. QED BY <2>1 DEF HeldTo, Held
<1> HIDE DEF n, read
<1>4. Parse(text) = IF read.failed \/ read.vk = 0 \/ (read.mods = {} /\ read.vk \in Typed)
                    THEN NoCombo ELSE [mods |-> read.mods, vk |-> read.vk]
  BY DEF Parse, read, n
<1>5. CASE read.failed
  <2>1. NotOneKey(text) BY <1>1, <1>5 DEF ReadTo
  <2>2. ~\E i \in MainKeys(text) : MainKeys(text) = {i} /\ text[i] \in DOMAIN KeyToVk
    BY <2>1 DEF NotOneKey
  <2>3. Parse(text) = NoCombo BY <1>4, <1>5
  <2>4. QED BY <2>2, <2>3 DEF MeansItsKeys
<1>6. CASE ~read.failed /\ read.vk = 0
  <2>1. ~OneKey(text, n, read.vk) BY <1>6, KeyCodes DEF OneKey
  <2>2. MainKeys(text) = {} BY <1>1, <1>2, <1>6, <2>1 DEF ReadTo
  <2>3. Parse(text) = NoCombo BY <1>4, <1>6
  <2>4. QED BY <2>2, <2>3 DEF MeansItsKeys
<1>7. CASE ~read.failed /\ read.vk # 0
  <2>1. PICK i \in MainKeys(text) : /\ MainKeys(text) = {i} /\ text[i] \in DOMAIN KeyToVk
                                    /\ read.vk = KeyToVk[text[i]]
    BY <1>1, <1>2, <1>7 DEF ReadTo, OneKey
  <2>2. read.mods = Held(text) BY <1>1, <1>3, <1>7 DEF ReadTo
  <2>3. (CHOOSE j \in MainKeys(text) : TRUE) = i BY <2>1
  <2>4. Parse(text) = IF Held(text) # {} \/ KeyToVk[text[i]] \notin Typed
                      THEN [mods |-> Held(text), vk |-> KeyToVk[text[i]]] ELSE NoCombo
    BY <1>4, <1>7, <2>1, <2>2
  <2>5. QED BY <2>1, <2>3, <2>4 DEF MeansItsKeys
<1>8. QED BY <1>5, <1>6, <1>7

-----------------------------------------------------------------------------
\* parse_format_pod.
\* What one round of the walk makes of a property of 4 + 2m words after the first o.
WalkStates == [off : Nat, rate : Int, channels : Int, kind : -1..2, inside : BOOLEAN]
HasKey(pod, o, m, key, type) == pod.words[o + 3 + 2 * m] = key /\ pod.words[o + 2] = type
Taken(pod, o, m, acc, next) ==
    /\ next \in WalkStates /\ next.inside /\ next.off = 4 * (o + 4 + 2 * m)
    /\ next.kind = IF HasKey(pod, o, m, AudioFormat, Id) THEN KindOf(pod.words[o + 3]) ELSE acc.kind
    /\ next.rate = IF HasKey(pod, o, m, AudioRate, Int32) THEN pod.words[o + 3] ELSE acc.rate
    /\ next.channels = IF HasKey(pod, o, m, AudioChannels, Int32) THEN pod.words[o + 3]
                       ELSE acc.channels

Ended(next) == next \in WalkStates /\ ~next.inside
Outcome(pod, o, m, acc, next) ==
    IF 4 * (o + 3 + 2 * m) <= pod.bytes THEN Taken(pod, o, m, acc, next) ELSE Ended(next)

LEMMA Visited ==
    ASSUME NEW pod, NEW o \in Nat, NEW m \in Nat, NEW acc \in WalkStates, acc.inside,
           acc.off = 4 * o, pod.bytes \in Int, Padded(pod.words[o + 1]) = 8 * m,
           pod.words[o + 3] \in Int
    PROVE  Outcome(pod, o, m, acc, Visit(pod, acc))
<1> DEFINE at == acc.off + 8 + Padded(WordAt(pod, acc.off))
           past == [acc EXCEPT !.off = at + 8]
           value == pod.words[o + 3]
<1>1. WordAt(pod, acc.off) = pod.words[o + 1]
  <2>1. (4 * o) \div 4 + 1 = o + 1 OBVIOUS
  <2>2. QED BY <2>1 DEF WordAt
<1>2. WordAt(pod, acc.off + 4) = pod.words[o + 2]
  <2>1. (4 * o + 4) \div 4 + 1 = o + 2 OBVIOUS
  <2>2. QED BY <2>1 DEF WordAt
<1>3. WordAt(pod, acc.off + 8) = value
  <2>1. (4 * o + 8) \div 4 + 1 = o + 3 OBVIOUS
  <2>2. QED BY <2>1 DEF WordAt
<1>4. at = 4 * (o + 2 + 2 * m) /\ at \in Nat
  <2>1. acc.off + 8 + 8 * m = 4 * (o + 2 + 2 * m) OBVIOUS
  <2>2. QED BY <1>1, <2>1
<1>5. WordAt(pod, at) = pod.words[o + 3 + 2 * m]
  <2>1. (4 * (o + 2 + 2 * m)) \div 4 + 1 = o + 3 + 2 * m OBVIOUS
  <2>2. QED BY <1>4, <2>1 DEF WordAt
<1>6. InPod(pod, at) <=> 4 * (o + 3 + 2 * m) <= pod.bytes BY <1>4 DEF InPod
<1>7. InPod(pod, at) => InPod(pod, acc.off + 4) BY <1>4 DEF InPod
<1>8. at + 8 = 4 * (o + 4 + 2 * m) BY <1>4
<1>9. KindOf(value) \in -1..2 BY DEF KindOf
<1> HIDE DEF at
<1>10. CASE ~InPod(pod, at)
  <2>1. Visit(pod, acc) = [acc EXCEPT !.inside = FALSE] BY <1>10, Zenon DEF Visit, at
  <2>2. Ended(Visit(pod, acc)) BY <2>1 DEF WalkStates, Ended
  <2>3. QED BY <1>6, <1>10, <2>2 DEF Outcome
<1>11. CASE InPod(pod, at)
  <2>1. past \in WalkStates /\ past.off = 4 * (o + 4 + 2 * m) /\ past.inside
        /\ past.kind = acc.kind /\ past.rate = acc.rate /\ past.channels = acc.channels
    BY <1>4, <1>8 DEF WalkStates
  <2>2. AudioFormat # AudioRate /\ AudioFormat # AudioChannels /\ AudioRate # AudioChannels
    BY DEF AudioFormat, AudioRate, AudioChannels
  <2> HIDE DEF past
  <2>3. Visit(pod, acc) = 
            IF <<WordAt(pod, at), WordAt(pod, acc.off + 4)>> = <<AudioFormat, Id>>
            THEN [past EXCEPT !.kind = KindOf(value)]
            ELSE IF <<WordAt(pod, at), WordAt(pod, acc.off + 4)>> = <<AudioRate, Int32>>
            THEN [past EXCEPT !.rate = value]
            ELSE IF <<WordAt(pod, at), WordAt(pod, acc.off + 4)>> = <<AudioChannels, Int32>>
            THEN [past EXCEPT !.channels = value] ELSE past
    BY <1>3, <1>7, <1>11, <2>2 DEF Visit, at, past
  <2>4. QED BY <1>2, <1>5, <1>6, <1>9, <1>11, <2>1, <2>2, <2>3
    DEF Outcome, Taken, HasKey, WalkStates
<1>12. QED BY <1>10, <1>11

-----------------------------------------------------------------------------
\* Adding up properties: part[k] is what the first k of them put into a pod's body.
Concats(part, props) ==
    /\ part \in [0..Len(props) -> Seq(Int)]
    /\ part[0] = << >>
    /\ \A k \in 1..Len(props) : part[k] = part[k - 1] \o props[k]

LEMMA Flattened ==
    ASSUME NEW props \in Seq(Seq(Int)), props # << >>
    PROVE  \E part : Concats(part, props) /\ FlattenSeq(props) = part[Len(props)]
<1> DEFINE n == Len(props)
           step == [p \in Seq(Int) \X (1..n) |-> p[1] \o props[p[2]]]
           Is(f) == f = [i \in 1..n |-> IF i = 1 THEN props[i] ELSE f[i - 1] \o props[i]]
           flat == CHOOSE f : Is(f)
           part == [k \in 0..n |-> IF k = 0 THEN << >> ELSE flat[k]]
<1>1. n \in Nat /\ n # 0 BY DEF n
<1>2. \A k \in 1..n : props[k] \in Seq(Int) OBVIOUS
<1>3. << >> \in Seq(Int) /\ \A s \in Seq(Int) : << >> \o s = s OBVIOUS
<1>4. step \in [Seq(Int) \X (1..n) -> Seq(Int)]
  <2>1. \A s \in Seq(Int), k \in 1..n : s \o props[k] \in Seq(Int) BY <1>2
  <2>2. QED BY <2>1
<1>5. PICK g \in [0..n -> Seq(Int)] : Iterates(g, n, << >>, step)
  <2> HIDE DEF step, n
  <2>1. QED BY <1>1, <1>3, <1>4, Iterated
<1>6. \A k \in 1..n : k - 1 \in 0..n /\ k \in 0..n /\ k # 0 /\ (k # 1 => k - 1 \in 1..n)
  BY <1>1
<1>7. g[0] = << >> /\ \A k \in 1..n : g[k] = g[k - 1] \o props[k]
  <2>1. \A s \in Seq(Int), k \in 1..n : step[<<s, k>>] = s \o props[k] OBVIOUS
  <2> HIDE DEF step, n
  <2>2. 0 \in 0..n BY <1>1
  <2>3. g[0] = << >> BY <1>5, <2>2 DEF Iterates
  <2>4. ASSUME NEW k \in 1..n PROVE g[k] = g[k - 1] \o props[k]
    <3>1. g[k] = step[<<g[k - 1], k>>] BY <1>5, <1>6 DEF Iterates
    <3>2. g[k - 1] \in Seq(Int) BY <1>6
    <3>3. QED BY <2>1, <3>1, <3>2
  <2>5. QED BY <2>3, <2>4
<1> DEFINE h == [i \in 1..n |-> g[i]]
<1>8. Is(h)
  <2> HIDE DEF n, step
  <2>1. ASSUME NEW i \in 1..n PROVE g[i] = IF i = 1 THEN props[i] ELSE h[i - 1] \o props[i]
    <3>1. CASE i = 1
      <4>0. i - 1 = 0 BY <3>1
      <4>1. g[i] = g[0] \o props[i] BY <1>7, <4>0
      <4>2. QED BY <1>2, <1>3, <1>7, <3>1, <4>1
    <3>2. CASE i # 1
      <4>1. h[i - 1] = g[i - 1] BY <1>6, <3>2
      <4>2. QED BY <1>7, <3>2, <4>1
    <3>3. QED BY <3>1, <3>2
  <2>2. QED BY <2>1
<1>9. Is(flat)
  <2> HIDE DEF h, Is
  <2>1. QED BY <1>8
<1>10. Concats(part, props)
  <2> DEFINE P == {k \in Nat : k <= n => part[k] \in Seq(Int)}
  <2>1. part[0] = << >> BY <1>1
  <2>2. \A k \in 1..n : part[k] = part[k - 1] \o props[k]
    <3> HIDE DEF n, flat
    <3>1. ASSUME NEW k \in 1..n PROVE part[k] = part[k - 1] \o props[k]
      <4>1. part[k] = flat[k] BY <1>6
      <4>2. flat[k] = IF k = 1 THEN props[k] ELSE flat[k - 1] \o props[k] BY <1>9
      <4>3. k = 1 => part[k - 1] = << >> BY <1>1
      <4>4. k # 1 => part[k - 1] = flat[k - 1] BY <1>6
      <4>5. QED BY <1>2, <1>3, <4>1, <4>2, <4>3, <4>4
    <3>2. QED BY <3>1
  <2> HIDE DEF part, n
  <2>3. 0 \in P BY <1>3, <2>1
  <2>4. ASSUME NEW k \in Nat, k \in P PROVE k + 1 \in P
    <3>1. SUFFICES ASSUME k + 1 <= n PROVE part[k + 1] \in Seq(Int) OBVIOUS
    <3>2. k + 1 \in 1..n /\ (k + 1) - 1 = k /\ k <= n BY <1>1, <3>1
    <3>3. part[k] \in Seq(Int) BY <2>4, <3>2
    <3>4. part[k + 1] = part[k] \o props[k + 1] BY <2>2, <3>2
    <3>5. QED BY <1>2, <3>2, <3>3, <3>4
  <2>5. Nat \subseteq P
    <3> HIDE DEF P
    <3>1. QED BY <2>3, <2>4, Induction
  <2>6. \A k \in 0..n : part[k] \in Seq(Int) BY <2>5, <1>1
  <2>7. part = [k \in 0..n |-> part[k]] BY DEF part
  <2>8. part \in [0..n -> Seq(Int)] BY <2>6, <2>7
  <2>9. QED BY <2>1, <2>2, <2>8 DEF Concats, n
<1>11. FlattenSeq(props) = flat[n] BY <1>1, Zenon DEF FlattenSeq
<1>12. part[n] = flat[n]
  <2> HIDE DEF n, flat
  <2>1. QED BY <1>1
<1>13. QED BY <1>10, <1>11, <1>12

Begins(s, t) == Len(s) <= Len(t) /\ \A i \in 1..Len(s) : t[i] = s[i]

Joins(r, s, t) ==
    /\ Len(r) = Len(s) + Len(t) /\ Begins(s, r)
    /\ \A i \in 1..Len(t) : r[Len(s) + i] = t[i]

LEMMA Appending ==
    ASSUME NEW S, NEW s \in Seq(S), NEW t \in Seq(S)
    PROVE  Joins(s \o t, s, t)
<1>1. Len(s) \in Nat /\ Len(t) \in Nat /\ Len(s \o t) = Len(s) + Len(t) OBVIOUS
<1>2. \A i \in 1..Len(s) : (s \o t)[i] = s[i] OBVIOUS
<1>3. ASSUME NEW i \in 1..Len(t) PROVE (s \o t)[Len(s) + i] = t[i]
  <2>1. Len(s) + i > Len(s) /\ Len(s) + i <= Len(s) + Len(t) /\ (Len(s) + i) - Len(s) = i
        /\ Len(s) + i \in Nat
    BY <1>1
  <2>2. QED BY <1>1, <2>1
<1>4. QED BY <1>1, <1>2, <1>3 DEF Joins, Begins

LEMMA BeginsOn ==
    ASSUME NEW r \in Seq(Int), NEW s \in Seq(Int), NEW t \in Seq(Int), Begins(r, s), Begins(s, t)
    PROVE  Begins(r, t)
<1>1. Len(r) \in Nat /\ Len(s) \in Nat /\ Len(t) \in Nat OBVIOUS
<1>2. Len(r) <= Len(s) /\ Len(s) <= Len(t) BY DEF Begins
<1>3. Len(r) <= Len(t) BY <1>1, <1>2
<1>4. ASSUME NEW i \in 1..Len(r) PROVE t[i] = r[i]
  <2>1. i \in 1..Len(s) BY <1>1, <1>2
  <2>2. s[i] = r[i] BY DEF Begins
  <2>3. t[i] = s[i] BY <2>1 DEF Begins
  <2>4. QED BY <2>2, <2>3
<1>5. QED BY <1>3, <1>4 DEF Begins

StandsAt(part, props, j) ==
    /\ Len(part[j - 1]) \in Nat /\ Len(part[j]) \in Nat /\ Len(part[Len(props)]) \in Nat
    /\ Len(part[j]) = Len(part[j - 1]) + Len(props[j])
    /\ Len(part[j]) <= Len(part[Len(props)])
    /\ \A i \in 1..Len(props[j]) : part[Len(props)][Len(part[j - 1]) + i] = props[j][i]

LEMMA Placed ==
    ASSUME NEW props \in Seq(Seq(Int)), NEW part, Concats(part, props), NEW j \in 1..Len(props)
    PROVE  StandsAt(part, props, j)
<1> DEFINE n == Len(props)
           P == {d \in Nat : j + d <= n => Begins(part[j], part[j + d])}
<1>1. n \in Nat /\ j \in Nat /\ props[j] \in Seq(Int) OBVIOUS
<1>2. /\ \A k \in 0..n : part[k] \in Seq(Int)
      /\ \A k \in 1..n : part[k] = part[k - 1] \o props[k]
  BY DEF Concats
<1> HIDE DEF n
<1>3. j - 1 \in 0..n /\ j \in 0..n /\ n \in 0..n /\ n - j \in Nat BY <1>1 DEF n
<1>4. part[j - 1] \in Seq(Int) /\ part[j] \in Seq(Int) /\ part[n] \in Seq(Int) BY <1>2, <1>3
<1>5. part[j] = part[j - 1] \o props[j] BY <1>2 DEF n
<1>6. /\ Len(part[j]) = Len(part[j - 1]) + Len(props[j])
      /\ Begins(part[j - 1], part[j])
      /\ \A i \in 1..Len(props[j]) : part[j][Len(part[j - 1]) + i] = props[j][i]
  <2>1. Joins(part[j], part[j - 1], props[j]) BY <1>1, <1>4, <1>5, Appending
  <2>2. QED BY <2>1 DEF Joins
<1>7. 0 \in P
  <2>1. Begins(part[j], part[j + 0]) BY <1>1, <1>4 DEF Begins
  <2>2. QED BY <2>1
<1>8. ASSUME NEW d \in Nat, d \in P PROVE d + 1 \in P
  <2>1. SUFFICES ASSUME j + (d + 1) <= n PROVE Begins(part[j], part[j + (d + 1)]) OBVIOUS
  <2>2. /\ j + d <= n /\ j + d \in 0..n /\ j + (d + 1) \in 1..n /\ (j + (d + 1)) - 1 = j + d
        /\ j + (d + 1) \in 0..n
    BY <1>1, <2>1
  <2>3. Begins(part[j], part[j + d]) BY <1>8, <2>2
  <2>4. part[j + (d + 1)] = part[j + d] \o props[j + (d + 1)] BY <1>2, <2>2
  <2>5. props[j + (d + 1)] \in Seq(Int) BY <2>2 DEF n
  <2>6. part[j + d] \in Seq(Int) /\ part[j + (d + 1)] \in Seq(Int) BY <1>2, <2>2
  <2>7. Begins(part[j + d], part[j + (d + 1)]) BY <2>4, <2>5, <2>6, Appending DEF Joins
  <2>8. QED BY <1>4, <2>3, <2>6, <2>7, BeginsOn
<1>9. Begins(part[j], part[n])
  <2>1. Nat \subseteq P
    <3> HIDE DEF P
    <3>1. QED BY <1>7, <1>8, Induction
  <2>2. n - j \in P BY <1>3, <2>1
  <2>3. j + (n - j) = n BY <1>1
  <2>4. QED BY <2>2, <2>3, <1>1
<1>10. Len(part[j - 1]) \in Nat /\ Len(part[j]) \in Nat /\ Len(part[n]) \in Nat
       /\ Len(props[j]) \in Nat BY <1>1, <1>4
<1>11. ASSUME NEW i \in 1..Len(props[j])
       PROVE  part[n][Len(part[j - 1]) + i] = props[j][i]
  <2>0. Len(part[j]) = Len(part[j - 1]) + Len(props[j]) /\ i \in Nat /\ 1 <= i /\ i <= Len(props[j])
    BY <1>6, <1>10
  <2>1. Len(part[j - 1]) + i \in 1..Len(part[j])
    <3>1. ASSUME NEW a \in Nat, NEW b \in Nat, NEW c, c = a + b, i <= b PROVE a + i \in 1..c
      BY <2>0, <3>1
    <3>2. QED BY <1>10, <2>0, <3>1
  <2>2. QED BY <1>6, <1>9, <2>1 DEF Begins
<1>12. Len(part[j]) <= Len(part[n]) BY <1>9 DEF Begins
<1>13. QED BY <1>6, <1>10, <1>11, <1>12 DEF n, StandsAt

-----------------------------------------------------------------------------
\* A property of 4 + 2m words, and the two kinds of them.
IsProp(p, m, type, key) ==
    /\ p \in Seq(Int) /\ Len(p) = 4 + 2 * m /\ Padded(p[1]) = 8 * m
    /\ p[2] = type /\ p[3 + 2 * m] = key

Says(p, key, type, value) == IsProp(p, 1, type, key) /\ p[3] = value

LEMMA PropIs ==
    ASSUME NEW key \in Int, NEW type \in Int, NEW value \in Int
    PROVE  Says(Prop(key, type, value), key, type, value)
<1> DEFINE p == <<4, type, value, 0, key, 0>>
<1>1. p \in Seq(Int) /\ Len(p) = 6 /\ p[1] = 4 /\ p[2] = type /\ p[3] = value /\ p[5] = key OBVIOUS
<1>2. Padded(4) = 8 BY DEF Padded
<1>3. p = Prop(key, type, value) BY DEF Prop
<1> HIDE DEF p
<1>4. QED BY <1>1, <1>2, <1>3 DEF IsProp, Says

Payload(words) == [w \in 1..words |-> 48000]
LEMMA PayloadIs ==
    ASSUME NEW words \in Nat PROVE Payload(words) \in Seq(Int) /\ Len(Payload(words)) = words
BY DEF Payload

LEMMA UnknownIs ==
    ASSUME NEW size \in Nat
    PROVE  \E m \in Nat : IsProp(Unknown(size), m, Int32, 7)
<1> DEFINE m == (size + 7) \div 8
           pay == Payload(2 * m)
           s == <<size, Int32>>
           u == s \o pay
           z == <<7, 0>>
           p == u \o z
<1>1. m \in Nat OBVIOUS
<1>2. p = Unknown(size) BY DEF Unknown, Payload
<1> HIDE DEF m
<1>3. 2 * m \in Nat BY <1>1
<1>4. pay \in Seq(Int) /\ Len(pay) = 2 * m BY <1>3, PayloadIs
<1>5. s \in Seq(Int) /\ Len(s) = 2 /\ s[1] = size /\ s[2] = Int32 BY DEF Int32
<1> HIDE DEF pay, s
<1>6. u \in Seq(Int) /\ Len(u) = 2 + 2 * m /\ u[1] = size /\ u[2] = Int32
  <2>1. Joins(u, s, pay) /\ u \in Seq(Int) BY <1>4, <1>5, Appending
  <2>2. Len(u) = 2 + 2 * m BY <1>4, <1>5, <2>1 DEF Joins
  <2>3. 1 \in 1..Len(s) /\ 2 \in 1..Len(s) BY <1>5
  <2>4. QED BY <1>5, <2>1, <2>2, <2>3 DEF Joins, Begins
<1>7. z \in Seq(Int) /\ Len(z) = 2 /\ z[1] = 7 OBVIOUS
<1> HIDE DEF u, z
<1>8. p \in Seq(Int) /\ Len(p) = 4 + 2 * m /\ p[1] = size /\ p[2] = Int32 /\ p[3 + 2 * m] = 7
  <2>1. Joins(p, u, z) /\ p \in Seq(Int) BY <1>6, <1>7, Appending
  <2>2. Len(p) = 4 + 2 * m BY <1>3, <1>6, <1>7, <2>1 DEF Joins
  <2>3. 1 \in 1..Len(u) /\ 2 \in 1..Len(u) BY <1>3, <1>6
  <2>4. p[1] = size /\ p[2] = Int32 BY <1>6, <2>1, <2>3 DEF Joins, Begins
  <2>5. 1 \in 1..Len(z) BY <1>7
  <2>6. p[Len(u) + 1] = 7 BY <1>7, <2>1, <2>5 DEF Joins
  <2>7. Len(u) + 1 = 3 + 2 * m BY <1>3, <1>6
  <2>8. QED BY <2>1, <2>2, <2>4, <2>6, <2>7
<1>9. Padded(size) = 8 * m BY DEF Padded, m
<1> HIDE DEF p
<1>10. IsProp(p, m, Int32, 7) BY <1>8, <1>9 DEF IsProp
<1>11. QED BY <1>1, <1>2, <1>10

\* Where the j-th property stands once another has been put at place.
Moved(place, j) == IF j < place THEN j ELSE j + 1

Among(b, s, i, e) ==
    /\ Len(b) = Len(s) + 1 /\ b[i] = e
    /\ \A j \in 1..Len(s) : b[Moved(i, j)] = s[j]

LEMMA Inserted ==
    ASSUME NEW S, NEW s \in Seq(S), NEW e \in S, NEW i \in 1..Len(s) + 1
    PROVE  InsertAt(s, i, e) \in Seq(S) /\ Among(InsertAt(s, i, e), s, i, e)
<1> DEFINE l == SubSeq(s, 1, i - 1)
           r == SubSeq(s, i, Len(s))
           one == <<e>>
           a == l \o one
           b == a \o r
<1>1. Len(s) \in Nat /\ i \in Nat /\ 1 <= i /\ i <= Len(s) + 1 OBVIOUS
<1>2. l \in Seq(S) /\ Len(l) = i - 1 /\ \A k \in 1..i - 1 : l[k] = s[k] BY <1>1
<1>3. r \in Seq(S) /\ Len(r) = Len(s) + 1 - i /\ \A k \in 1..Len(s) + 1 - i : r[k] = s[i + k - 1]
  BY <1>1
<1>4. one \in Seq(S) /\ Len(one) = 1 /\ one[1] = e OBVIOUS
<1>5. b = InsertAt(s, i, e) BY DEF InsertAt
<1> HIDE DEF l, r, one
<1>6. Joins(a, l, one) /\ a \in Seq(S) BY <1>2, <1>4, Appending
<1>7. Len(a) = i BY <1>1, <1>2, <1>4, <1>6 DEF Joins
<1>8. \A k \in 1..i - 1 : a[k] = s[k] BY <1>2, <1>6 DEF Joins, Begins
<1>9. a[i] = e
  <2>1. a[Len(l) + 1] = one[1] BY <1>4, <1>6 DEF Joins
  <2>2. Len(l) + 1 = i BY <1>1, <1>2
  <2>3. QED BY <1>4, <2>1, <2>2
<1> HIDE DEF a
<1>10. Joins(b, a, r) /\ b \in Seq(S) BY <1>3, <1>6, Appending
<1>11. Len(b) = Len(s) + 1 BY <1>1, <1>3, <1>7, <1>10 DEF Joins
<1>12. \A k \in 1..i : b[k] = a[k] BY <1>7, <1>10 DEF Joins, Begins
<1>13. ASSUME NEW j \in 1..Len(s) PROVE b[Moved(i, j)] = s[j]
  <2>1. CASE j < i
    <3>1. j \in 1..i - 1 /\ j \in 1..i BY <1>1, <2>1
    <3>2. QED BY <1>8, <1>12, <2>1, <3>1 DEF Moved
  <2>2. CASE ~(j < i)
    <3>1. j + 1 - i \in 1..Len(s) + 1 - i /\ i + (j + 1 - i) = j + 1 /\ i + (j + 1 - i) - 1 = j
      BY <1>1, <2>2
    <3>2. b[i + (j + 1 - i)] = r[j + 1 - i] BY <1>3, <1>7, <1>10, <3>1 DEF Joins
    <3>3. r[j + 1 - i] = s[i + (j + 1 - i) - 1] BY <1>3, <3>1
    <3>4. QED BY <2>2, <3>1, <3>2, <3>3 DEF Moved
  <2>3. QED BY <2>1, <2>2
<1> HIDE DEF b
<1>14. b[i] = e
  <2>1. i \in 1..i BY <1>1
  <2>2. QED BY <1>9, <1>12, <2>1
<1>15. QED BY <1>5, <1>10, <1>11, <1>13, <1>14 DEF Among

\* What the walk knows after k properties, of which the one at place is unknown.
Knows(candidate, place, part, k, acc) ==
    /\ acc \in WalkStates /\ acc.inside /\ acc.off = 4 * (4 + Len(part[k]))
    /\ acc.kind = IF Moved(place, 3) <= k THEN KindOf(candidate[1]) ELSE -1
    /\ acc.rate = IF Moved(place, 4) <= k THEN candidate[2] ELSE 0
    /\ acc.channels = IF Moved(place, 5) <= k THEN candidate[3] ELSE 0

LEMMA WalkIs ==
    ASSUME NEW pod, WordAt(pod, 12) = 6
    PROVE  Walk(pod)[0] = Walking /\ \A k \in 1..6 : Walk(pod)[k] = Visit(pod, Walk(pod)[k - 1])
<1> DEFINE Is(f) == f = [k \in 0..6 |-> IF k = 0 THEN Walking ELSE Visit(pod, f[k - 1])]
           a1 == Visit(pod, Walking)
           a2 == Visit(pod, a1)
           a3 == Visit(pod, a2)
           a4 == Visit(pod, a3)
           a5 == Visit(pod, a4)
           a6 == Visit(pod, a5)
           g == [k \in 0..6 |-> CASE k = 0 -> Walking [] k = 1 -> a1 [] k = 2 -> a2
                                  [] k = 3 -> a3 [] k = 4 -> a4 [] k = 5 -> a5 [] k = 6 -> a6]
<1>1. Is(g)
  <2>1. /\ a1 = Visit(pod, Walking) /\ a2 = Visit(pod, a1) /\ a3 = Visit(pod, a2)
        /\ a4 = Visit(pod, a3) /\ a5 = Visit(pod, a4) /\ a6 = Visit(pod, a5)
    OBVIOUS
  <2> HIDE DEF a1, a2, a3, a4, a5, a6
  <2>2. /\ g[0] = Walking /\ g[1] = a1 /\ g[2] = a2 /\ g[3] = a3 /\ g[4] = a4 /\ g[5] = a5
        /\ g[6] = a6
    OBVIOUS
  <2>3. g = [k \in 0..6 |-> g[k]] OBVIOUS
  <2> HIDE DEF g
  <2>4. ASSUME NEW k \in 0..6 PROVE g[k] = IF k = 0 THEN Walking ELSE Visit(pod, g[k - 1])
    <3>1. k = 0 \/ k = 1 \/ k = 2 \/ k = 3 \/ k = 4 \/ k = 5 \/ k = 6 OBVIOUS
    <3>2. QED BY <2>1, <2>2, <3>1
  <2>5. QED BY <2>3, <2>4
<1>2. Walk(pod) = CHOOSE f : Is(f)
  <2>1. Walk(pod) = CHOOSE f : f = [k \in 0..WordAt(pod, 12) |->
                                       IF k = 0 THEN Walking ELSE Visit(pod, f[k - 1])]
    BY Zenon DEF Walk
  <2>2. QED BY <2>1
<1> HIDE DEF g, Is
<1>3. Is(Walk(pod)) BY <1>1, <1>2
<1>4. Walk(pod) = [k \in 0..6 |-> IF k = 0 THEN Walking ELSE Visit(pod, Walk(pod)[k - 1])]
  BY <1>3 DEF Is
<1>5. QED BY <1>4

LEMMA VisitEnds == ASSUME NEW pod, NEW acc, Ended(acc) PROVE Ended(Visit(pod, acc))
BY DEF Visit, Ended, WalkStates

\* The properties of a pod with one the worker does not know among them.
Properties(candidate, place, extra) ==
    InsertAt(FormatProps(candidate[1], candidate[2], candidate[3]), place, Unknown(extra))

\* The key, the type and the value of the j-th property of FormatProps.
Keys(j) == CASE j = 1 -> MediaType [] j = 2 -> MediaSubtype [] j = 3 -> AudioFormat
             [] j = 4 -> AudioRate [] j = 5 -> AudioChannels
Types(j) == IF j \in {1, 2, 3} THEN Id ELSE Int32
Values(candidate, j) == IF j \in {1, 2} THEN 1 ELSE candidate[j - 2]

LEMMA Five ==
    ASSUME NEW S, NEW a \in S, NEW b \in S, NEW c \in S, NEW d \in S, NEW e \in S
    PROVE  <<a, b, c, d, e>> \in Seq(S)
OBVIOUS

LEMMA PropertiesAre ==
    ASSUME NEW candidate \in Int \X Int \X Int, NEW place \in 1..6, NEW extra \in Nat
    PROVE  /\ Properties(candidate, place, extra) \in Seq(Seq(Int))
           /\ Len(Properties(candidate, place, extra)) = 6
           /\ \E m \in Nat : IsProp(Properties(candidate, place, extra)[place], m, Int32, 7)
           /\ \A j \in 1..5 :
                 LET p == Properties(candidate, place, extra)[Moved(place, j)]
                 IN  IsProp(p, 1, Types(j), Keys(j)) /\ p[3] = Values(candidate, j)
<1> DEFINE f == FormatProps(candidate[1], candidate[2], candidate[3])
           u == Unknown(extra)
<1>1. candidate[1] \in Int /\ candidate[2] \in Int /\ candidate[3] \in Int OBVIOUS
<1>2. /\ MediaType \in Int /\ MediaSubtype \in Int /\ AudioFormat \in Int /\ AudioRate \in Int
      /\ AudioChannels \in Int /\ Id \in Int /\ Int32 \in Int
  BY DEF MediaType, MediaSubtype, AudioFormat, AudioRate, AudioChannels, Id, Int32
<1>3. /\ Len(f) = 5
      /\ f[1] = Prop(MediaType, Id, 1) /\ f[2] = Prop(MediaSubtype, Id, 1)
      /\ f[3] = Prop(AudioFormat, Id, candidate[1]) /\ f[4] = Prop(AudioRate, Int32, candidate[2])
      /\ f[5] = Prop(AudioChannels, Int32, candidate[3])
  BY DEF FormatProps
<1>4. ASSUME NEW j \in 1..5
      PROVE  IsProp(f[j], 1, Types(j), Keys(j)) /\ f[j][3] = Values(candidate, j)
  <2> HIDE DEF f
  <2>1. f[j] = Prop(Keys(j), Types(j), Values(candidate, j)) /\ Keys(j) \in Int
        /\ Types(j) \in Int /\ Values(candidate, j) \in Int
    <3>1. CASE j = 1 BY <1>2, <1>3, <3>1 DEF Keys, Types, Values
    <3>2. CASE j = 2 BY <1>2, <1>3, <3>2 DEF Keys, Types, Values
    <3>3. CASE j = 3 BY <1>1, <1>2, <1>3, <3>3 DEF Keys, Types, Values
    <3>4. CASE j = 4 BY <1>1, <1>2, <1>3, <3>4 DEF Keys, Types, Values
    <3>5. CASE j = 5 BY <1>1, <1>2, <1>3, <3>5 DEF Keys, Types, Values
    <3>6. QED BY <3>1, <3>2, <3>3, <3>4, <3>5
  <2>2. Says(Prop(Keys(j), Types(j), Values(candidate, j)), Keys(j), Types(j), Values(candidate, j))
    BY <2>1, PropIs
  <2>3. Says(f[j], Keys(j), Types(j), Values(candidate, j)) BY <2>1, <2>2, Zenon
  <2>4. QED BY <2>3 DEF Says
<1>5. f \in Seq(Seq(Int))
  <2>1. \A j \in 1..5 : f[j] \in Seq(Int) BY <1>4 DEF IsProp
  <2>2. f[1] \in Seq(Int) /\ f[2] \in Seq(Int) /\ f[3] \in Seq(Int) /\ f[4] \in Seq(Int)
        /\ f[5] \in Seq(Int) BY <2>1
  <2>3. f = <<f[1], f[2], f[3], f[4], f[5]>> BY DEF FormatProps
  <2> HIDE DEF f
  <2>4. <<f[1], f[2], f[3], f[4], f[5]>> \in Seq(Seq(Int)) BY <2>2, Five
  <2>5. QED BY <2>3, <2>4
<1>6. PICK m \in Nat : IsProp(u, m, Int32, 7) BY UnknownIs
<1>7. u \in Seq(Int) BY <1>6 DEF IsProp
<1>8. Properties(candidate, place, extra) = InsertAt(f, place, u) BY DEF Properties
<1> HIDE DEF f, u
<1>9. place \in 1..Len(f) + 1 BY <1>3
<1>10. InsertAt(f, place, u) \in Seq(Seq(Int)) /\ Among(InsertAt(f, place, u), f, place, u)
  BY <1>5, <1>7, <1>9, Inserted, Zenon
<1>11. QED BY <1>3, <1>4, <1>6, <1>8, <1>10 DEF Among

LEMMA CandidatesAre ==
    ASSUME NEW candidate \in Candidates
    PROVE  /\ candidate \in Int \X Int \X Int
           /\ KindOf(candidate[1]) \in 0..2 /\ candidate[2] # 0 /\ candidate[3] # 0
BY DEF Candidates, KindOf, F32, S32, S16

\* A round over a property that stands after the first a words of a body of c words.
Reads(bytes, b, type, key, value, acc, next) ==
    IF 4 * (4 + b) - 4 <= bytes
    THEN /\ next \in WalkStates /\ next.inside /\ next.off = 4 * (4 + b)
         /\ next.kind = IF key = AudioFormat /\ type = Id THEN KindOf(value) ELSE acc.kind
         /\ next.rate = IF key = AudioRate /\ type = Int32 THEN value ELSE acc.rate
         /\ next.channels = IF key = AudioChannels /\ type = Int32 THEN value ELSE acc.channels
    ELSE Ended(next)

\* s holds the first l words of t, from the one after a on.
Holds(s, a, t, l) == \A i \in 1..l : s[a + i] = t[i]

LEMMA VisitReads ==
    ASSUME NEW a \in Nat, NEW b \in Nat, NEW c \in Nat, NEW body, NEW m \in Nat, NEW type, NEW key,
           NEW p, IsProp(p, m, type, key), b = a + Len(p), b <= c,
           Holds(body, a, p, Len(p)),
           NEW pod, pod.bytes \in Int, Holds(pod.words, 4, body, c),
           NEW acc \in WalkStates, acc.inside, acc.off = 4 * (4 + a)
    PROVE  Reads(pod.bytes, b, type, key, p[3], acc, Visit(pod, acc))
<1> DEFINE o == 4 + a
           next == Visit(pod, acc)
<1>1. p \in Seq(Int) /\ Len(p) = 4 + 2 * m /\ Padded(p[1]) = 8 * m /\ p[2] = type
      /\ p[3 + 2 * m] = key
  BY DEF IsProp
<1>2. ASSUME NEW i \in 1..4 + 2 * m PROVE pod.words[o + i] = p[i]
  <2>1. a + i \in 1..c /\ 4 + (a + i) = o + i /\ i \in 1..Len(p) BY <1>1
  <2>2. pod.words[4 + (a + i)] = body[a + i] BY <2>1 DEF Holds
  <2>3. body[a + i] = p[i] BY <2>1 DEF Holds
  <2>4. QED BY <2>1, <2>2, <2>3
<1>3. 1 \in 1..4 + 2 * m /\ 2 \in 1..4 + 2 * m /\ 3 \in 1..4 + 2 * m
      /\ 3 + 2 * m \in 1..4 + 2 * m
  OBVIOUS
<1>4. o + (3 + 2 * m) = o + 3 + 2 * m /\ o \in Nat OBVIOUS
<1>5. p[3] \in Int BY <1>1, <1>3
<1> HIDE DEF o
<1>6. /\ pod.words[o + 1] = p[1] /\ pod.words[o + 2] = type /\ pod.words[o + 3] = p[3]
      /\ pod.words[o + (3 + 2 * m)] = key
  BY <1>1, <1>2, <1>3
<1>7. pod.words[o + 3 + 2 * m] = key BY <1>4, <1>6
<1>8. pod.words[o + 3] \in Int /\ Padded(pod.words[o + 1]) = 8 * m BY <1>1, <1>5, <1>6
<1>9. acc.off = 4 * o BY DEF o
<1>10. Outcome(pod, o, m, acc, next) BY <1>4, <1>8, <1>9, Visited
<1>11. 4 * (o + 3 + 2 * m) = 4 * (4 + b) - 4 /\ 4 * (o + 4 + 2 * m) = 4 * (4 + b)
  BY <1>1 DEF o
<1> HIDE DEF next
<1>12. CASE 4 * (4 + b) - 4 <= pod.bytes
  <2>1. Taken(pod, o, m, acc, next) BY <1>10, <1>11, <1>12 DEF Outcome
  <2>2. /\ next \in WalkStates /\ next.inside /\ next.off = 4 * (4 + b)
        /\ next.kind = IF key = AudioFormat /\ type = Id THEN KindOf(p[3]) ELSE acc.kind
        /\ next.rate = IF key = AudioRate /\ type = Int32 THEN p[3] ELSE acc.rate
        /\ next.channels = IF key = AudioChannels /\ type = Int32 THEN p[3] ELSE acc.channels
    BY <1>6, <1>7, <1>11, <2>1 DEF Taken, HasKey
  <2>3. QED BY <1>12, <2>2 DEF Reads, next
<1>13. CASE ~(4 * (4 + b) - 4 <= pod.bytes)
  <2>1. Ended(next) BY <1>10, <1>11, <1>13 DEF Outcome
  <2>2. QED BY <1>13, <2>1 DEF Reads, next
<1>14. QED BY <1>12, <1>13

Goes(candidate, place, part, k, bytes, next) ==
    IF 4 * (4 + Len(part[k])) - 4 <= bytes THEN Knows(candidate, place, part, k, next)
    ELSE Ended(next)

\* One property more, if the pod does not end before its key.
LEMMA KnowsMore ==
    ASSUME NEW candidate \in Candidates, NEW place \in 1..6, NEW extra \in Nat, NEW part,
           Concats(part, Properties(candidate, place, extra)), NEW k \in 1..6,
           NEW pod, pod.bytes \in Int,
           Holds(pod.words, 4, part[6], Len(part[6])),
           NEW acc, Knows(candidate, place, part, k - 1, acc)
    PROVE  Goes(candidate, place, part, k, pod.bytes, Visit(pod, acc))
<1> DEFINE props == Properties(candidate, place, extra)
           p == props[k]
           a == Len(part[k - 1])
           b == Len(part[k])
           c == Len(part[6])
           next == Visit(pod, acc)
<1>1. candidate \in Int \X Int \X Int BY CandidatesAre
<1>2. props \in Seq(Seq(Int)) /\ Len(props) = 6 BY <1>1, PropertiesAre
<1>3. a \in Nat /\ b \in Nat /\ c \in Nat /\ b = a + Len(p) /\ b <= c
      /\ Holds(part[6], a, p, Len(p))
  <2>1. Concats(part, props) /\ k \in 1..Len(props) BY <1>2
  <2> HIDE DEF props
  <2>2. StandsAt(part, props, k) BY <1>2, <2>1, Placed
  <2>3. QED BY <1>2, <2>2 DEF StandsAt, Holds
<1>4. acc \in WalkStates /\ acc.inside /\ acc.off = 4 * (4 + a) BY DEF Knows
<1>5. ASSUME NEW m \in Nat, NEW type, NEW key, IsProp(p, m, type, key)
      PROVE  Reads(pod.bytes, b, type, key, p[3], acc, next)
  <2>1. Holds(pod.words, 4, part[6], c) OBVIOUS
  <2> HIDE DEF p, a, b, c
  <2>2. QED BY <1>3, <1>4, <1>5, <2>1, VisitReads
<1>6. /\ acc.kind = IF Moved(place, 3) <= k - 1 THEN KindOf(candidate[1]) ELSE -1
      /\ acc.rate = IF Moved(place, 4) <= k - 1 THEN candidate[2] ELSE 0
      /\ acc.channels = IF Moved(place, 5) <= k - 1 THEN candidate[3] ELSE 0
  BY DEF Knows
<1>7. CASE k = place
  <2>1. PICK m \in Nat : IsProp(p, m, Int32, 7) BY <1>1, <1>7, PropertiesAre
  <2>2. Reads(pod.bytes, b, Int32, 7, p[3], acc, next) BY <1>5, <2>1
  <2>3. 7 # AudioFormat /\ 7 # AudioRate /\ 7 # AudioChannels
    BY DEF AudioFormat, AudioRate, AudioChannels
  <2>4. \A j \in 1..5 : Moved(place, j) <= k <=> Moved(place, j) <= k - 1 BY <1>7 DEF Moved
  <2> HIDE DEF p, a, b, c, next
  <2>5. QED BY <1>6, <2>2, <2>3, <2>4 DEF Reads, Goes, Knows, b, next
<1>8. CASE k # place
  <2>1. PICK j \in 1..5 : k = Moved(place, j)
    <3>1. CASE k < place
      <4>1. k \in 1..5 /\ k = Moved(place, k) BY <3>1 DEF Moved
      <4>2. QED BY <4>1
    <3>2. CASE k > place
      <4>1. k - 1 \in 1..5 /\ k = Moved(place, k - 1) BY <3>2 DEF Moved
      <4>2. QED BY <4>1
    <3>3. QED BY <1>8, <3>1, <3>2
  <2>2. IsProp(p, 1, Types(j), Keys(j)) /\ p[3] = Values(candidate, j)
    BY <1>1, <2>1, PropertiesAre
  <2>3. Reads(pod.bytes, b, Types(j), Keys(j), Values(candidate, j), acc, next)
    <3>1. 1 \in Nat OBVIOUS
    <3>2. QED BY <1>5, <2>2, <3>1
  <2>4. \A i \in 1..5 : Moved(place, i) <= k <=> Moved(place, i) <= k - 1 \/ i = j
    BY <2>1 DEF Moved
  <2> HIDE DEF p, a, b, c, next
  <2>5. CASE ~(4 * (4 + b) - 4 <= pod.bytes) BY <2>3, <2>5 DEF Reads, Goes, b, next
  <2>6. CASE 4 * (4 + b) - 4 <= pod.bytes
    <3>1. /\ next \in WalkStates /\ next.inside /\ next.off = 4 * (4 + b)
          /\ next.kind = IF j = 3 THEN KindOf(candidate[1]) ELSE acc.kind
          /\ next.rate = IF j = 4 THEN candidate[2] ELSE acc.rate
          /\ next.channels = IF j = 5 THEN candidate[3] ELSE acc.channels
      BY <2>3, <2>6 DEF Reads, Keys, Types, Values, MediaType, MediaSubtype, AudioFormat,
                        AudioRate, AudioChannels, Id, Int32
    <3>2. Knows(candidate, place, part, k, next) BY <1>6, <2>4, <3>1 DEF Knows, b
    <3>3. QED BY <2>6, <3>2 DEF Goes, b, next
  <2>7. QED BY <2>5, <2>6
<1>9. QED BY <1>7, <1>8

\* The parser reads every format back from the pod the builder writes for it, whatever
\* the size and the place of a property it does not know, and wherever the pod is cut.
THEOREM OwnPodsReadBack ==
    ASSUME NEW candidate \in Candidates, NEW place \in 1..6, NEW extra \in Nat, NEW cut \in Nat
    PROVE  PodReadBack(candidate, place, extra, cut)
<1> DEFINE props == Properties(candidate, place, extra)
           body == FlattenSeq(props)
           head == <<8 + 4 * Len(body), Object, FormatObject, Len(props)>>
           whole == Assemble(props)
           pod == [whole EXCEPT !.bytes = @ - cut]
           walk == Walk(pod)
           f == [rate |-> candidate[2], channels |-> candidate[3], kind |-> KindOf(candidate[1])]
<1>1. /\ candidate \in Int \X Int \X Int
      /\ KindOf(candidate[1]) \in 0..2 /\ candidate[2] # 0 /\ candidate[3] # 0
  BY CandidatesAre
<1>2. props \in Seq(Seq(Int)) /\ Len(props) = 6 BY <1>1, PropertiesAre
<1>3. PICK part : Concats(part, props) /\ body = part[6]
  <2> HIDE DEF props
  <2>1. props # << >> BY <1>2
  <2>2. QED BY <1>2, <2>1, Flattened
<1> DEFINE c == Len(part[6])
<1>4. /\ part[0] = << >> /\ \A k \in 0..6 : part[k] \in Seq(Int)
      /\ \A k \in 1..6 : Len(part[k]) \in Nat /\ Len(part[k]) <= c
  <2> HIDE DEF props
  <2>1. ASSUME NEW k \in 1..6 PROVE Len(part[k]) \in Nat /\ Len(part[k]) <= c
    <3>1. StandsAt(part, props, k) BY <1>2, <1>3, Placed
    <3>2. QED BY <1>2, <3>1 DEF StandsAt
  <2>2. QED BY <1>2, <1>3, <2>1 DEF Concats
<1>5. whole.words = head \o body /\ whole.bytes = 8 + 8 + 4 * Len(body)
      /\ whole = [words |-> head \o body, bytes |-> 8 + 8 + 4 * Len(body)]
  BY DEF Assemble
<1> HIDE DEF whole, body
<1>6. pod.words = head \o part[6] /\ pod.bytes = 16 + 4 * c - cut /\ c \in Nat
  <2>1. pod.words = whole.words /\ pod.bytes = whole.bytes - cut BY <1>5
  <2>2. Len(part[6]) \in Nat /\ 6 \in 1..6 BY <1>4
  <2> HIDE DEF pod, head
  <2>3. QED BY <1>3, <1>5, <2>1, <2>2
<1> HIDE DEF pod
<1>7. /\ Holds(pod.words, 4, part[6], c) /\ pod.bytes \in Int
      /\ pod.words[2] = Object /\ pod.words[4] = 6
  <2>1. head \in Seq(Int) /\ Len(head) = 4 /\ head[2] = Object /\ head[4] = 6
    <3>1. 8 + 4 * Len(body) \in Int /\ Object \in Int /\ FormatObject \in Int
      BY <1>3, <1>4 DEF Object, FormatObject
    <3>2. Len(props) = 6 BY <1>2
    <3> HIDE DEF props
    <3>3. \A x \in Int, y \in Int, z \in Int :
              <<x, y, z, 6>> \in Seq(Int) /\ Len(<<x, y, z, 6>>) = 4
              /\ <<x, y, z, 6>>[2] = y /\ <<x, y, z, 6>>[4] = 6
      OBVIOUS
    <3>4. head = <<8 + 4 * Len(body), Object, FormatObject, 6>> BY <3>2
    <3>5. QED BY <3>1, <3>3, <3>4
  <2> HIDE DEF head
  <2>2. part[6] \in Seq(Int) BY <1>4
  <2>3. Joins(pod.words, head, part[6]) BY <1>6, <2>1, <2>2, Appending
  <2>4. 2 \in 1..4 /\ 4 \in 1..4 OBVIOUS
  <2>5. pod.words[2] = Object /\ pod.words[4] = 6 BY <2>1, <2>3, <2>4 DEF Joins, Begins
  <2>6. Holds(pod.words, 4, part[6], c) BY <2>1, <2>3 DEF Joins, Holds
  <2>7. QED BY <1>6, <2>5, <2>6
<1>8. WordAt(pod, 12) = 6 /\ WordAt(pod, 4) = Object
  <2>1. 12 \div 4 + 1 = 4 /\ 4 \div 4 + 1 = 2 OBVIOUS
  <2>2. QED BY <1>7, <2>1 DEF WordAt
<1>9. walk[0] = Walking /\ \A k \in 1..6 : walk[k] = Visit(pod, walk[k - 1]) BY <1>8, WalkIs
<1> HIDE DEF walk
<1> DEFINE N(k) == Knows(candidate, place, part, k, walk[k])
<1>10. N(0)
  <2>1. Len(part[0]) = 0 BY <1>4
  <2>2. \A j \in 1..5 : ~(Moved(place, j) <= 0) BY DEF Moved
  <2>3. QED BY <1>9, <2>1, <2>2 DEF Knows, Walking, WalkStates
<1> DEFINE In(k) == 4 * (4 + Len(part[k])) - 4 <= pod.bytes
<1>11. ASSUME NEW k \in 1..6, N(k - 1) PROVE IF In(k) THEN N(k) ELSE Ended(walk[k])
  <2>1. Concats(part, Properties(candidate, place, extra)) BY <1>3
  <2>2. Goes(candidate, place, part, k, pod.bytes, Visit(pod, walk[k - 1]))
    BY <1>7, <1>11, <2>1, KnowsMore
  <2>3. QED BY <1>9, <2>2 DEF Goes
<1>12. ASSUME NEW k \in 1..6, Ended(walk[k - 1]) PROVE Ended(walk[k])
  BY <1>9, <1>12, VisitEnds
<1>13. \A k \in 1..6 : Len(part[k]) \in Nat /\ Len(part[k]) <= c BY <1>4
<1>14. In(6) <=> cut <= 4
  <2>1. \A x \in Nat : 4 * (4 + x) - 4 <= 16 + 4 * x - cut <=> cut <= 4 OBVIOUS
  <2>2. 4 * (4 + c) - 4 <= 16 + 4 * c - cut <=> cut <= 4 BY <1>6, <2>1
  <2>3. QED BY <1>6, <2>2
<1> HIDE DEF c
<1>15. cut <= 4 => \A k \in 1..6 : In(k)
  <2>1. \A l \in Nat : l <= c /\ cut <= 4 => 4 * (4 + l) - 4 <= pod.bytes BY <1>6
  <2>2. QED BY <1>13, <2>1
<1> HIDE DEF In, N
<1>16. \A k \in 0..5 : k + 1 \in 1..6 /\ (k + 1) - 1 = k OBVIOUS
<1>17. ASSUME NEW k \in 0..5
       PROVE  /\ N(k) => IF In(k + 1) THEN N(k + 1) ELSE Ended(walk[k + 1])
              /\ Ended(walk[k]) => Ended(walk[k + 1])
  BY <1>11, <1>12, <1>16
<1>18. CASE cut <= 4
  <2>1. ASSUME NEW k \in 0..5, N(k) PROVE N(k + 1) BY <1>15, <1>16, <1>17, <1>18, <2>1
  <2>2. N(6)
    <3>1. N(0 + 1) BY <1>10, <2>1
    <3>2. N(1 + 1) BY <2>1, <3>1
    <3>3. N(2 + 1) BY <2>1, <3>2
    <3>4. N(3 + 1) BY <2>1, <3>3
    <3>5. N(4 + 1) BY <2>1, <3>4
    <3>6. N(5 + 1) BY <2>1, <3>5
    <3>7. QED BY <3>6
  <2>3. walk[6].inside /\ walk[6].kind = f.kind /\ walk[6].rate = f.rate
        /\ walk[6].channels = f.channels
    <3>1. Moved(place, 3) <= 6 /\ Moved(place, 4) <= 6 /\ Moved(place, 5) <= 6 BY DEF Moved
    <3>2. QED BY <2>2, <3>1 DEF Knows, N
  <2>4. InPod(pod, 12)
    <3>1. Len(props[1]) \in Nat /\ Len(props[1]) >= 4
      <4>1. CASE place = 1
        <5>1. PICK m \in Nat : IsProp(props[1], m, Int32, 7) BY <1>1, <4>1, PropertiesAre
        <5>2. QED BY <5>1 DEF IsProp
      <4>2. CASE place # 1
        <5>1. 1 = Moved(place, 1) /\ 1 \in 1..5 BY <4>2 DEF Moved
        <5>2. IsProp(props[1], 1, Types(1), Keys(1)) BY <1>1, <5>1, PropertiesAre
        <5>3. QED BY <5>2 DEF IsProp
      <4>3. QED BY <4>1, <4>2
    <3>2. Len(part[1]) = Len(part[0]) + Len(props[1]) /\ Len(part[0]) = 0
      <4> HIDE DEF props
      <4>1. 1 \in 1..Len(props) /\ 1 - 1 = 0 BY <1>2
      <4>2. StandsAt(part, props, 1) BY <1>2, <1>3, <4>1, Placed
      <4>3. QED BY <1>4, <4>1, <4>2 DEF StandsAt
    <3> HIDE DEF props
    <3>3. Len(part[1]) >= 4 /\ 1 \in 1..6 BY <3>1, <3>2
    <3>4. c >= 4 BY <1>13, <3>3, <1>6
    <3>5. QED BY <1>6, <1>18, <3>4 DEF InPod
  <2> HIDE DEF props
  <2>5. ParseFormat(pod) = f
    <3>1. f.kind # -1 /\ f.rate # 0 /\ f.channels # 0 BY <1>1
    <3> HIDE DEF f
    <3>2. ParseFormat(pod) = [rate |-> walk[6].rate, channels |-> walk[6].channels,
                              kind |-> walk[6].kind]
      BY <1>8, <2>3, <2>4, <3>1 DEF ParseFormat, walk
    <3>3. f = [rate |-> f.rate, channels |-> f.channels, kind |-> f.kind] BY DEF f
    <3>4. QED BY <2>3, <3>2, <3>3
  <2>6. ~(cut > 4) BY <1>18
  <2>7. QED BY <2>5, <2>6, Zenon DEF PodReadBack, Properties, pod, whole, props, f
<1>19. CASE ~(cut <= 4)
  <2>1. ~In(6) BY <1>14, <1>19
  <2> DEFINE S(k) == N(k) \/ Ended(walk[k])
  <2>2. ASSUME NEW k \in 0..5, S(k) PROVE S(k + 1) BY <1>17, <2>2
  <2>3. S(5)
    <3> HIDE DEF S
    <3>1. S(0) BY <1>10 DEF S
    <3>2. S(0 + 1) BY <2>2, <3>1
    <3>3. S(1 + 1) BY <2>2, <3>2
    <3>4. S(2 + 1) BY <2>2, <3>3
    <3>5. S(3 + 1) BY <2>2, <3>4
    <3>6. S(4 + 1) BY <2>2, <3>5
    <3>7. QED BY <3>6
  <2>4. Ended(walk[5 + 1])
    <3>1. ~In(5 + 1) BY <2>1
    <3>2. 5 \in 0..5 OBVIOUS
    <3>3. QED BY <1>17, <2>3, <3>1, <3>2
  <2>5. ~walk[6].inside BY <2>4 DEF Ended
  <2>6. ParseFormat(pod) = NoFormat BY <1>8, <2>5 DEF ParseFormat, walk
  <2>7. cut > 4 BY <1>19
  <2>8. QED BY <2>6, <2>7, Zenon DEF PodReadBack, Properties, pod, whole, props
<1>20. QED BY <1>18, <1>19
=============================================================================
