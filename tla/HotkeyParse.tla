---------------------------- MODULE HotkeyParse ----------------------------
(***************************************************************************)
(* hotkey.rs: the key combination a shortcut text names.  A text is the    *)
(* sequence of its tokens, split at '+', trimmed and in lower case; an     *)
(* empty one stands for nothing written between two '+'.                   *)
(***************************************************************************)
EXTENDS Naturals, Sequences, SequencesExt

\* The modifiers and their other names.
Modifiers == [ctrl |-> "ctrl", control |-> "ctrl", alt |-> "alt", option |-> "alt",
              shift |-> "shift", win |-> "win", super |-> "win", meta |-> "win",
              cmd |-> "win", command |-> "win"]

Letters == <<"a", "b", "c", "d", "e", "f", "g", "h", "i", "j", "k", "l", "m", "n", "o", "p",
             "q", "r", "s", "t", "u", "v", "w", "x", "y", "z">>
Digits == <<"0", "1", "2", "3", "4", "5", "6", "7", "8", "9">>
FunctionKeys == <<"f1", "f2", "f3", "f4", "f5", "f6", "f7", "f8", "f9", "f10", "f11", "f12",
                  "f13", "f14", "f15", "f16", "f17", "f18", "f19", "f20", "f21", "f22",
                  "f23", "f24">>

NamedKeys == [space |-> 32, tab |-> 9, enter |-> 13, return |-> 13, backspace |-> 8,
    escape |-> 27, esc |-> 27, pause |-> 19, insert |-> 45, delete |-> 46, home |-> 36,
    end |-> 35, pageup |-> 33, pagedown |-> 34, up |-> 38, left |-> 37, down |-> 40,
    right |-> 39, minus |-> 189, equal |-> 187, equals |-> 187, bracketleft |-> 219,
    leftbracket |-> 219, bracketright |-> 221, rightbracket |-> 221, backslash |-> 220,
    semicolon |-> 186, quote |-> 222, apostrophe |-> 222, comma |-> 188, period |-> 190,
    dot |-> 190, slash |-> 191, backquote |-> 192, grave |-> 192]

\* Left out: leading zeros of a function key's number (f08), which parse accepts.
\* The codes of a run of keys from the first one's.
Codes(keys, first) == [k \in ToSet(keys) |-> first + AntiFunction(keys)[k] - 1]

\* key_to_vk; a name outside its domain is no key.
KeyTables == {Codes(Letters, 65), Codes(Digits, 48), Codes(FunctionKeys, 112), NamedKeys}
KeyToVk == [key \in UNION {DOMAIN t : t \in KeyTables} |->
               (CHOOSE t \in KeyTables : key \in DOMAIN t)[key]]

\* The codes of letters and digits: alone they would take typing away.
Typed == 48..57 \cup 65..90

\* mutant: a second main key replaces the first
LastKeyWins(acc, tok) ==
    IF acc.failed \/ tok = "" THEN acc
    ELSE IF tok \in DOMAIN Modifiers THEN [acc EXCEPT !.mods = @ \cup {Modifiers[tok]}]
    ELSE IF tok \in DOMAIN KeyToVk THEN [acc EXCEPT !.vk = KeyToVk[tok]]
    ELSE [acc EXCEPT !.failed = TRUE]

\* One round of parse's loop.  An error leaves it: what follows is not read.  The
\* mouse's tokens, which have a message of their own, are errors like other words.
Scan(acc, tok) ==
    IF acc.failed \/ tok = "" THEN acc
    ELSE IF tok \in DOMAIN Modifiers THEN [acc EXCEPT !.mods = @ \cup {Modifiers[tok]}]
    ELSE IF tok \in DOMAIN KeyToVk /\ acc.vk = 0 THEN [acc EXCEPT !.vk = KeyToVk[tok]]
    ELSE [acc EXCEPT !.failed = TRUE]

NoCombo == [mods |-> {}, vk |-> 0]

\* Before the first round, and the rounds of the loop.
Unread == [failed |-> FALSE, mods |-> {}, vk |-> 0]
Rounds(text) ==
    LET acc[k \in 0..Len(text)] == IF k = 0 THEN Unread ELSE Scan(acc[k - 1], text[k])
    IN  acc

\* parse: the combination, or NoCombo for every error.
Parse(text) ==
    LET read == Rounds(text)[Len(text)]
    IN  IF read.failed \/ read.vk = 0 \/ (read.mods = {} /\ read.vk \in Typed) THEN NoCombo
        ELSE [mods |-> read.mods, vk |-> read.vk]

-----------------------------------------------------------------------------
\* The positions at which a text names something other than a modifier.
MainKeys(text) == {i \in DOMAIN text : text[i] # "" /\ text[i] \notin DOMAIN Modifiers}
Held(text) == {Modifiers[text[i]] : i \in {j \in DOMAIN text : text[j] \in DOMAIN Modifiers}}

\* A shortcut is accepted when it names one known key, and holds a modifier where
\* the key is one a user types; it then means that key and those modifiers, in
\* whatever order and under whatever names they are written (hotkey.rs:39, parse).
MeansItsKeys(text) ==
    Parse(text) =
        IF \E i \in MainKeys(text) :
              /\ MainKeys(text) = {i} /\ text[i] \in DOMAIN KeyToVk
              /\ Held(text) # {} \/ KeyToVk[text[i]] \notin Typed
        THEN [mods |-> Held(text),
              vk |-> KeyToVk[text[CHOOSE i \in MainKeys(text) : TRUE]]]
        ELSE NoCombo
=============================================================================
