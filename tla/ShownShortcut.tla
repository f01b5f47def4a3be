--------------------------- MODULE ShownShortcut ---------------------------
(***************************************************************************)
(* What the hotkey promises the user, who sees one shortcut called working *)
(* or none: the plugin takes no combination from other programs that it    *)
(* has not shown as working since it was loaded, and a press toggles the   *)
(* capture at most once, only while its combination is the one shown, and  *)
(* never across a reload.  Texts, ids, the host's registrations and its    *)
(* messages are not part of it.                                            *)
(***************************************************************************)
EXTENDS Naturals

CONSTANTS
    Combos,   \* combinations a shortcut may be
    None      \* shown when no shortcut works

VARIABLES
    shown,     \* the combination the panel calls working
    offered,   \* those shown since the plugin was loaded, which programs no longer get
    presses,   \* presses so far
    waiting,   \* presses that may still toggle: [press, combo]
    toggles    \* how many did

Init ==
    /\ shown = None /\ offered = {}
    /\ presses = 0 /\ waiting = {} /\ toggles = 0

Show(c) ==
    /\ shown' = c /\ offered' = offered \cup {c}
    /\ UNCHANGED <<presses, waiting, toggles>>

\* No shortcut works: refused by the host, or no combination.
Hide ==
    /\ shown' = None
    /\ UNCHANGED <<offered, presses, waiting, toggles>>

Press(c) ==
    /\ c \in offered
    /\ presses' = presses + 1
    /\ waiting' = waiting \cup {[press |-> presses', combo |-> c]}
    /\ UNCHANGED <<shown, offered, toggles>>

Toggle(p) ==
    /\ p.combo = shown
    /\ waiting' = waiting \ {p} /\ toggles' = toggles + 1
    /\ UNCHANGED <<shown, offered, presses>>

\* A press of another shortcut, or one that found the plugin busy.
Lose(p) ==
    /\ waiting' = waiting \ {p}
    /\ UNCHANGED <<shown, offered, presses, toggles>>

Unload ==
    /\ shown' = None /\ offered' = {} /\ waiting' = {}
    /\ UNCHANGED <<presses, toggles>>

Next ==
    \/ \E c \in Combos : Show(c) \/ Press(c)
    \/ Hide \/ Unload
    \/ \E p \in waiting : Toggle(p) \/ Lose(p)

shortcut_vars == <<shown, offered, presses, waiting, toggles>>
Spec == Init /\ [][Next]_shortcut_vars
=============================================================================
