------------------------------ MODULE Hotkey ------------------------------
(***************************************************************************)
(* lib.rs: plan_hotkey, its two callers and handle_message's filter of     *)
(* hotkey messages.  The user changes the configured shortcut while the    *)
(* plugin runs, the host can register shortcuts but never release one, and *)
(* a press reaches the plugin as a message some time after it happened.    *)
(***************************************************************************)
EXTENDS HotkeyParse

CONSTANTS
    Texts,       \* shortcuts the user may write, each the sequence of its tokens
    MaxIds,      \* bound: registrations the host hands out
    MaxPresses   \* bound: presses of a behaviour

NoText == << >>   \* the text of a new session

ASSUME TextsAssumption == NoText \notin Texts /\ Texts \subseteq Seq(STRING)
ASSUME BoundsAssumption == MaxIds \in Nat /\ MaxPresses \in Nat

Valid(t) == Parse(t) # NoCombo
Combos == {Parse(t) : t \in {u \in Texts : Valid(u)}}

VARIABLES
    config,              \* the host's config key "hotkey"
    up,                  \* between init and deinit
    hotkey_text, hotkey_ok, hotkey_id, host_hotkey_sc, host_hotkey_active,
    registered,          \* the host's registrations: [id, combo]
    lastId,              \* ids handed out so far
    elsewhere,           \* combos another program holds
    messages,            \* hotkey messages under way: [id, press, combo]
    pressed,             \* ghost: presses so far
    toggled              \* ghost: messages that toggled, with the shortcut then shown

plan == <<hotkey_text, hotkey_ok, hotkey_id, host_hotkey_sc, host_hotkey_active>>
host == <<registered, lastId, elsewhere>>
user == <<messages, pressed, toggled>>
vars == <<config, up, plan, host, user>>

Init ==
    /\ config \in Texts /\ up = FALSE
    /\ hotkey_text = NoText /\ hotkey_ok = FALSE /\ hotkey_id = 0
    /\ host_hotkey_sc = NoText /\ host_hotkey_active = FALSE
    /\ registered = {} /\ lastId = 0 /\ elsewhere = {}
    /\ messages = {} /\ pressed = 0 /\ toggled = {}

-----------------------------------------------------------------------------
\* plan_hotkey for the text t.

\* mutant: whatever the registration is for
RevivesAny(t) == hotkey_id # 0
Revives(t) == hotkey_id # 0 /\ host_hotkey_sc = t

\* The registration still held was made for this very text.
Revive(t) ==
    /\ Revives(t)
    /\ host_hotkey_active' = TRUE /\ hotkey_ok' = TRUE
    /\ UNCHANGED <<hotkey_id, host_hotkey_sc, registered, lastId>>

\* mutant: the live registration stays active
RejectKeepsActive(t) ==
    /\ ~Revives(t) /\ ~Valid(t)
    /\ hotkey_ok' = FALSE
    /\ UNCHANGED <<host_hotkey_active, hotkey_id, host_hotkey_sc, registered, lastId>>

\* hotkey::parse rejects it and the host is not asked, although TECHNICAL.md:221 has
\* such a text offered to it once.
Reject(t) ==
    /\ ~Revives(t) /\ ~Valid(t)
    /\ host_hotkey_active' = FALSE /\ hotkey_ok' = FALSE
    /\ UNCHANGED <<hotkey_id, host_hotkey_sc, registered, lastId>>

\* The host refuses: the combo is held by another program, or by this one.
Refused(t) ==
    /\ ~Revives(t) /\ Valid(t)
    /\ Parse(t) \in elsewhere \/ \E r \in registered : r.combo = Parse(t)
    /\ host_hotkey_active' = FALSE /\ hotkey_ok' = FALSE
    /\ UNCHANGED <<hotkey_id, host_hotkey_sc, registered, lastId>>

\* The host registers it.  Whether it hands out a second registration for a combo
\* it already holds for the plugin is not known: both happen.
Register(t) ==
    /\ ~Revives(t) /\ Valid(t) /\ Parse(t) \notin elsewhere
    /\ lastId < MaxIds
    /\ lastId' = lastId + 1
    /\ registered' = registered \cup {[id |-> lastId', combo |-> Parse(t)]}
    /\ hotkey_id' = lastId' /\ host_hotkey_sc' = t
    /\ host_hotkey_active' = TRUE /\ hotkey_ok' = TRUE

\* mutant: the new text is not remembered
PlanHotkeyForgetsText(t) ==
    /\ hotkey_text' = hotkey_text
    /\ Revive(t) \/ Reject(t) \/ Refused(t) \/ Register(t)

PlanHotkey(t) ==
    /\ hotkey_text' = t
    /\ Revive(t) \/ Reject(t) \/ Refused(t) \/ Register(t)

-----------------------------------------------------------------------------
PluginInit ==
    /\ ~up /\ up' = TRUE
    /\ PlanHotkey(config)
    /\ UNCHANGED <<config, elsewhere, user>>

\* ui:apply, and every fifth tick of a running capture.
ApplyConfig ==
    /\ up /\ config # hotkey_text
    /\ PlanHotkey(config)
    /\ UNCHANGED <<config, up, elsewhere, user>>

\* The session is forgotten; the host drops what the plugin had registered.  It is
\* taken not to hand out an id again after a reload (lastId goes on): a message of
\* an old registration could otherwise bear the id of a new one.
PluginDeinit ==
    /\ up /\ up' = FALSE
    /\ hotkey_text' = NoText /\ hotkey_ok' = FALSE /\ hotkey_id' = 0
    /\ host_hotkey_sc' = NoText /\ host_hotkey_active' = FALSE
    /\ registered' = {}
    /\ UNCHANGED <<config, lastId, elsewhere, user>>

-----------------------------------------------------------------------------
\* Environment and messages.

\* The user edits the key, in the panel or in the host's file.
EditConfig ==
    /\ \E t \in Texts \ {config} : config' = t
    /\ UNCHANGED <<up, plan, host, user>>

\* Another program takes a combo nobody holds, or gives one back.
OthersChange ==
    /\ \E c \in Combos :
         \/ c \in elsewhere /\ elsewhere' = elsewhere \ {c}
         \/ c \notin elsewhere /\ (\A r \in registered : r.combo # c)
            /\ elsewhere' = elsewhere \cup {c}
    /\ UNCHANGED <<config, up, plan, registered, lastId, user>>

\* A press reaches every registration of the combo as a message of its own.
Press ==
    /\ pressed < MaxPresses
    /\ \E r \in registered :
         messages' = messages \cup
             {[id |-> q.id, press |-> pressed + 1, combo |-> q.combo] :
                  q \in {x \in registered : x.combo = r.combo}}
    /\ pressed' = pressed + 1
    /\ UNCHANGED <<config, up, plan, host, toggled>>

\* mutant: any registration's message counts while one is active
HonouredWhileActive(m) == host_hotkey_active
\* handle_message's filter of hotkey:<id>.
Honoured(m) == host_hotkey_active /\ m.id # 0 /\ m.id = hotkey_id

\* A message is handled and calls toggle or not.
HandleHotkey ==
    /\ up
    /\ \E m \in messages :
         /\ messages' = messages \ {m}
         /\ toggled' = IF Honoured(m)
                       THEN toggled \cup {[press |-> m.press, id |-> m.id, combo |-> m.combo,
                                           shown |-> hotkey_text]}
                       ELSE toggled
    /\ UNCHANGED <<config, up, plan, host, pressed>>

\* The host drops the message: the plugin is busy, or gone.
DropMessage ==
    /\ \E m \in messages : messages' = messages \ {m}
    /\ UNCHANGED <<config, up, plan, host, pressed, toggled>>

Next == \/ PluginInit \/ ApplyConfig \/ PluginDeinit
        \/ EditConfig \/ OthersChange \/ Press \/ HandleHotkey \/ DropMessage

Spec == Init /\ [][Next]_vars

-----------------------------------------------------------------------------
\* Properties.

Ids == 1..MaxIds
Presses == 1..MaxPresses

\* Every variable has its type, and nothing toggles before plan_hotkey has set the
\* text that is shown.
TypeOK ==
    /\ config \in Texts /\ up \in BOOLEAN
    /\ hotkey_text \in Texts \cup {NoText} /\ hotkey_ok \in BOOLEAN
    /\ hotkey_id \in {0} \cup Ids /\ host_hotkey_sc \in Texts \cup {NoText}
    /\ host_hotkey_active \in BOOLEAN
    /\ registered \subseteq [id : Ids, combo : Combos \cup {NoCombo}]
    /\ lastId \in 0..MaxIds /\ elsewhere \subseteq Combos
    /\ messages \subseteq [id : Ids, press : Presses, combo : Combos \cup {NoCombo}]
    /\ pressed \in 0..MaxPresses
    /\ toggled \subseteq [press : Presses, id : Ids, combo : Combos \cup {NoCombo}, shown : Texts]

\* A shortcut the panel calls working (hotkeyOk) is registered with the host and
\* its messages are honoured; one it calls unavailable starts nothing.
ShownHotkeyWorks ==
    /\ hotkey_ok = host_hotkey_active
    /\ hotkey_ok => [id |-> hotkey_id, combo |-> Parse(hotkey_text)] \in registered

\* A press that arrives after the shortcut was changed does not toggle: whatever
\* toggles is a press of the shortcut shown when it is handled (handle_message's
\* filter by id; the stale registrations never go away).
OnlyTheShownToggles == \A t \in toggled : t.combo = Parse(t.shown)

\* One press toggles once, although the host may hold several registrations of
\* its combo and sends a message for each.
OneTogglePerPress == \A s, t \in toggled : s.press = t.press => s = t

\* The shortcut as the user knows it (ShownShortcut), whatever is registered and under
\* way: a press may still toggle while a message of it is on its way to a registration
\* the host still holds, and has not toggled (plan_hotkey, handle_message, deinit).
Shown == IF hotkey_ok THEN Parse(hotkey_text) ELSE NoCombo
Offered == {r.combo : r \in registered}
Live(m) == (\E r \in registered : r.id = m.id) /\ \A t \in toggled : t.press # m.press
Waiting == {[press |-> m.press, combo |-> m.combo] : m \in {l \in messages : Live(l)}}
User == INSTANCE ShownShortcut WITH
    None <- NoCombo, shown <- Shown, offered <- Offered, presses <- pressed,
    waiting <- Waiting, toggles <- Cardinality(toggled)
ShownShortcutKept == User!Spec

\* lib.rs:708-711 and TECHNICAL.md:223: going back from B to an A whose registration
\* is still held reuses it, so that A works and nothing new is registered.  Said of
\* texts that are the only spelling of their combination, so that what comes back is
\* the text that was registered.  Only the newest registration is remembered, and
\* after B it is B's: the host is asked for A a second time.
OnlySpelling(t) == \A u \in Texts : Parse(u) = Parse(t) => u = t
Returns(t) == OnlySpelling(t) /\ \E r \in registered : r.combo = Parse(t)
ReturnReuses ==
    [][hotkey_text' # hotkey_text /\ Returns(hotkey_text') => hotkey_ok' /\ UNCHANGED registered]_vars
=============================================================================
