---------------------------- MODULE HotkeyProofs ----------------------------
(***************************************************************************)
(* Theorems about Hotkey, for every set of shortcut texts and any number   *)
(* of registrations and presses.  The invariant takes parse as a function  *)
(* whose value does not matter; the last two theorems say what it means    *)
(* for the keys the texts name, by what ParseProofs shows of parse.        *)
(***************************************************************************)
EXTENDS Hotkey, ParseProofs, FiniteSetTheorems

\* The session's fields have their types.
PlanTypes ==
    /\ config \in Texts /\ up \in BOOLEAN
    /\ hotkey_text \in Texts \cup {NoText} /\ hotkey_ok \in BOOLEAN
    /\ hotkey_id \in {0} \cup Ids /\ host_hotkey_sc \in Texts \cup {NoText}
    /\ host_hotkey_active \in BOOLEAN
    /\ up => hotkey_text \in Texts

\* So have the host's and the user's.
HostTypes ==
    /\ registered \subseteq [id : Ids, combo : Combos]
    /\ lastId \in 0..MaxIds /\ elsewhere \subseteq Combos
    /\ messages \subseteq [id : Ids, press : Presses, combo : Combos]
    /\ pressed \in 0..MaxPresses
    /\ toggled \subseteq [press : Presses, id : Ids, combo : Combos, shown : Texts]

\* The registration remembered is the newest, and for the text remembered with it;
\* an active one is for the text shown.
Remembered ==
    /\ hotkey_id # 0 =>
           /\ hotkey_id = lastId
           /\ [id |-> hotkey_id, combo |-> Parse(host_hotkey_sc)] \in registered
    /\ hotkey_ok = host_hotkey_active
    /\ host_hotkey_active => hotkey_id # 0 /\ host_hotkey_sc = hotkey_text

\* An id was handed out once, for one combination, and messages carry both.
OneCombo ==
    /\ \A r \in registered : r.id <= lastId
    /\ \A m \in messages : m.id <= lastId /\ m.press <= pressed
    /\ \A q, r \in registered : q.id = r.id => q.combo = r.combo
    /\ \A m \in messages, r \in registered : m.id = r.id => m.combo = r.combo
    /\ \A l, m \in messages : l.id = m.id => l.combo = m.combo

\* What is left of a press that has toggled comes from registrations older than
\* the newest.
Spent ==
    /\ \A t \in toggled : t.press <= pressed
    /\ \A t \in toggled, m \in messages : t.press = m.press => m.id < lastId

Inv ==
    /\ PlanTypes /\ HostTypes
    /\ Remembered /\ OneCombo /\ Spent
    /\ OnlyTheShownToggles /\ OneTogglePerPress

LEMMA InitInv == Init => Inv
<1> SUFFICES ASSUME Init PROVE Inv
  OBVIOUS
<1> USE BoundsAssumption DEF Init
<1>1. PlanTypes BY DEF PlanTypes
<1>2. HostTypes BY DEF HostTypes
<1>3. Remembered BY DEF Remembered
<1>4. OneCombo /\ Spent BY DEF OneCombo, Spent
<1>5. OnlyTheShownToggles /\ OneTogglePerPress BY DEF OnlyTheShownToggles, OneTogglePerPress
<1>6. QED BY <1>1, <1>2, <1>3, <1>4, <1>5 DEF Inv

-----------------------------------------------------------------------------
\* plan_hotkey: the one branch that asks the host, and the three that do not.

LEMMA ComboOfText == ASSUME NEW t \in Texts, Valid(t) PROVE Parse(t) \in Combos
BY DEF Combos

LEMMA RegisterInv ==
    ASSUME Inv, NEW t \in Texts, Register(t), hotkey_text' = t, up' \in BOOLEAN,
           UNCHANGED <<config, elsewhere, user>>
    PROVE  Inv'
<1> DEFINE new == [id |-> lastId + 1, combo |-> Parse(t)]
<1> USE BoundsAssumption
<1>1. /\ lastId' = lastId + 1 /\ lastId \in Nat /\ lastId' \in Ids
      /\ registered' = registered \cup {new}
      /\ hotkey_id' = lastId' /\ host_hotkey_sc' = t
      /\ host_hotkey_active' = TRUE /\ hotkey_ok' = TRUE
  BY DEF Inv, HostTypes, Register, Ids
<1>2. new \in [id : Ids, combo : Combos] /\ new.id = lastId + 1 /\ new.combo = Parse(t)
  BY <1>1, ComboOfText DEF Register
<1> HIDE DEF new
<1>3. UNCHANGED <<config, elsewhere, messages, pressed, toggled>>
  BY DEF user
<1>4. PlanTypes' BY <1>1, <1>3 DEF Inv, PlanTypes
<1>5. HostTypes'
  <2>1. registered' \subseteq [id : Ids, combo : Combos]
    BY <1>1, <1>2 DEF Inv, HostTypes
  <2>2. lastId' \in 0..MaxIds BY <1>1 DEF Ids
  <2>3. QED BY <2>1, <2>2, <1>3 DEF Inv, HostTypes, Ids, Presses
<1>6. Remembered'
  <2>1. [id |-> hotkey_id', combo |-> Parse(host_hotkey_sc')] = new
    BY <1>1 DEF new
  <2>2. QED BY <2>1, <1>1 DEF Remembered
<1>7. OneCombo'
  <2>1. \A r \in registered : r.id \in Nat /\ r.id <= lastId
    BY DEF Inv, HostTypes, OneCombo, Ids
  <2>2. \A m \in messages : m.id \in Nat /\ m.id <= lastId
    BY DEF Inv, HostTypes, OneCombo, Ids
  <2>3. \A r \in registered' : r.id <= lastId' BY <2>1, <1>1, <1>2
  <2>4. \A m \in messages' : m.id <= lastId' /\ m.press <= pressed'
    BY <2>2, <1>1, <1>3 DEF Inv, OneCombo
  <2>5. \A q, r \in registered' : q.id = r.id => q.combo = r.combo
    <3>1. \A r \in registered : r.id # new.id BY <2>1, <1>1, <1>2
    <3>2. QED BY <3>1, <1>1 DEF Inv, OneCombo
  <2>6. \A m \in messages', r \in registered' : m.id = r.id => m.combo = r.combo
    <3>1. \A m \in messages : m.id # new.id BY <2>2, <1>1, <1>2
    <3>2. QED BY <3>1, <1>1, <1>3 DEF Inv, OneCombo
  <2>7. QED BY <2>3, <2>4, <2>5, <2>6, <1>3 DEF Inv, OneCombo
<1>8. Spent'
  <2>1. \A m \in messages : m.id \in Nat /\ m.id <= lastId
    BY DEF Inv, HostTypes, OneCombo, Ids
  <2>2. QED BY <2>1, <1>1, <1>3 DEF Inv, Spent
<1>9. OnlyTheShownToggles' /\ OneTogglePerPress'
  BY <1>3 DEF Inv, OnlyTheShownToggles, OneTogglePerPress
<1>10. QED BY <1>4, <1>5, <1>6, <1>7, <1>8, <1>9 DEF Inv

LEMMA PlanInv ==
    ASSUME Inv, NEW t \in Texts, PlanHotkey(t), up' \in BOOLEAN,
           UNCHANGED <<config, elsewhere, user>>
    PROVE  Inv'
<1>1. hotkey_text' = t BY DEF PlanHotkey
<1>2. CASE Register(t) BY <1>1, <1>2, RegisterInv
<1>3. CASE Revive(t) \/ Reject(t) \/ Refused(t)
  <2>1. UNCHANGED <<hotkey_id, host_hotkey_sc, registered, lastId>>
    BY <1>3 DEF Revive, Reject, Refused
  <2>2. UNCHANGED <<config, elsewhere, messages, pressed, toggled>>
    BY DEF user
  <2>3. hotkey_ok' \in BOOLEAN /\ host_hotkey_active' \in BOOLEAN /\ hotkey_ok' = host_hotkey_active'
    BY <1>3 DEF Revive, Reject, Refused
  <2>4. host_hotkey_active' => hotkey_id # 0 /\ host_hotkey_sc = t
    BY <1>3 DEF Revive, Reject, Refused, Revives
  <2>5. PlanTypes' BY <1>1, <2>1, <2>2, <2>3 DEF Inv, PlanTypes
  <2>6. HostTypes' BY <2>1, <2>2 DEF Inv, HostTypes
  <2>7. Remembered' BY <1>1, <2>1, <2>3, <2>4 DEF Inv, Remembered
  <2>8. OneCombo' /\ Spent' BY <2>1, <2>2 DEF Inv, OneCombo, Spent
  <2>9. OnlyTheShownToggles' /\ OneTogglePerPress'
    BY <2>2 DEF Inv, OnlyTheShownToggles, OneTogglePerPress
  <2>10. QED BY <2>5, <2>6, <2>7, <2>8, <2>9 DEF Inv
<1>4. QED BY <1>2, <1>3 DEF PlanHotkey

-----------------------------------------------------------------------------
LEMMA DeinitInv == Inv /\ PluginDeinit => Inv'
<1> SUFFICES ASSUME Inv, PluginDeinit PROVE Inv'
  OBVIOUS
<1> USE DEF PluginDeinit, user
<1>1. PlanTypes' BY DEF Inv, PlanTypes
<1>2. HostTypes' BY DEF Inv, HostTypes
<1>3. Remembered' BY DEF Remembered
<1>4. OneCombo' BY DEF Inv, OneCombo
<1>5. Spent' BY DEF Inv, Spent
<1>6. OnlyTheShownToggles' /\ OneTogglePerPress'
  BY DEF Inv, OnlyTheShownToggles, OneTogglePerPress
<1>7. QED BY <1>1, <1>2, <1>3, <1>4, <1>5, <1>6 DEF Inv

LEMMA PressInv == Inv /\ Press => Inv'
<1> SUFFICES ASSUME Inv, Press PROVE Inv'
  OBVIOUS
<1> USE BoundsAssumption
<1>1. PICK sent \in registered :
        messages' = messages \cup
            {[id |-> q.id, press |-> pressed + 1, combo |-> q.combo] :
                 q \in {x \in registered : x.combo = sent.combo}}
  BY DEF Press
<1>2. /\ pressed' = pressed + 1 /\ pressed \in Nat /\ pressed' \in Presses
      /\ UNCHANGED <<config, up, hotkey_text, hotkey_ok, hotkey_id, host_hotkey_sc,
                     host_hotkey_active, registered, lastId, elsewhere, toggled>>
  BY DEF Inv, HostTypes, Press, Presses, plan, host
<1>3. \A m \in messages' : m \in messages \/
          \E q \in registered : m = [id |-> q.id, press |-> pressed + 1, combo |-> q.combo]
  BY <1>1
<1>4. \A m \in messages' : m \in messages \/
          (m.press = pressed + 1 /\ \E q \in registered : m.id = q.id /\ m.combo = q.combo)
  BY <1>3
<1>5. PlanTypes' BY <1>2 DEF Inv, PlanTypes
<1>6. HostTypes'
  <2>1. \A q \in registered : q.id \in Ids /\ q.combo \in Combos
    BY DEF Inv, HostTypes
  <2>2. messages' \subseteq [id : Ids, press : Presses, combo : Combos]
    BY <1>2, <1>3, <2>1 DEF Inv, HostTypes
  <2>3. pressed' \in 0..MaxPresses BY <1>2 DEF Presses
  <2>4. QED BY <2>2, <2>3, <1>2 DEF Inv, HostTypes
<1>7. Remembered' BY <1>2 DEF Inv, Remembered
<1>8. OneCombo'
  <2>1. \A m \in messages : m.press \in Nat BY DEF Inv, HostTypes, Presses
  <2>2. \A m \in messages' : m.id <= lastId' /\ m.press <= pressed'
    BY <1>2, <1>4, <2>1 DEF Inv, OneCombo
  <2>3. \A m \in messages', r \in registered' : m.id = r.id => m.combo = r.combo
    BY <1>2, <1>4 DEF Inv, OneCombo
  <2>4. \A l, m \in messages' : l.id = m.id => l.combo = m.combo
    BY <1>2, <1>4 DEF Inv, OneCombo
  <2>5. QED BY <2>2, <2>3, <2>4, <1>2 DEF Inv, OneCombo
<1>9. Spent'
  <2>1. \A t \in toggled : t.press \in Nat /\ t.press <= pressed
    BY DEF Inv, HostTypes, Presses, Spent
  <2>2. QED BY <1>2, <1>4, <2>1 DEF Inv, Spent
<1>10. OnlyTheShownToggles' /\ OneTogglePerPress'
  BY <1>2 DEF Inv, OnlyTheShownToggles, OneTogglePerPress
<1>11. QED BY <1>5, <1>6, <1>7, <1>8, <1>9, <1>10 DEF Inv

\* A message that toggles is one of the newest registration, which is for the
\* shortcut shown; nothing of its press is left that could toggle again.
LEMMA HandleInv == Inv /\ HandleHotkey => Inv'
<1> SUFFICES ASSUME Inv, HandleHotkey PROVE Inv'
  OBVIOUS
<1>1. PICK m \in messages :
        /\ messages' = messages \ {m}
        /\ toggled' = IF Honoured(m)
                      THEN toggled \cup {[press |-> m.press, id |-> m.id, combo |-> m.combo,
                                          shown |-> hotkey_text]}
                      ELSE toggled
  BY DEF HandleHotkey
<1>2. UNCHANGED <<config, up, hotkey_text, hotkey_ok, hotkey_id, host_hotkey_sc,
                  host_hotkey_active, registered, lastId, elsewhere, pressed>>
  BY DEF HandleHotkey, plan, host
<1> DEFINE new == [press |-> m.press, id |-> m.id, combo |-> m.combo, shown |-> hotkey_text]
<1>3. m.id \in Ids /\ m.press \in Presses /\ m.combo \in Combos
      /\ m = [id |-> m.id, press |-> m.press, combo |-> m.combo]
  BY DEF Inv, HostTypes
<1>4. PlanTypes' BY <1>2 DEF Inv, PlanTypes
<1>5. HostTypes'
  <2>1. new \in [press : Presses, id : Ids, combo : Combos, shown : Texts]
    BY <1>3 DEF Inv, PlanTypes, HandleHotkey
  <2>2. QED BY <1>1, <1>2, <2>1 DEF Inv, HostTypes
<1>6. Remembered' BY <1>2 DEF Inv, Remembered
<1>7. OneCombo' BY <1>1, <1>2 DEF Inv, OneCombo
<1>8. CASE ~Honoured(m)
  <2>1. Spent' BY <1>1, <1>2, <1>8 DEF Inv, Spent
  <2>2. OnlyTheShownToggles' /\ OneTogglePerPress'
    BY <1>1, <1>8 DEF Inv, OnlyTheShownToggles, OneTogglePerPress
  <2>3. QED BY <1>4, <1>5, <1>6, <1>7, <2>1, <2>2 DEF Inv
<1>9. CASE Honoured(m)
  <2>1. m.id = lastId /\ m.combo = Parse(hotkey_text)
    <3>1. host_hotkey_active /\ m.id = hotkey_id /\ hotkey_id # 0
      BY <1>9 DEF Honoured
    <3>2. hotkey_id = lastId /\ [id |-> hotkey_id, combo |-> Parse(hotkey_text)] \in registered
      BY <3>1 DEF Inv, Remembered
    <3>3. QED BY <3>1, <3>2 DEF Inv, OneCombo
  <2>2. new.press = m.press /\ new.combo = m.combo /\ new.shown = hotkey_text
    OBVIOUS
  <2>3. toggled' = toggled \cup {new}
    BY <1>1, <1>9
  <2> HIDE DEF new
  <2>4. \A l \in messages' : l.press = m.press => l.id < lastId
    <3> SUFFICES ASSUME NEW l \in messages, l # m, l.press = m.press PROVE l.id < lastId
      BY <1>1
    <3>1. l = [id |-> l.id, press |-> l.press, combo |-> l.combo] /\ l.id \in Ids
      BY DEF Inv, HostTypes
    <3>2. l.id = m.id => l.combo = m.combo BY DEF Inv, OneCombo
    <3>3. l.id # m.id BY <3>1, <3>2, <1>3
    <3>4. l.id <= lastId /\ lastId \in Nat BY DEF Inv, OneCombo, HostTypes
    <3>5. QED BY <3>1, <3>3, <3>4, <2>1 DEF Ids
  <2>5. Spent'
    <3>1. m.press <= pressed BY DEF Inv, OneCombo
    <3>2. QED BY <1>1, <1>2, <2>2, <2>3, <2>4, <3>1 DEF Inv, Spent
  <2>6. OnlyTheShownToggles'
    BY <1>2, <2>1, <2>2, <2>3 DEF Inv, OnlyTheShownToggles
  <2>7. OneTogglePerPress'
    <3>1. \A t \in toggled : t.press # m.press
      <4>1. lastId \in Nat BY DEF Inv, HostTypes
      <4>2. QED BY <4>1, <2>1 DEF Inv, Spent
    <3>2. QED BY <3>1, <2>2, <2>3 DEF Inv, OneTogglePerPress
  <2>8. QED BY <1>4, <1>5, <1>6, <1>7, <2>5, <2>6, <2>7 DEF Inv
<1>10. QED BY <1>8, <1>9

LEMMA EnvironmentInv == Inv /\ (EditConfig \/ OthersChange \/ DropMessage) => Inv'
<1> SUFFICES ASSUME Inv, EditConfig \/ OthersChange \/ DropMessage PROVE Inv'
  OBVIOUS
<1>1. /\ UNCHANGED <<up, hotkey_text, hotkey_ok, hotkey_id, host_hotkey_sc, host_hotkey_active,
                     registered, lastId, pressed, toggled>>
      /\ messages' \subseteq messages
  BY DEF EditConfig, OthersChange, DropMessage, plan, host, user
<1>2. config' \in Texts
  BY DEF EditConfig, OthersChange, DropMessage, Inv, PlanTypes
<1>3. elsewhere' \subseteq Combos
  BY DEF EditConfig, OthersChange, DropMessage, host, Inv, HostTypes
<1>4. PlanTypes' BY <1>1, <1>2 DEF Inv, PlanTypes
<1>5. HostTypes' BY <1>1, <1>3 DEF Inv, HostTypes
<1>6. Remembered' BY <1>1 DEF Inv, Remembered
<1>7. OneCombo' BY <1>1 DEF Inv, OneCombo
<1>8. Spent' BY <1>1 DEF Inv, Spent
<1>9. OnlyTheShownToggles' /\ OneTogglePerPress'
  BY <1>1 DEF Inv, OnlyTheShownToggles, OneTogglePerPress
<1>10. QED BY <1>4, <1>5, <1>6, <1>7, <1>8, <1>9 DEF Inv

LEMMA StepInv == Inv /\ [Next]_vars => Inv'
<1> SUFFICES ASSUME Inv, [Next]_vars PROVE Inv'
  OBVIOUS
<1>1. CASE PluginInit
  <2>1. config \in Texts BY DEF Inv, PlanTypes
  <2>2. QED BY <1>1, <2>1, PlanInv DEF PluginInit
<1>2. CASE ApplyConfig
  <2>1. config \in Texts /\ up \in BOOLEAN BY DEF Inv, PlanTypes
  <2>2. QED BY <1>2, <2>1, PlanInv DEF ApplyConfig
<1>3. CASE PluginDeinit BY <1>3, DeinitInv
<1>4. CASE Press BY <1>4, PressInv
<1>5. CASE HandleHotkey BY <1>5, HandleInv
<1>6. CASE EditConfig \/ OthersChange \/ DropMessage BY <1>6, EnvironmentInv
<1>7. CASE UNCHANGED vars
  BY <1>7 DEF vars, plan, host, user, Inv, PlanTypes, HostTypes, Remembered, OneCombo, Spent,
              OnlyTheShownToggles, OneTogglePerPress
<1>8. QED BY <1>1, <1>2, <1>3, <1>4, <1>5, <1>6, <1>7 DEF Next

LEMMA InvHolds == Spec => []Inv
BY InitInv, StepInv, PTL DEF Spec

\* Every variable keeps its type, and whatever toggled did so with a text shown.
THEOREM TypeCorrect == Spec => []TypeOK
<1>1. Inv => TypeOK BY DEF Inv, PlanTypes, HostTypes, TypeOK
<1>2. QED BY <1>1, InvHolds, PTL

\* A shortcut shown as working is registered and honoured, through any sequence of
\* changes, refusals and reloads (plan_hotkey, deinit).
THEOREM ShownHotkeyWorksHolds == Spec => []ShownHotkeyWorks
<1>1. Inv => ShownHotkeyWorks BY DEF Inv, Remembered, ShownHotkeyWorks
<1>2. QED BY <1>1, InvHolds, PTL

\* Whatever toggles is a press of the shortcut shown at that moment, although old
\* registrations stay and messages arrive late (handle_message's filter by id).
THEOREM OnlyTheShownTogglesHolds == Spec => []OnlyTheShownToggles
<1>1. Inv => OnlyTheShownToggles BY DEF Inv
<1>2. QED BY <1>1, InvHolds, PTL

\* One press toggles once, however many registrations of its combination the host
\* has handed out.
THEOREM OneTogglePerPressHolds == Spec => []OneTogglePerPress
<1>1. Inv => OneTogglePerPress BY DEF Inv
<1>2. QED BY <1>1, InvHolds, PTL

-----------------------------------------------------------------------------
\* The combination is the one known key the text names, with the modifiers it names.
Names(text, combo) ==
    \E i \in MainKeys(text) :
        /\ MainKeys(text) = {i} /\ text[i] \in DOMAIN KeyToVk
        /\ combo = [mods |-> Held(text), vk |-> KeyToVk[text[i]]]

LEMMA ValidNames ==
    ASSUME NEW text \in Texts \cup {NoText}, Parse(text) # NoCombo
    PROVE  Names(text, Parse(text))
<1>1. text \in Seq(STRING)
  <2>1. << >> \in Seq(STRING) OBVIOUS
  <2>2. QED BY <2>1, TextsAssumption, Zenon DEF NoText
<1>2. MeansItsKeys(text) BY <1>1, TextsMeanTheirKeys
<1>3. PICK i \in MainKeys(text) :
        /\ MainKeys(text) = {i} /\ text[i] \in DOMAIN KeyToVk
        /\ Parse(text) = [mods |-> Held(text),
                          vk |-> KeyToVk[text[CHOOSE j \in MainKeys(text) : TRUE]]]
  BY <1>2 DEF MeansItsKeys
<1>4. (CHOOSE j \in MainKeys(text) : TRUE) = i BY <1>3
<1>5. QED BY <1>3, <1>4 DEF Names

LEMMA CombosAreValid == \A c \in Combos : c # NoCombo
BY DEF Combos, Valid

\* While a shortcut is shown as working, the host holds, under the id whose messages
\* are honoured, exactly the key and the modifiers the shown text names, in whatever
\* order and under whatever names it writes them (plan_hotkey with hotkey::parse).
ShownKeysRegistered ==
    hotkey_ok => \E r \in registered : r.id = hotkey_id /\ Names(hotkey_text, r.combo)

THEOREM ShownKeysRegisteredHolds == Spec => []ShownKeysRegistered
<1>1. Inv => ShownKeysRegistered
  <2> SUFFICES ASSUME Inv, hotkey_ok PROVE ShownKeysRegistered
    BY DEF ShownKeysRegistered
  <2> DEFINE r == [id |-> hotkey_id, combo |-> Parse(hotkey_text)]
  <2>1. r \in registered BY DEF Inv, Remembered
  <2>2. r.id = hotkey_id /\ r.combo = Parse(hotkey_text) OBVIOUS
  <2>3. r.combo \in Combos BY <2>1 DEF Inv, HostTypes
  <2> HIDE DEF r
  <2>4. Parse(hotkey_text) # NoCombo BY <2>2, <2>3, CombosAreValid
  <2>5. Names(hotkey_text, r.combo) BY <2>2, <2>4, ValidNames DEF Inv, PlanTypes
  <2>6. QED BY <2>1, <2>2, <2>5 DEF ShownKeysRegistered
<1>2. QED BY <1>1, InvHolds, PTL

\* Whatever toggled the capture was a press of the key and the modifiers that the
\* text shown at that moment names (handle_message with hotkey::parse).
NamedKeysToggle == \A t \in toggled : Names(t.shown, t.combo)

THEOREM NamedKeysToggleHolds == Spec => []NamedKeysToggle
<1>1. Inv => NamedKeysToggle
  <2> SUFFICES ASSUME Inv, NEW t \in toggled PROVE Names(t.shown, t.combo)
    BY DEF NamedKeysToggle
  <2>1. t.combo \in Combos /\ t.shown \in Texts \cup {NoText} BY DEF Inv, HostTypes
  <2>2. t.combo = Parse(t.shown) BY DEF Inv, OnlyTheShownToggles
  <2>3. Parse(t.shown) # NoCombo BY <2>1, <2>2, CombosAreValid
  <2>4. QED BY <2>1, <2>2, <2>3, ValidNames
<1>2. QED BY <1>1, InvHolds, PTL
-----------------------------------------------------------------------------
\* Hotkey implements ShownShortcut.  The mapping makes one press of a press's messages,
\* and therefore needs that they are all of one combination; and it counts what toggled.
SamePress == \A l, m \in messages : l.press = m.press => l.combo = m.combo

ShownInv == Inv /\ SamePress /\ IsFiniteSet(toggled)

LEMMA ShownInvInit == Init => ShownInv
BY InitInv, FS_EmptySet DEF Init, SamePress, ShownInv

LEMMA ShownInvNext == ShownInv /\ [Next]_vars => ShownInv'
<1> SUFFICES ASSUME ShownInv, [Next]_vars PROVE SamePress' /\ IsFiniteSet(toggled)'
  BY StepInv DEF ShownInv
<1>0. IsFiniteSet(toggled')
  <2>1. toggled' = toggled \/ \E t : toggled' = toggled \cup {t}
    BY DEF Next, PluginInit, ApplyConfig, PluginDeinit, EditConfig, OthersChange, Press,
           HandleHotkey, DropMessage, user, vars
  <2>2. QED BY <2>1, FS_AddElement DEF ShownInv
<1>1. ASSUME Press PROVE SamePress'
  <2>1. PICK sent \in registered :
          messages' = messages \cup
              {[id |-> q.id, press |-> pressed + 1, combo |-> q.combo] :
                   q \in {x \in registered : x.combo = sent.combo}}
    BY <1>1 DEF Press
  <2>2. \A m \in messages' : m \in messages \/ (m.press = pressed + 1 /\ m.combo = sent.combo)
    BY <2>1
  <2>3. \A m \in messages : m.press \in Nat /\ m.press <= pressed
    BY DEF ShownInv, Inv, OneCombo, HostTypes, Presses
  <2>4. pressed \in Nat BY DEF ShownInv, Inv, HostTypes
  <2>5. QED BY <2>2, <2>3, <2>4 DEF ShownInv, SamePress
<1>2. ASSUME messages' \subseteq messages PROVE SamePress' BY <1>2 DEF ShownInv, SamePress
<1>3. messages' \subseteq messages \/ Press
  BY DEF Next, PluginInit, ApplyConfig, PluginDeinit, EditConfig, OthersChange, HandleHotkey,
         DropMessage, user, vars
<1>4. QED BY <1>0, <1>1, <1>2, <1>3

\* The press a message tells of.
Told(m) == [press |-> m.press, combo |-> m.combo]

LEMMA WaitingIs ==
    /\ \A w : w \in Waiting <=> \E m \in messages : Live(m) /\ w = Told(m)
    /\ \A w : w \in Waiting' <=> \E m \in messages' : Live(m)' /\ w = Told(m)
BY DEF Waiting, Told

\* Planning changes what is shown and, when the host accepts, what is offered.
LEMMA PlanShown ==
    ASSUME Inv, NEW t \in Texts, PlanHotkey(t), UNCHANGED user
    PROVE  User!Next
<1>1. UNCHANGED <<messages, pressed, toggled>> BY DEF user
<1>2. hotkey_text' = t BY DEF PlanHotkey
<1>3. CASE Register(t)
  <2> DEFINE new == [id |-> lastId + 1, combo |-> Parse(t)]
  <2>1. /\ registered' = registered \cup {new} /\ hotkey_ok' = TRUE /\ Valid(t)
    BY <1>3 DEF Register
  <2>2. new.id = lastId + 1 /\ new.combo = Parse(t) OBVIOUS
  <2> HIDE DEF new
  <2>3. Shown' = Parse(t) BY <1>2, <2>1 DEF Shown
  <2>4. Offered' = Offered \cup {Parse(t)} BY <2>1, <2>2 DEF Offered
  <2>5. \A m \in messages : Live(m)' <=> Live(m)
    <3>1. \A m \in messages : m.id # new.id
      BY <2>2 DEF Inv, HostTypes, OneCombo, Ids
    <3>2. QED BY <1>1, <2>1, <3>1 DEF Live
  <2>6. Waiting' = Waiting BY <1>1, <2>5, WaitingIs
  <2>7. Parse(t) \in Combos BY <2>1, ComboOfText
  <2>8. User!Show(Parse(t)) BY <1>1, <2>3, <2>4, <2>6 DEF User!Show
  <2>9. QED BY <2>7, <2>8 DEF User!Next
<1>4. CASE ~Register(t)
  <2>1. UNCHANGED registered BY <1>4 DEF PlanHotkey, Revive, Reject, Refused
  <2>2. Offered' = Offered /\ Waiting' = Waiting BY <1>1, <2>1 DEF Offered, Waiting, Live
  <2>3. CASE Revive(t)
    <3>1. Shown' = Parse(t) BY <1>2, <2>3 DEF Shown, Revive
    <3>2. [id |-> hotkey_id, combo |-> Parse(t)] \in registered
      BY <2>3 DEF Revive, Revives, Inv, Remembered
    <3>3. Parse(t) \in Combos BY <3>2 DEF Inv, HostTypes
    <3>4. Parse(t) \in Offered
      <4>1. [id |-> hotkey_id, combo |-> Parse(t)].combo = Parse(t) OBVIOUS
      <4>2. QED BY <3>2, <4>1 DEF Offered
    <3>5. User!Show(Parse(t)) BY <1>1, <2>2, <3>1, <3>4 DEF User!Show
    <3>6. QED BY <3>3, <3>5 DEF User!Next
  <2>4. CASE Reject(t) \/ Refused(t)
    <3>1. Shown' = NoCombo BY <2>4 DEF Shown, Reject, Refused
    <3>2. User!Hide BY <1>1, <2>2, <3>1 DEF User!Hide
    <3>3. QED BY <3>2 DEF User!Next
  <2>5. QED BY <1>4, <2>3, <2>4 DEF PlanHotkey
<1>5. QED BY <1>3, <1>4

LEMMA DeinitShown == PluginDeinit => User!Next
<1> SUFFICES ASSUME PluginDeinit PROVE User!Next
  OBVIOUS
<1>1. UNCHANGED <<messages, pressed, toggled>> /\ registered' = {} /\ hotkey_ok' = FALSE
  BY DEF PluginDeinit, user
<1>2. Offered' = {} /\ Shown' = NoCombo BY <1>1 DEF Offered, Shown
<1>3. Waiting' = {} BY <1>1 DEF Waiting, Live
<1>4. User!Unload BY <1>1, <1>2, <1>3 DEF User!Unload
<1>5. QED BY <1>4 DEF User!Next

\* However many messages it sends, a press is one.
LEMMA PressShown == Inv /\ Press => User!Next
<1> SUFFICES ASSUME Inv, Press PROVE User!Next
  OBVIOUS
<1>1. PICK sent \in registered :
        messages' = messages \cup
            {[id |-> q.id, press |-> pressed + 1, combo |-> q.combo] :
                 q \in {x \in registered : x.combo = sent.combo}}
  BY DEF Press
<1>2. /\ pressed' = pressed + 1 /\ pressed \in Nat
      /\ UNCHANGED <<hotkey_text, hotkey_ok, registered, toggled>>
  BY DEF Inv, HostTypes, Press, plan, host
<1>3. Shown' = Shown /\ Offered' = Offered BY <1>2 DEF Shown, Offered
<1> DEFINE p == [press |-> pressed', combo |-> sent.combo]
<1>4. \A t \in toggled : t.press # pressed'
  BY <1>2 DEF Inv, HostTypes, Spent, Presses
<1>5. \A m : Live(m)' <=> Live(m) BY <1>2 DEF Live
<1>6. ASSUME NEW m \in messages' PROVE m \in messages \/ (Live(m)' /\ Told(m) = p)
  <2>1. SUFFICES ASSUME m \notin messages PROVE Live(m)' /\ Told(m) = p OBVIOUS
  <2>2. PICK q \in registered :
          q.combo = sent.combo /\ m = [id |-> q.id, press |-> pressed + 1, combo |-> q.combo]
    BY <1>1, <2>1
  <2>3. m.id = q.id /\ m.press = pressed' /\ m.combo = sent.combo BY <1>2, <2>2
  <2>4. QED BY <1>2, <1>4, <2>3 DEF Live, Told
<1>7. \E m \in messages' : Live(m)' /\ Told(m) = p
  <2>1. [id |-> sent.id, press |-> pressed + 1, combo |-> sent.combo] \in messages'
    BY <1>1
  <2>2. PICK m \in messages' :
          m = [id |-> sent.id, press |-> pressed + 1, combo |-> sent.combo]
    BY <2>1
  <2>3. m.id = sent.id /\ m.press = pressed' /\ m.combo = sent.combo BY <1>2, <2>2
  <2>4. Live(m)' /\ Told(m) = p BY <1>2, <1>4, <2>3 DEF Live, Told
  <2>5. QED BY <2>4
<1> HIDE DEF p
<1>8. messages \subseteq messages' BY <1>1
<1>9. Waiting' = Waiting \cup {p} BY <1>5, <1>6, <1>7, <1>8, WaitingIs
<1>10. User!Press(sent.combo)
  <2>1. sent.combo \in Offered BY DEF Offered
  <2>2. QED BY <1>2, <1>3, <1>9, <2>1 DEF User!Press, p
<1>11. sent.combo \in Combos BY DEF Inv, HostTypes
<1>12. QED BY <1>10, <1>11 DEF User!Next

\* A message that comes to nothing: its press waits on if another message of it does.
LEMMA LostShown ==
    ASSUME NEW m \in messages, messages' = messages \ {m},
           UNCHANGED <<hotkey_text, hotkey_ok, registered, pressed, toggled>>
    PROVE  [User!Next]_(User!shortcut_vars)
<1>1. Shown' = Shown /\ Offered' = Offered BY DEF Shown, Offered
<1>2. \A l : Live(l)' <=> Live(l) BY DEF Live
<1>3. Waiting' \subseteq Waiting BY <1>2, WaitingIs
<1>4. \A w \in Waiting : w # Told(m) => w \in Waiting' BY <1>2, WaitingIs
<1>5. CASE Waiting' = Waiting BY <1>1, <1>5 DEF User!shortcut_vars
<1>6. CASE Waiting' # Waiting
  <2>1. Told(m) \in Waiting /\ Waiting' = Waiting \ {Told(m)} BY <1>3, <1>4, <1>6
  <2>2. User!Lose(Told(m)) BY <1>1, <2>1 DEF User!Lose
  <2>3. QED BY <2>1, <2>2 DEF User!Next
<1>7. QED BY <1>5, <1>6

LEMMA HandleShown == ShownInv /\ HandleHotkey => [User!Next]_(User!shortcut_vars)
<1> SUFFICES ASSUME ShownInv, HandleHotkey PROVE [User!Next]_(User!shortcut_vars)
  OBVIOUS
<1>1. PICK m \in messages :
        /\ messages' = messages \ {m}
        /\ toggled' = IF Honoured(m)
                      THEN toggled \cup {[press |-> m.press, id |-> m.id, combo |-> m.combo,
                                          shown |-> hotkey_text]}
                      ELSE toggled
  BY DEF HandleHotkey
<1>2. UNCHANGED <<hotkey_text, hotkey_ok, registered, pressed>>
  BY DEF HandleHotkey, plan, host
<1>3. CASE ~Honoured(m) BY <1>1, <1>2, <1>3, LostShown
<1>4. CASE Honoured(m)
  <2> DEFINE new == [press |-> m.press, id |-> m.id, combo |-> m.combo, shown |-> hotkey_text]
  <2>1. toggled' = toggled \cup {new} BY <1>1, <1>4
  <2>2. new.press = m.press /\ new.combo = m.combo OBVIOUS
  <2> HIDE DEF new
  <2>3. hotkey_ok /\ [id |-> m.id, combo |-> Parse(hotkey_text)] \in registered /\ m.id = lastId
    BY <1>4 DEF Honoured, ShownInv, Inv, Remembered
  <2>4. Shown = m.combo
    <3>1. [id |-> m.id, combo |-> Parse(hotkey_text)].id = m.id
          /\ [id |-> m.id, combo |-> Parse(hotkey_text)].combo = Parse(hotkey_text)
      OBVIOUS
    <3>2. m.combo = Parse(hotkey_text) BY <2>3, <3>1 DEF ShownInv, Inv, OneCombo
    <3>3. QED BY <2>3, <3>2 DEF Shown
  <2>5. Live(m)
    <3>1. \E r \in registered : r.id = m.id BY <2>3
    <3>2. lastId \in Nat BY DEF ShownInv, Inv, HostTypes
    <3>3. \A t \in toggled : t.press # m.press BY <2>3, <3>2 DEF ShownInv, Inv, Spent
    <3>4. QED BY <3>1, <3>3 DEF Live
  <2>6. Told(m) \in Waiting BY <2>5, WaitingIs
  <2>7. Shown' = Shown /\ Offered' = Offered BY <1>2 DEF Shown, Offered
  <2>8. Cardinality(toggled') = Cardinality(toggled) + 1
    <3>1. \A t \in toggled : t.press # m.press BY <2>5 DEF Live
    <3>2. new \notin toggled BY <2>2, <3>1
    <3>3. QED BY <2>1, <3>2, FS_AddElement DEF ShownInv
  <2>9. \A l : Live(l)' <=> Live(l) /\ l.press # m.press BY <1>2, <2>1, <2>2 DEF Live
  <2>10. \A l \in messages : Told(l) = Told(m) <=> l.press = m.press
    <3>1. \A l : Told(l).press = l.press /\ Told(l).combo = l.combo BY DEF Told
    <3>2. \A l \in messages : l.press = m.press => Told(l) = Told(m)
      BY DEF Told, ShownInv, SamePress
    <3>3. QED BY <3>1, <3>2
  <2>11. Waiting' = Waiting \ {Told(m)} BY <1>1, <2>9, <2>10, WaitingIs
  <2>12. Told(m).combo = Shown BY <2>4 DEF Told
  <2>13. User!Toggle(Told(m)) BY <1>2, <2>7, <2>8, <2>11, <2>12 DEF User!Toggle
  <2>14. QED BY <2>6, <2>13 DEF User!Next
<1>5. QED BY <1>3, <1>4

LEMMA ShownStep == ShownInv /\ [Next]_vars => [User!Next]_(User!shortcut_vars)
<1> SUFFICES ASSUME ShownInv, [Next]_vars PROVE [User!Next]_(User!shortcut_vars)
  OBVIOUS
<1>1. config \in Texts BY DEF ShownInv, Inv, PlanTypes
<1>2. CASE PluginInit BY <1>1, <1>2, PlanShown DEF PluginInit, ShownInv
<1>3. CASE ApplyConfig BY <1>1, <1>3, PlanShown DEF ApplyConfig, ShownInv
<1>4. CASE PluginDeinit BY <1>4, DeinitShown
<1>5. CASE Press BY <1>5, PressShown DEF ShownInv
<1>6. CASE HandleHotkey BY <1>6, HandleShown
<1>7. CASE DropMessage
  <2>1. PICK m \in messages : messages' = messages \ {m} BY <1>7 DEF DropMessage
  <2>2. UNCHANGED <<hotkey_text, hotkey_ok, registered, pressed, toggled>>
    BY <1>7 DEF DropMessage, plan, host
  <2>3. QED BY <2>1, <2>2, LostShown
<1>8. CASE EditConfig \/ OthersChange \/ UNCHANGED vars
  <2>1. UNCHANGED <<hotkey_text, hotkey_ok, registered, messages, pressed, toggled>>
    BY <1>8 DEF EditConfig, OthersChange, plan, host, user, vars
  <2>2. QED BY <2>1 DEF User!shortcut_vars, Shown, Offered, Waiting, Live
<1>9. QED BY <1>2, <1>3, <1>4, <1>5, <1>6, <1>7, <1>8 DEF Next

LEMMA ShownInit == Init => User!Init
BY FS_EmptySet DEF Init, User!Init, Shown, Offered, Waiting

\* The shortcut as the user knows it: through respellings, refusals, registrations
\* that stay behind, late messages and reloads, a press counts once, while its
\* combination is shown, and nothing is taken from other programs that was not shown
\* (plan_hotkey, handle_message, deinit).
THEOREM ShownShortcutKeptHolds == Spec => ShownShortcutKept
<1>1. Spec => []ShownInv BY ShownInvInit, ShownInvNext, PTL DEF Spec
<1>2. QED BY <1>1, ShownInit, ShownStep, PTL DEF Spec, ShownShortcutKept, User!Spec
=============================================================================
