--------------------------- MODULE HotkeySettings ---------------------------
(***************************************************************************)
(* The global shortcut and the word select switch, from the preferences    *)
(* page and the tray to the registration with the operating system         *)
(* (ui/shell/mainwindow.cpp, ui/shell/preferences_page.cpp,                *)
(* popup/session_controller.cpp, popup/mac/hotkey_manager.cpp) and to the  *)
(* settings file (settings/settings.cpp).                                  *)
(*                                                                         *)
(* All of it runs on the interface thread, one handler at a time; what     *)
(* interleaves is the user, other programs that take and release           *)
(* shortcuts, and the end of the process.  What a press of the shortcut    *)
(* does is in PopupSession.                                                *)
(***************************************************************************)
EXTENDS Naturals, Sequences

CONSTANTS
    Chord,      \* a key with its modifiers: what the system registers
    Naked,      \* the chords without a modifier that are no function keys
    Unknown,    \* the chords whose key the platform has no code for
    Shortcut,   \* the shortcuts a user may record: one chord after the other
    Default,    \* "Ctrl+`"
    CutShort    \* what the text of a shortcut reads as when it is cut short

\* An empty key sequence: no shortcut; and no chord.
None == <<>>

NoChord == ""

ASSUME ShortcutAssumption ==
    /\ Naked \subseteq Chord /\ Unknown \subseteq Chord /\ NoChord \notin Chord
    /\ Shortcut \subseteq Seq(Chord) \ {None}
    /\ Default \in Shortcut /\ Default[1] \notin Unknown
    /\ CutShort \in [Shortcut -> SUBSET Shortcut]

VARIABLES
    up,        \* the program runs
    taken,     \* the chords other programs have registered
    binding,   \* the chord registered for the word select action
    hotkey,    \* SessionController::m_hotkeyStr
    enabled,   \* SessionController::m_enabled
    box,       \* the switch of the preferences page
    field,     \* the shortcut in its edit field
    paused,    \* the check mark of the tray's Pause entry
    settings,  \* settings_: hotkey and wordselect_enabled
    file       \* what the settings file says of hotkey and wordselect_enabled

vars == <<up, taken, binding, hotkey, enabled, box, field, paused, settings, file>>

\* A settings file: the values it gives to either key, one or none.
Says(shortcuts, switches) == [hotkey |-> shortcuts, enabled |-> switches]

Init ==
    /\ up = FALSE /\ taken \in SUBSET Chord /\ binding = NoChord /\ hotkey = None
    /\ enabled = TRUE /\ box = FALSE /\ field = None /\ paused = FALSE
    /\ settings = [hotkey |-> Default, enabled |-> TRUE]
    /\ file = Says({}, {})

TypeOK ==
    /\ {up, enabled, box, paused} \subseteq BOOLEAN /\ taken \subseteq Chord
    /\ binding \in Chord \cup {NoChord}
    /\ {hotkey, field} \subseteq Shortcut \cup {None}
    /\ settings \in [hotkey : Shortcut \cup {None}, enabled : BOOLEAN]
    /\ file \in [hotkey : SUBSET (Shortcut \cup {None}), enabled : SUBSET BOOLEAN]

-----------------------------------------------------------------------------
(* The settings file.                                                      *)

\* The file is emptied, then written, the shortcut before the switch: it may be
\* left cut anywhere, within a value as well, and nobody looks at the stream
\* afterwards.  A switch that is cut does not read "true".
Written(s) ==
    {Says({}, {}), Says({None}, {}), Says({s.hotkey}, {})}
      \cup {Says({h}, {}) : h \in UNION {CutShort[k] : k \in {s.hotkey} \ {None}}}
      \cup {Says({s.hotkey}, {e}) : e \in {FALSE, s.enabled}}

\* saveSettings(): when the file does not open, it stays as it was.
Saved(old, s) == Written(s) \cup {old}

\* AppSettings::load(): what the file does not say has its default.
Loaded(f) ==
    [hotkey  |-> IF f.hotkey = {} THEN Default ELSE CHOOSE h \in f.hotkey : TRUE,
     enabled |-> f.enabled = {} \/ TRUE \in f.enabled]

-----------------------------------------------------------------------------
(* The registration.                                                       *)

KeyKnown(c) == c \notin Unknown

\* new_sequence[0]: of all its chords only the first one is registered.
First(s) == IF s = None THEN NoChord ELSE s[1]

\* registerHotkey(), after it has dropped the binding it had.
Registers(c, others) == KeyKnown(c) /\ c \notin others

\* isUsableShortcut(): one chord, with a modifier or of a function key.
Usable(s) == s # None /\ Len(s) = 1 /\ First(s) \notin Naked

Outcome(bound, name, ok, others) ==
    [binding |-> bound, hotkey |-> name, ok |-> ok, taken |-> others]

\* Mistake: the session forgets the previous shortcut before it needs it.
Mut_SetHotkey(want, bound, name, others, grabbed) ==
    IF Registers(First(want), others) THEN Outcome(First(want), want, TRUE, others)
    ELSE Outcome(NoChord, None, FALSE, others \cup grabbed)

\* Mistake: when there is no way back either, the session keeps its old name.
Mut_Stale(want, bound, name, others, grabbed) ==
    IF Registers(First(want), others) THEN Outcome(First(want), want, TRUE, others)
    ELSE IF Registers(First(name), others \cup grabbed)
    THEN Outcome(First(name), name, FALSE, others \cup grabbed)
    ELSE Outcome(NoChord, name, FALSE, others \cup grabbed)

\* SessionController::setHotkey() while bound is registered and name is the
\* session's own idea of it.  Only the first chord is registered, and the session
\* keeps the whole shortcut; another program may grab the chord that is dropped
\* before it, or the one before, is asked for again.
SetHotkey(want, bound, name, others, grabbed) ==
    IF want = None THEN Outcome(NoChord, None, TRUE, others)
    ELSE IF want = name /\ bound # NoChord THEN Outcome(bound, name, TRUE, others)
    ELSE IF Registers(First(want), others \cup grabbed)
    THEN Outcome(First(want), want, TRUE, others \cup grabbed)
    ELSE IF name \notin {None, want} /\ Registers(First(name), others \cup grabbed)
    THEN Outcome(First(name), name, FALSE, others \cup grabbed)
    ELSE Outcome(NoChord, None, FALSE, others \cup grabbed)

\* What another program may have taken in between.
Grabs(bound) == {{}, {bound} \ {NoChord}}

-----------------------------------------------------------------------------
(* MainWindow.                                                             *)

Takes(r) == binding' = r.binding /\ hotkey' = r.hotkey /\ taken' = r.taken

\* SessionController::initialize(): the default, whatever the settings say.
Initialized == SetHotkey(Default, NoChord, Default, taken, {})

\* The constructor with the shortcut the settings have, and what comes of it.
Startup(s, r) ==
    /\ ~up /\ up' = TRUE /\ paused' = FALSE
    /\ s = Loaded(file)
    /\ enabled' = s.enabled /\ box' = s.enabled
    /\ Takes(r)

Persisted(s, grabbed) ==
    SetHotkey(s.hotkey, Initialized.binding, Initialized.hotkey, taken, grabbed)

\* No shortcut is saved: the default remains.
StartupWithout ==
    LET s == Loaded(file) IN
    /\ s.hotkey = None
    /\ Startup(s, Initialized)
    /\ settings' = s /\ field' = None
    /\ file' \in Saved(file, s)

StartupRegisters ==
    LET s == Loaded(file) IN
    \E grabbed \in Grabs(Initialized.binding) :
        LET r == Persisted(s, grabbed)
        IN  /\ s.hotkey # None /\ r.ok
            /\ Startup(s, r)
            /\ settings' = s /\ field' = s.hotkey
            /\ file' \in Saved(file, s)

\* The saved shortcut does not register, the default does: it is saved.
StartupReverts ==
    LET s == Loaded(file) IN
    \E grabbed \in Grabs(Initialized.binding) :
        LET r   == Persisted(s, grabbed)
            new == [s EXCEPT !.hotkey = r.hotkey]
        IN  /\ s.hotkey # None /\ ~r.ok /\ r.hotkey # None
            /\ Startup(s, r)
            /\ settings' = new /\ field' = r.hotkey
            /\ file' \in Written(new)

\* The same, but the file does not open the second time: nothing catches the
\* exception.
StartupThrows ==
    LET s == Loaded(file) IN
    /\ ~up /\ s.hotkey # None
    /\ ~Persisted(s, {}).ok /\ Persisted(s, {}).hotkey # None
    /\ file' \in Saved(file, s)
    /\ UNCHANGED <<up, taken, binding, hotkey, enabled, box, field, paused, settings>>

\* Neither registers: the settings keep the shortcut, the page has none.
StartupFails ==
    LET s == Loaded(file) IN
    \E grabbed \in Grabs(Initialized.binding) :
        LET r == Persisted(s, grabbed)
        IN  /\ s.hotkey # None /\ ~r.ok /\ r.hotkey = None
            /\ Startup(s, r)
            /\ settings' = s /\ field' = None
            /\ file' \in Saved(file, s)

\* The shortcut the settings get: none that is not registered, and never none.
Effective(r) == IF r.hotkey = None THEN settings.hotkey ELSE r.hotkey

\* onWordSelectSettingsChanged(), with what the page shows; an empty field gets
\* the session's shortcut.
OnWordSelectSettingsChanged(switch) ==
    \E grabbed \in Grabs(binding) :
        LET r   == IF field = None THEN Outcome(binding, hotkey, FALSE, taken)
                   ELSE SetHotkey(field, binding, hotkey, taken, grabbed)
            new == [hotkey |-> Effective(r), enabled |-> switch]
        IN  /\ up /\ UNCHANGED <<up, paused>>
            /\ Takes(r)
            /\ field' = IF r.ok THEN field ELSE r.hotkey
            /\ box' = switch /\ enabled' = switch
            /\ settings' = new
            /\ file' \in Saved(file, new)

-----------------------------------------------------------------------------
(* The user, the other programs, and the process.                          *)

\* The edit field records a shortcut, and tells nobody before it is done.
RecordShortcut ==
    /\ up
    /\ field' \in Shortcut \cup {None}
    /\ UNCHANGED <<up, taken, binding, hotkey, enabled, box, paused, settings, file>>

\* Editing is finished: only a usable shortcut is a change of the settings.
OnHotkeyEdited == Usable(field) /\ OnWordSelectSettingsChanged(box)

ToggleEnabled == OnWordSelectSettingsChanged(~box)

\* The language, the time until the popup closes, the API, closing to the tray: the
\* field goes along, with a shortcut it has refused as well.
ChangeOther == OnWordSelectSettingsChanged(box)

\* toggleTranslation(): the session alone hears of it.
TogglePause ==
    /\ up
    /\ paused' = ~paused /\ enabled' = paused
    /\ UNCHANGED <<up, taken, binding, hotkey, box, field, settings, file>>

\* The Models page and the languages of the Translate page save the settings too.
SaveSettings ==
    /\ up
    /\ file' \in Saved(file, settings)
    /\ UNCHANGED <<up, taken, binding, hotkey, enabled, box, field, paused, settings>>

OtherProgram ==
    /\ \E c \in Chord \ {binding} :
          taken' = IF c \in taken THEN taken \ {c} ELSE taken \cup {c}
    /\ UNCHANGED <<up, binding, hotkey, enabled, box, field, paused, settings, file>>

\* The program quits, or its process ends; the system drops its shortcut.
Stop ==
    /\ up /\ up' = FALSE /\ binding' = NoChord
    /\ UNCHANGED <<taken, hotkey, enabled, box, field, paused, settings, file>>

Next ==
    \/ StartupWithout \/ StartupRegisters \/ StartupReverts \/ StartupThrows \/ StartupFails
    \/ OnHotkeyEdited \/ ToggleEnabled \/ ChangeOther \/ RecordShortcut
    \/ TogglePause \/ SaveSettings \/ OtherProgram \/ Stop

Spec == Init /\ [][Next]_vars

-----------------------------------------------------------------------------
(* Properties.                                                             *)

\* While the program runs, the first chord of the shortcut the session names is
\* registered and no other, and the settings have the same shortcut: only settings
\* without any, from a file that was cut, are compatible with the default, and
\* settings that have one keep it while none is registered
\* (SessionController::setHotkey(), the constructor of MainWindow and
\* onWordSelectSettingsChanged()).
ShortcutAgrees ==
    /\ TypeOK
    /\ up => /\ binding = First(hotkey)
             /\ hotkey # None => settings.hotkey \in {hotkey, None}
             /\ settings.hotkey = None => hotkey \in {Default, None}

\* A shortcut of which no chord is registered never gets into the settings, not
\* even as no shortcut at all.
OnlyWorkingIsSaved ==
    up /\ up' /\ settings'.hotkey # settings.hotkey
        => settings'.hotkey = hotkey' /\ First(settings'.hotkey) = binding' /\ binding' # NoChord

\* A change never takes away the chord that works, unless another program has
\* got it first; and the program comes up with one unless the default was taken.
LostOnlyToOthers ==
    up' /\ binding' = NoChord
        => IF up THEN binding \in taken' \cup {NoChord} ELSE First(Default) \in taken'

\* "A failed change must never leave the user without any working shortcut"
\* (session_controller.cpp), and must not be saved (mainwindow.cpp).
FailedChangeIsUndone == [][OnlyWorkingIsSaved /\ LostOnlyToOthers]_vars
=============================================================================
