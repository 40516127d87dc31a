------------------------ MODULE HotkeySettingsProofs ------------------------
(* The shortcut and its settings, for any chords and shortcuts, whatever the *)
(* system and other programs do with them.                                   *)
EXTENDS HotkeySettings, SequenceTheorems, TLAPS

File == [hotkey : SUBSET (Shortcut \cup {None}), enabled : SUBSET BOOLEAN]

AnySettings == [hotkey : Shortcut \cup {None}, enabled : BOOLEAN]

\* What is registered is free and has a code; ShortcutAgrees needs it when a
\* shortcut that fails is taken back.
BindingInv ==
    /\ ~up => binding = NoChord
    /\ binding # NoChord => KeyKnown(binding) /\ binding \notin taken

IInv == ShortcutAgrees /\ BindingInv

-----------------------------------------------------------------------------
\* A shortcut begins with a chord, and no shortcut with none.
LEMMA FirstType ==
    ASSUME NEW s \in Shortcut \cup {None}
    PROVE  /\ First(s) \in Chord \cup {NoChord}
           /\ First(s) = NoChord <=> s = None
<1>1. CASE s = None
  BY <1>1 DEF First
<1>2. CASE s # None
  <2>1. s \in Seq(Chord) /\ s # <<>>
    BY <1>2, ShortcutAssumption DEF None
  <2>2. s[1] \in Chord
    BY <2>1
  <2> QED BY <1>2, <2>2, ShortcutAssumption DEF First
<1> QED BY <1>1, <1>2

\* Whatever a write leaves behind is a file (AppSettings::save()).
LEMMA WrittenIsFile ==
    ASSUME NEW s \in AnySettings
    PROVE  Written(s) \subseteq File
<1> DEFINE Part == UNION {CutShort[k] : k \in {s.hotkey} \ {None}}
<1>1. /\ s.hotkey \in Shortcut \cup {None} /\ s.enabled \in BOOLEAN
      /\ Part \subseteq Shortcut
  BY ShortcutAssumption DEF AnySettings
<1>2. \A h \in SUBSET (Shortcut \cup {None}), e \in SUBSET BOOLEAN : Says(h, e) \in File
  BY DEF Says, File
<1>3. /\ {} \in SUBSET (Shortcut \cup {None}) /\ {None} \in SUBSET (Shortcut \cup {None})
      /\ {s.hotkey} \in SUBSET (Shortcut \cup {None})
      /\ \A h \in Part : {h} \in SUBSET (Shortcut \cup {None})
      /\ {} \in SUBSET BOOLEAN /\ \A e \in {FALSE, s.enabled} : {e} \in SUBSET BOOLEAN
  BY <1>1
<1> HIDE DEF Part
<1>4. Says({}, {}) \in File /\ Says({None}, {}) \in File /\ Says({s.hotkey}, {}) \in File
  BY <1>2, <1>3
<1>5. \A h \in Part : Says({h}, {}) \in File
  BY <1>2, <1>3
<1>6. \A e \in {FALSE, s.enabled} : Says({s.hotkey}, {e}) \in File
  BY <1>2, <1>3
<1> QED BY <1>4, <1>5, <1>6 DEF Written, Part

\* Whatever the file is, a start finds settings in it (AppSettings::load()).
LEMMA LoadedType ==
    ASSUME file \in File
    PROVE  Loaded(file) \in AnySettings
<1>1. file.hotkey # {} => (CHOOSE h \in file.hotkey : TRUE) \in Shortcut \cup {None}
  BY DEF File
<1> QED BY <1>1, ShortcutAssumption DEF Loaded, AnySettings

-----------------------------------------------------------------------------
\* What the outcome of a change of the shortcut is, from bound and name to want.
ChangeFacts(r, want, bound, name, others) ==
    /\ r.hotkey \in Shortcut \cup {None} /\ r.binding = First(r.hotkey)
    /\ r.ok \in BOOLEAN
    /\ r.taken \in SUBSET Chord /\ others \subseteq r.taken
    /\ r.ok => r.hotkey = want
    /\ ~r.ok => want # None /\ r.hotkey \in {name, None}
    /\ r.binding # NoChord => KeyKnown(r.binding) /\ r.binding \notin r.taken
    /\ bound # NoChord /\ r.binding = NoChord /\ want # None => bound \in r.taken

\* What a change of the shortcut comes to (SessionController::setHotkey()): the
\* first chord of what the session names is registered, which is the shortcut that
\* was asked for, or the one before, or none when another program has got that one.
LEMMA SetHotkeyFacts ==
    ASSUME NEW want \in Shortcut \cup {None}, NEW bound \in Chord \cup {NoChord},
           NEW name \in Shortcut \cup {None}, NEW others \in SUBSET Chord,
           NEW grabbed \in Grabs(bound),
           bound # NoChord => First(name) = bound /\ KeyKnown(bound) /\ bound \notin others
    PROVE  ChangeFacts(SetHotkey(want, bound, name, others, grabbed), want, bound, name, others)
<1> DEFINE r == SetHotkey(want, bound, name, others, grabbed)
           after == others \cup grabbed
<1> SUFFICES ChangeFacts(r, want, bound, name, others)
  OBVIOUS
<1> USE DEF ChangeFacts
<1>1. after \in SUBSET Chord
  BY DEF Grabs
<1>0. /\ First(None) = NoChord
      /\ want # None => First(want) # NoChord
      /\ name # None => First(name) # NoChord
  BY FirstType DEF First
<1>2. CASE want = None
  BY <1>2, <1>0 DEF SetHotkey, Outcome
<1>3. CASE want # None /\ want = name /\ bound # NoChord
  BY <1>3, <1>0 DEF SetHotkey, Outcome
<1>4. CASE want # None /\ ~(want = name /\ bound # NoChord) /\ Registers(First(want), after)
  BY <1>4, <1>0, <1>1 DEF SetHotkey, Outcome, Registers
<1>5. CASE /\ want # None /\ ~(want = name /\ bound # NoChord) /\ ~Registers(First(want), after)
           /\ name \notin {None, want} /\ Registers(First(name), after)
  BY <1>5, <1>0, <1>1 DEF SetHotkey, Outcome, Registers
<1>6. CASE /\ want # None /\ ~(want = name /\ bound # NoChord) /\ ~Registers(First(want), after)
           /\ ~(name \notin {None, want} /\ Registers(First(name), after))
  <2>1. r = Outcome(NoChord, None, FALSE, after)
    BY <1>6 DEF SetHotkey
  <2>2. bound # NoChord => bound \in after
    BY <1>0, <1>6 DEF Registers
  <2> QED BY <1>6, <1>0, <1>1, <2>1, <2>2 DEF Outcome
<1> QED BY <1>2, <1>3, <1>4, <1>5, <1>6

\* The default is registered first, unless another program has it
\* (SessionController::initialize()).
LEMMA InitializedFacts ==
    ASSUME taken \in SUBSET Chord
    PROVE  /\ Initialized.binding = First(Initialized.hotkey)
           /\ Initialized.taken = taken
           /\ Initialized.hotkey \in {Default, None}
           /\ Initialized.binding # NoChord =>
                KeyKnown(Initialized.binding) /\ Initialized.binding \notin taken
           /\ Initialized.binding = NoChord => First(Default) \in taken
<1>1. /\ Default # None /\ KeyKnown(First(Default)) /\ First(Default) # NoChord
      /\ First(None) = NoChord /\ taken \cup {} = taken
  BY ShortcutAssumption, FirstType DEF KeyKnown, First
<1>2. CASE Registers(First(Default), taken)
  BY <1>1, <1>2 DEF Initialized, SetHotkey, Outcome, Registers
<1>3. CASE ~Registers(First(Default), taken)
  BY <1>1, <1>3 DEF Initialized, SetHotkey, Outcome, Registers
<1> QED BY <1>2, <1>3

\* The saved shortcut on top of it (the constructor of MainWindow).
LEMMA PersistedFacts ==
    ASSUME TypeOK, Loaded(file).hotkey # None, NEW grabbed \in Grabs(Initialized.binding)
    PROVE  LET s == Loaded(file)
               r == Persisted(s, grabbed)
           IN  /\ r.hotkey \in Shortcut \cup {None} /\ r.binding = First(r.hotkey)
               /\ r.ok \in BOOLEAN /\ r.taken \in SUBSET Chord
               /\ r.ok => r.hotkey = s.hotkey
               /\ r.binding # NoChord => KeyKnown(r.binding) /\ r.binding \notin r.taken
               /\ r.binding = NoChord => First(Default) \in r.taken
<1> DEFINE s == Loaded(file)
           d == Initialized
           r == SetHotkey(s.hotkey, d.binding, d.hotkey, taken, grabbed)
<1>1. s \in AnySettings /\ taken \in SUBSET Chord
  BY LoadedType DEF TypeOK, File
<1>2. s.hotkey \in Shortcut /\ s.hotkey # None
  BY <1>1 DEF AnySettings
<1>3. /\ d.binding = First(d.hotkey) /\ d.hotkey \in {Default, None}
      /\ d.binding # NoChord => KeyKnown(d.binding) /\ d.binding \notin taken
      /\ d.binding = NoChord => First(Default) \in taken
  BY <1>1, InitializedFacts
<1>4. d.binding \in Chord \cup {NoChord} /\ d.hotkey \in Shortcut \cup {None}
  BY <1>3, ShortcutAssumption, FirstType
<1> HIDE DEF s, d
<1>5. /\ r.hotkey \in Shortcut \cup {None} /\ r.binding = First(r.hotkey)
      /\ r.ok \in BOOLEAN
      /\ r.taken \in SUBSET Chord /\ taken \subseteq r.taken
      /\ r.ok => r.hotkey = s.hotkey
      /\ r.binding # NoChord => KeyKnown(r.binding) /\ r.binding \notin r.taken
      /\ d.binding # NoChord /\ r.binding = NoChord /\ s.hotkey # None => d.binding \in r.taken
  <2>1. grabbed \in Grabs(d.binding)
    BY DEF d
  <2>2. s.hotkey \in Shortcut \cup {None}
    BY <1>2
  <2>3. d.binding # NoChord => /\ First(d.hotkey) = d.binding
                               /\ KeyKnown(d.binding) /\ d.binding \notin taken
    BY <1>3
  <2>4. ChangeFacts(SetHotkey(s.hotkey, d.binding, d.hotkey, taken, grabbed),
                    s.hotkey, d.binding, d.hotkey, taken)
    BY ONLY <1>1, <1>4, <2>1, <2>2, <2>3, SetHotkeyFacts, Zenon
  <2> QED BY <2>4 DEF ChangeFacts
<1>6. r.binding = NoChord => First(Default) \in r.taken
  <2>1. d.binding # NoChord => d.binding = First(Default)
    BY <1>3 DEF First
  <2> QED BY <1>2, <1>3, <1>5, <2>1
<1>7. Persisted(s, grabbed) = r
  BY DEF Persisted, d
<1> QED BY <1>5, <1>6, <1>7 DEF s

-----------------------------------------------------------------------------
(* One lemma for each kind of step: the invariant, and what the step leaves. *)

LEMMA InitInv == Init => IInv
<1> SUFFICES ASSUME Init PROVE IInv
  OBVIOUS
<1>1. First(None) = NoChord
  BY DEF First
<1> QED BY <1>1, ShortcutAssumption
  DEF Init, IInv, BindingInv, ShortcutAgrees, TypeOK, Says

LEMMA StartupWithoutStep ==
    ASSUME IInv, StartupWithout
    PROVE  IInv' /\ OnlyWorkingIsSaved /\ LostOnlyToOthers
<1> DEFINE s == Loaded(file)
           d == Initialized
<1>1. TypeOK /\ ~up
  BY DEF IInv, ShortcutAgrees, StartupWithout, Startup
<1>2. s \in AnySettings /\ s.hotkey = None
  BY <1>1, LoadedType DEF TypeOK, File, StartupWithout
<1>3. /\ d.binding = First(d.hotkey) /\ d.taken = taken /\ d.hotkey \in {Default, None}
      /\ d.binding # NoChord => KeyKnown(d.binding) /\ d.binding \notin taken
      /\ d.binding = NoChord => First(Default) \in taken
      /\ d.binding \in Chord \cup {NoChord}
  BY <1>1, InitializedFacts, FirstType, ShortcutAssumption DEF TypeOK
<1>4. file' \in File
  BY <1>1, <1>2, WrittenIsFile DEF StartupWithout, Saved, TypeOK, File
<1> HIDE DEF s, d
<1>5. /\ up' = TRUE /\ paused' = FALSE /\ enabled' = s.enabled /\ box' = s.enabled
      /\ binding' = d.binding /\ hotkey' = d.hotkey /\ taken' = d.taken
      /\ settings' = s /\ field' = None
  BY DEF StartupWithout, Startup, Takes, s, d
<1>6. TypeOK'
  BY <1>1, <1>2, <1>3, <1>4, <1>5, ShortcutAssumption DEF TypeOK, AnySettings, File
<1>7. binding' = First(hotkey')
  BY <1>3, <1>5
<1>8. ShortcutAgrees'
  BY <1>2, <1>3, <1>5, <1>6, <1>7 DEF ShortcutAgrees, First
<1> QED BY <1>1, <1>2, <1>3, <1>5, <1>8
  DEF IInv, BindingInv, KeyKnown, OnlyWorkingIsSaved, LostOnlyToOthers, First

LEMMA StartupWithStep ==
    ASSUME IInv, StartupRegisters \/ StartupReverts \/ StartupFails
    PROVE  IInv' /\ OnlyWorkingIsSaved /\ LostOnlyToOthers
<1> DEFINE s == Loaded(file)
<1>1. TypeOK /\ ~up /\ s.hotkey # None
  BY DEF IInv, ShortcutAgrees, StartupRegisters, StartupReverts, StartupFails, Startup
<1>2. s \in AnySettings
  BY <1>1, LoadedType DEF TypeOK, File
<1>3. PICK grabbed \in Grabs(Initialized.binding) :
        LET r == Persisted(s, grabbed) IN
        /\ Startup(s, r)
        /\ \/ r.ok /\ settings' = s /\ field' = s.hotkey /\ file' \in Saved(file, s)
           \/ /\ ~r.ok /\ r.hotkey # None /\ settings' = [s EXCEPT !.hotkey = r.hotkey]
              /\ field' = r.hotkey /\ file' \in Written([s EXCEPT !.hotkey = r.hotkey])
           \/ ~r.ok /\ r.hotkey = None /\ settings' = s /\ field' = None
              /\ file' \in Saved(file, s)
  <2>1. CASE StartupRegisters
    BY <2>1 DEF StartupRegisters
  <2>2. CASE StartupReverts
    BY <2>2 DEF StartupReverts
  <2>3. CASE StartupFails
    BY <2>3 DEF StartupFails
  <2> QED BY <2>1, <2>2, <2>3
<1> DEFINE r == Persisted(s, grabbed)
<1>4. /\ r.hotkey \in Shortcut \cup {None} /\ r.binding = First(r.hotkey)
      /\ r.ok \in BOOLEAN /\ r.taken \in SUBSET Chord
      /\ r.ok => r.hotkey = s.hotkey
      /\ r.binding # NoChord => KeyKnown(r.binding) /\ r.binding \notin r.taken
      /\ r.binding = NoChord => First(Default) \in r.taken
  BY <1>1, PersistedFacts
<1>5. /\ Startup(s, r)
      /\ \/ r.ok /\ settings' = s /\ field' = s.hotkey /\ file' \in Saved(file, s)
         \/ /\ ~r.ok /\ r.hotkey # None /\ settings' = [s EXCEPT !.hotkey = r.hotkey]
            /\ field' = r.hotkey /\ file' \in Written([s EXCEPT !.hotkey = r.hotkey])
         \/ ~r.ok /\ r.hotkey = None /\ settings' = s /\ field' = None
            /\ file' \in Saved(file, s)
  BY <1>3
<1> HIDE DEF s, r
<1>6. /\ up' = TRUE /\ paused' = FALSE /\ enabled' = s.enabled /\ box' = s.enabled
      /\ binding' = r.binding /\ hotkey' = r.hotkey /\ taken' = r.taken
  BY <1>5 DEF Startup, Takes
<1>7. /\ settings' \in AnySettings
      /\ settings'.hotkey # None
      /\ r.hotkey # None => settings'.hotkey = r.hotkey
      /\ field' \in Shortcut \cup {None}
  BY <1>1, <1>2, <1>4, <1>5 DEF AnySettings
<1>8. file' \in File
  <2>1. [s EXCEPT !.hotkey = r.hotkey] \in AnySettings
    BY <1>2, <1>4 DEF AnySettings
  <2> QED BY <1>1, <1>2, <1>5, <2>1, WrittenIsFile DEF Saved, TypeOK, File
<1>9. r.binding \in Chord \cup {NoChord}
  BY <1>4, FirstType
<1>10. TypeOK'
  BY <1>1, <1>2, <1>4, <1>6, <1>7, <1>8, <1>9 DEF TypeOK, AnySettings, File
<1>11. binding' = First(hotkey')
  BY <1>4, <1>6
<1>12. ShortcutAgrees'
  BY <1>6, <1>7, <1>10, <1>11 DEF ShortcutAgrees
<1> QED BY <1>1, <1>4, <1>6, <1>12
  DEF IInv, BindingInv, KeyKnown, OnlyWorkingIsSaved, LostOnlyToOthers, First

LEMMA StartupThrowsStep ==
    ASSUME IInv, StartupThrows
    PROVE  IInv' /\ OnlyWorkingIsSaved /\ LostOnlyToOthers
<1>1. TypeOK /\ ~up /\ ~up'
  BY DEF IInv, ShortcutAgrees, StartupThrows
<1>2. file' \in File
  BY <1>1, LoadedType, WrittenIsFile DEF StartupThrows, Saved, TypeOK, File
<1>3. TypeOK'
  BY <1>1, <1>2 DEF TypeOK, StartupThrows, File
<1> QED BY <1>1, <1>3
  DEF IInv, ShortcutAgrees, BindingInv, KeyKnown, First, StartupThrows, OnlyWorkingIsSaved,
      LostOnlyToOthers

LEMMA ChangeStep ==
    ASSUME IInv, NEW switch \in BOOLEAN, OnWordSelectSettingsChanged(switch)
    PROVE  IInv' /\ OnlyWorkingIsSaved /\ LostOnlyToOthers
<1>1. /\ TypeOK /\ up /\ binding = First(hotkey)
      /\ hotkey # None => settings.hotkey \in {hotkey, None}
      /\ settings.hotkey = None => hotkey \in {Default, None}
      /\ binding # NoChord => KeyKnown(binding) /\ binding \notin taken
  BY DEF IInv, ShortcutAgrees, BindingInv, OnWordSelectSettingsChanged
<1>2. PICK grabbed \in Grabs(binding) :
        LET r   == IF field = None THEN Outcome(binding, hotkey, FALSE, taken)
                   ELSE SetHotkey(field, binding, hotkey, taken, grabbed)
            new == [hotkey |-> Effective(r), enabled |-> switch]
        IN  /\ up' = up /\ paused' = paused
            /\ binding' = r.binding /\ hotkey' = r.hotkey /\ taken' = r.taken
            /\ field' = IF r.ok THEN field ELSE r.hotkey
            /\ box' = switch /\ enabled' = switch
            /\ settings' = new
            /\ file' \in Saved(file, new)
  BY DEF OnWordSelectSettingsChanged, Takes
<1> DEFINE r == IF field = None THEN Outcome(binding, hotkey, FALSE, taken)
                ELSE SetHotkey(field, binding, hotkey, taken, grabbed)
           new == [hotkey |-> Effective(r), enabled |-> switch]
<1>3. /\ r.hotkey \in Shortcut \cup {None} /\ r.binding = First(r.hotkey)
      /\ r.ok \in BOOLEAN /\ r.taken \in SUBSET Chord
      /\ r.ok => r.hotkey = field /\ field # None
      /\ ~r.ok => r.hotkey \in {hotkey, None}
      /\ r.binding # NoChord => KeyKnown(r.binding) /\ r.binding \notin r.taken
      /\ binding # NoChord /\ r.binding = NoChord => binding \in r.taken
  <2>1. CASE field = None
    BY <2>1, <1>1 DEF Outcome, TypeOK
  <2>2. CASE field # None
    <3>1. /\ field \in Shortcut \cup {None} /\ binding \in Chord \cup {NoChord}
          /\ hotkey \in Shortcut \cup {None} /\ taken \in SUBSET Chord
      BY <1>1 DEF TypeOK
    <3> DEFINE q == SetHotkey(field, binding, hotkey, taken, grabbed)
    <3>2. /\ q.hotkey \in Shortcut \cup {None} /\ q.binding = First(q.hotkey)
          /\ q.ok \in BOOLEAN /\ q.taken \in SUBSET Chord
          /\ q.ok => q.hotkey = field
          /\ ~q.ok => q.hotkey \in {hotkey, None}
          /\ q.binding # NoChord => KeyKnown(q.binding) /\ q.binding \notin q.taken
          /\ binding # NoChord /\ q.binding = NoChord /\ field # None => binding \in q.taken
      <4>1. binding # NoChord =>
              First(hotkey) = binding /\ KeyKnown(binding) /\ binding \notin taken
        BY <1>1
      <4>2. grabbed \in Grabs(binding)
        OBVIOUS
      <4>3. ChangeFacts(SetHotkey(field, binding, hotkey, taken, grabbed),
                        field, binding, hotkey, taken)
        BY ONLY <3>1, <4>1, <4>2, SetHotkeyFacts, Zenon
      <4> QED BY <4>3 DEF ChangeFacts
    <3>3. r = q
      BY <2>2
    <3> HIDE DEF r, q
    <3> QED BY <2>2, <1>1, <3>2, <3>3
  <2> QED BY <2>1, <2>2
<1>4. /\ up' = up /\ paused' = paused
      /\ binding' = r.binding /\ hotkey' = r.hotkey /\ taken' = r.taken
      /\ field' = IF r.ok THEN field ELSE r.hotkey
      /\ box' = switch /\ enabled' = switch
      /\ settings' = new /\ file' \in Saved(file, new)
  BY <1>2
<1> HIDE DEF r
<1>5. /\ new \in AnySettings /\ new.hotkey = Effective(r)
      /\ Effective(r) = IF r.hotkey = None THEN settings.hotkey ELSE r.hotkey
  BY <1>1, <1>3 DEF Effective, TypeOK, AnySettings
<1> HIDE DEF new
<1>6. file' \in File
  BY <1>1, <1>4, <1>5, WrittenIsFile DEF Saved, TypeOK, File
<1>7. r.binding \in Chord \cup {NoChord} /\ (r.binding = NoChord <=> r.hotkey = None)
  BY <1>3, FirstType
<1>8. TypeOK'
  BY <1>1, <1>3, <1>4, <1>5, <1>6, <1>7 DEF TypeOK, AnySettings, File
<1>9. /\ hotkey' # None => settings'.hotkey = hotkey'
      /\ settings'.hotkey = None => hotkey' \in {Default, None}
  BY <1>3, <1>4, <1>5
<1>10. binding' = First(hotkey')
  BY <1>3, <1>4
<1>11. OnlyWorkingIsSaved
  BY <1>1, <1>3, <1>4, <1>5, <1>7 DEF OnlyWorkingIsSaved
<1>12. LostOnlyToOthers
  BY <1>1, <1>3, <1>4 DEF LostOnlyToOthers
<1>13. BindingInv'
  BY <1>1, <1>3, <1>4 DEF BindingInv, KeyKnown
<1> QED BY <1>8, <1>9, <1>10, <1>11, <1>12, <1>13 DEF IInv, ShortcutAgrees

LEMMA OtherStep ==
    ASSUME IInv,
           RecordShortcut \/ TogglePause \/ SaveSettings \/ OtherProgram \/ Stop
             \/ UNCHANGED vars
    PROVE  IInv' /\ OnlyWorkingIsSaved /\ LostOnlyToOthers
<1>1. TypeOK /\ BindingInv /\ ShortcutAgrees
  BY DEF IInv, ShortcutAgrees
<1>2. CASE RecordShortcut
  BY <1>1, <1>2 DEF RecordShortcut, IInv, ShortcutAgrees, BindingInv, TypeOK, KeyKnown, First,
                    OnlyWorkingIsSaved, LostOnlyToOthers
<1>3. CASE TogglePause
  BY <1>1, <1>3 DEF TogglePause, IInv, ShortcutAgrees, BindingInv, TypeOK, KeyKnown, First,
                    OnlyWorkingIsSaved, LostOnlyToOthers
<1>4. CASE SaveSettings
  <2>1. file' \in File
    BY <1>1, <1>4, WrittenIsFile DEF SaveSettings, Saved, TypeOK, File, AnySettings
  <2> QED BY <1>1, <1>4, <2>1 DEF SaveSettings, IInv, ShortcutAgrees, BindingInv, TypeOK,
                    KeyKnown, First, File, OnlyWorkingIsSaved, LostOnlyToOthers
<1>5. CASE OtherProgram
  BY <1>1, <1>5 DEF OtherProgram, IInv, ShortcutAgrees, BindingInv, TypeOK, KeyKnown, First,
                    OnlyWorkingIsSaved, LostOnlyToOthers
<1>6. CASE Stop
  BY <1>1, <1>6 DEF Stop, IInv, ShortcutAgrees, BindingInv, TypeOK, KeyKnown, First,
                    OnlyWorkingIsSaved, LostOnlyToOthers
<1>7. CASE UNCHANGED vars
  BY <1>1, <1>7 DEF vars, IInv, ShortcutAgrees, BindingInv, TypeOK, KeyKnown, First,
                    OnlyWorkingIsSaved, LostOnlyToOthers
<1> QED BY <1>2, <1>3, <1>4, <1>5, <1>6, <1>7

LEMMA StepInv ==
    ASSUME IInv, [Next]_vars
    PROVE  IInv' /\ OnlyWorkingIsSaved /\ LostOnlyToOthers
<1>1. box \in BOOLEAN
  BY DEF IInv, ShortcutAgrees, TypeOK
<1>2. CASE StartupWithout
  BY <1>2, StartupWithoutStep
<1>3. CASE StartupRegisters \/ StartupReverts \/ StartupFails
  BY <1>3, StartupWithStep
<1>4. CASE StartupThrows
  BY <1>4, StartupThrowsStep
<1>5. CASE OnHotkeyEdited \/ ChangeOther
  BY <1>1, <1>5, ChangeStep DEF OnHotkeyEdited, ChangeOther
<1>6. CASE ToggleEnabled
  <2>1. (~box) \in BOOLEAN
    BY <1>1
  <2> QED BY <1>6, <2>1, ChangeStep DEF ToggleEnabled
<1>7. CASE RecordShortcut \/ TogglePause \/ SaveSettings \/ OtherProgram \/ Stop
             \/ UNCHANGED vars
  BY <1>7, OtherStep
<1> QED BY <1>2, <1>3, <1>4, <1>5, <1>6, <1>7 DEF Next

-----------------------------------------------------------------------------
\* The session, the registration and the settings agree on the shortcut, however
\* the user, other programs and a failing disk interleave (setHotkey(),
\* onWordSelectSettingsChanged(), the constructor of MainWindow).
THEOREM ShortcutAlwaysAgrees == Spec => []ShortcutAgrees
<1>1. IInv => ShortcutAgrees
  BY DEF IInv
<1>2. IInv /\ [Next]_vars => IInv'
  BY StepInv
<1> QED BY <1>1, <1>2, InitInv, PTL DEF Spec

\* A change of the shortcut that fails is undone, and is never saved
\* (setHotkey(), onWordSelectSettingsChanged()).
THEOREM FailedChangesAreUndone == Spec => FailedChangeIsUndone
<1>1. IInv /\ [Next]_vars => IInv'
  BY StepInv
<1>2. IInv /\ [Next]_vars => [OnlyWorkingIsSaved /\ LostOnlyToOthers]_vars
  BY StepInv
<1> QED BY <1>1, <1>2, InitInv, PTL DEF Spec, FailedChangeIsUndone
=============================================================================
