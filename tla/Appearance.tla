----------------------------- MODULE Appearance -----------------------------
(***************************************************************************)
(* The appearance preferences: a mode, and for each polarity a preset with *)
(* an optional customized seed, kept in localStorage, applied to the       *)
(* workbench and edited in the settings dialog.  In system mode the theme  *)
(* follows the operating system.  The dialog writes the seed it captured   *)
(* when it was drawn, into the slot that was active then.                  *)
(***************************************************************************)
EXTENDS Naturals

CONSTANTS
  PresetsOf, \* the presets of each polarity
  Seeds,     \* customized seeds
  Edits,     \* bound: edits in the dialog
  None       \* a field that is missing or of no use; no seed; no dialog

VARIABLES
  stored,    \* localStorage, as it reads
  system,    \* what the operating system prefers
  applied,   \* the preset and the seed on screen
  listening, \* the workbench hears of the system's changes
  dialog,    \* what the appearance page captured, or None
  unsaved,   \* the last write failed
  edits

vars == <<stored, system, applied, listening, dialog, unsaved, edits>>

Polarities == {"light", "dark"}
Slots(p) == [preset : PresetsOf[p], seed : Seeds \cup {None}]

----------------------------------------------------------------------------
(* settingsPrefs.                                                           *)

\* A slot that does not name a preset of its polarity falls back.
SanitizeSlot(raw, fallback, p) ==
  IF raw = None \/ (raw # None /\ raw.preset \notin PresetsOf[p]) THEN fallback ELSE raw

\* The preferences before there were slots named a theme only.
Migrated(theme) ==
  [mode |-> IF theme = "light" THEN "light" ELSE "dark",
   light |-> [preset |-> "light", seed |-> None],
   dark |-> [preset |-> IF theme = "highContrast" THEN "highContrast" ELSE "dark", seed |-> None]]

SanitizeAppearance(raw) ==
  [mode |-> IF raw.mode = None THEN Migrated(raw.theme).mode ELSE raw.mode,
   light |-> SanitizeSlot(raw.light, Migrated(raw.theme).light, "light"),
   dark |-> SanitizeSlot(raw.dark, Migrated(raw.theme).dark, "dark")]

Polarity(prefs, sys) == IF prefs.mode = "system" THEN sys ELSE prefs.mode
Slot(prefs, p) == IF p = "light" THEN prefs.light ELSE prefs.dark

\* resolveActiveSeed: the customized seed, else the preset's.
Resolved(prefs, sys) == Slot(prefs, Polarity(prefs, sys))

\* applyUiPreferences: in system mode the workbench listens, otherwise it stops.
Apply(prefs, sys) == applied' = Resolved(prefs, sys) /\ listening' = (prefs.mode = "system")

RawSlots == {None} \cup UNION {[preset : PresetsOf[p], seed : {None}] : p \in Polarities}

\* What an earlier version, another tool or a damaged file left.
Init ==
  /\ system \in Polarities
  /\ \E raw \in [theme : {"light", "dark", "highContrast"}, mode : {"system", "dark", None},
                 light : RawSlots, dark : RawSlots] :
       LET prefs == SanitizeAppearance(raw)
       IN  stored = prefs /\ applied = Resolved(prefs, system) /\ listening = (prefs.mode = "system")
  /\ dialog = None /\ unsaved = FALSE /\ edits = 0

SystemFlips ==
  /\ system' = IF system = "light" THEN "dark" ELSE "light"
  /\ IF listening THEN Apply(stored, system') ELSE UNCHANGED <<applied, listening>>
  /\ unsaved' = (unsaved /\ ~listening)
  /\ UNCHANGED <<stored, dialog, edits>>

----------------------------------------------------------------------------
(* The appearance page of the settings dialog.                              *)

Capture(prefs, sys) ==
  [polarity |-> Polarity(prefs, sys), slot |-> Resolved(prefs, sys)]

\* Mutant: the page is not drawn again after an edit.
KeepsPage(prefs) == dialog

\* rebuildAppearance: from the preferences, as they read now.
Rebuild(prefs) == Capture(prefs, system)

OpensPage == dialog = None /\ dialog' = Capture(stored, system) /\ UNCHANGED <<stored, system, applied, listening, unsaved, edits>>
ClosesPage == dialog # None /\ dialog' = None /\ UNCHANGED <<stored, system, applied, listening, unsaved, edits>>

\* updatePreferences: a write that fails is applied all the same.
Update(prefs, saves) ==
  /\ edits < Edits /\ edits' = edits + 1
  /\ stored' = (IF saves THEN prefs ELSE stored) /\ unsaved' = ~saves
  /\ Apply(prefs, system) /\ dialog' = Rebuild(stored')
  /\ UNCHANGED system

\* Mutant: the slots are written as they were captured.
WithBoth(prefs, p, slot) ==
  [prefs EXCEPT !.light = IF p = "light" THEN slot ELSE dialog.slot, !.dark = IF p = "dark" THEN slot ELSE dialog.slot]

\* The other polarity's slot is read again, and kept.
WithSlot(prefs, p, slot) ==
  IF p = "light" THEN [prefs EXCEPT !.light = slot] ELSE [prefs EXCEPT !.dark = slot]

PicksMode(m, saves) == dialog # None /\ Update([stored EXCEPT !.mode = m], saves)

\* Picking a preset clears the slot's customization.
PicksPreset(p, preset, saves) ==
  dialog # None /\ Update(WithSlot(stored, p, [preset |-> preset, seed |-> None]), saves)

\* writeSeed: the captured seed with a field changed, or one that is imported whole.
WriteSeed(seed, saves) ==
  /\ dialog # None
  /\ Update(WithSlot(stored, dialog.polarity, [preset |-> dialog.slot.preset, seed |-> seed]), saves)

ResetsPreset(saves) ==
  /\ dialog # None /\ dialog.slot.seed # None
  /\ Update(WithSlot(stored, dialog.polarity, [dialog.slot EXCEPT !.seed = None]), saves)

Next ==
  \/ SystemFlips \/ OpensPage \/ ClosesPage
  \/ \E saves \in BOOLEAN :
       \/ \E m \in {"system", "light", "dark"} : PicksMode(m, saves)
       \/ \E p \in Polarities : \E preset \in PresetsOf[p] : PicksPreset(p, preset, saves)
       \/ \E seed \in Seeds : WriteSeed(seed, saves)
       \/ ResetsPreset(saves)

Spec == Init /\ [][Next]_vars

----------------------------------------------------------------------------
\* The preferences are well formed whatever was stored before: a preset of its polarity in each slot.
TypeOK ==
  /\ stored.mode \in {"system", "light", "dark"} /\ system \in Polarities
  /\ stored.light \in Slots("light") /\ stored.dark \in Slots("dark")
  /\ edits \in 0 .. Edits /\ unsaved \in BOOLEAN

\* What is on screen is what the preferences resolve to under the system's present choice, unless the last
\* edit could not be saved.
AppliedIsResolved == ~unsaved => applied = Resolved(stored, system)

\* The open page writes back what the store holds: the slot it captured is the stored one of that
\* polarity, even after the system flipped under it, so that no edit undoes an earlier one.
PageIsCurrent == dialog # None => dialog.slot = Slot(stored, dialog.polarity)

\* The appearance's promises together.
AppearanceSound == AppliedIsResolved /\ PageIsCurrent

\* An edit of one polarity leaves the other polarity's slot as it is.
EditsOneSlot == [][stored'.light = stored.light \/ stored'.dark = stored.dark]_vars
=============================================================================
