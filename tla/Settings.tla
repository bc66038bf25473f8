------------------------------ MODULE Settings ------------------------------
(***************************************************************************)
(* The desktop app's settings: a state in memory, and a file that each     *)
(* change writes in the background.  A state is known by the number of the *)
(* change that made it; 0 is the state of defaults.                        *)
(***************************************************************************)
EXTENDS Integers

CONSTANT Changes  \* bound: changes the user makes

ASSUME SettingsAssumption == Changes \in Nat

VARIABLES
  memory,  \* FlashCatAppState
  file,    \* what flashcat.toml holds; Mixed is no state
  saves,   \* saves under way: the state saved, and whether the file is open
  made,    \* changes made
  spoilt   \* history: two saves ran at once, one failed, or the app quit in one

Mixed == -1

settingsVars == <<memory, file, saves, made, spoilt>>

SettingsInit == memory = 0 /\ file = 0 /\ saves = {} /\ made = 0 /\ spoilt = FALSE

Save(n) == /\ saves' = saves \cup {[state |-> n, open |-> FALSE]}
           /\ spoilt' = (spoilt \/ saves # {})

\* Mutant of Change: the state is cloned before it is changed.
ChangeAfterClone ==
  /\ made < Changes /\ made' = made + 1
  /\ memory' = made + 1 /\ Save(memory)
  /\ UNCHANGED file

\* update_app_state_and_save: the change, a clone of it, and a save of the clone
\* that runs beside the saves of other changes.
Change ==
  /\ made < Changes /\ made' = made + 1
  /\ memory' = made + 1 /\ Save(made + 1)
  /\ UNCHANGED file

\* save_app_state: std::fs::write opens and truncates the file, then writes.
Truncate(w) ==
  /\ ~w.open
  /\ saves' = (saves \ {w}) \cup {[w EXCEPT !.open = TRUE]}
  /\ file' = 0
  /\ UNCHANGED <<memory, made, spoilt>>

\* A state written over a longer one by another save leaves the other's end.
Write(w) ==
  /\ w.open
  /\ saves' = saves \ {w}
  /\ file' \in IF file = 0 THEN {w.state} ELSE {w.state, Mixed}
  /\ UNCHANGED <<memory, made, spoilt>>

\* The error is logged, and nobody told.
SaveFails(w) ==
  /\ saves' = saves \ {w} /\ spoilt' = TRUE
  /\ UNCHANGED <<memory, file, made>>

\* The app quits and starts: a file that cannot be read means defaults.
Reopen ==
  /\ memory' = IF file = Mixed THEN 0 ELSE file
  /\ saves' = {} /\ spoilt' = (spoilt \/ saves # {})
  /\ UNCHANGED <<file, made>>

SettingsNext ==
  \E w \in saves : Truncate(w) \/ Write(w) \/ SaveFails(w)

-----------------------------------------------------------------------------
\* Once its saves are over the file holds the settings the app runs with: unless
\* two saves ran at once, one failed, or the app quit during one.
SettingsKept == saves = {} /\ ~spoilt => file = memory
=============================================================================
