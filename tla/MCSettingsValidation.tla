------------------------ MODULE MCSettingsValidation ------------------------
(* Instances of SettingsValidation for TLC. *)
EXTENDS SettingsValidation, TLC

CONSTANTS runtime, theme,   \* a validated and an immediate descriptor
          v1, v2

MCDescriptors == {runtime, theme}
MCImmediate == {theme}
MCValues == {v1, v2}

Symmetry == Permutations(Calls) \cup Permutations(Owners) \cup Permutations(Operations)
              \cup Permutations(MCValues)
=============================================================================
