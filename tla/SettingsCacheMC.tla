--------------------------- MODULE SettingsCacheMC ---------------------------
(***************************************************************************)
(* Instances of SettingsCache for TLC: the competition phase with three of *)
(* its five ranks, and a custom key, which has no default.  Rank 3 is a    *)
(* value that validation refuses.                                          *)
(***************************************************************************)
EXTENDS SettingsCache, TLC

CONSTANTS phase, custom, r1, r2

Keys     == {phase, custom}
OneKey   == {phase}
Ranks    == 0..3
Accepts  == phase :> 0..2 @@ custom :> {1}
Defaults == phase :> 0 @@ custom :> Absent
OneAccepts  == phase :> 0..2
OneDefaults == phase :> 0

Transition  == {"transition"}
WithRefresh == {"transition", "get_all"}

Both     == {r1, r2}
One      == {r1}
ReqPerms == Permutations(Both)
=============================================================================
