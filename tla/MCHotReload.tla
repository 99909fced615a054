----------------------------- MODULE MCHotReload -----------------------------
(* An instance of HotReload for TLC. *)
EXTENDS HotReload

\* The flagship pack, reduced to an ability and the spell it casts; the empty pack,
\* also as an edit; and an edit that forgot the spell.
MCDefault == [ids |-> {"ability", "spell"}, refs |-> {"spell"}]
MCPack == {MCDefault, EmptyPack, [ids |-> {"ability"}, refs |-> {"spell"}]}
==============================================================================
