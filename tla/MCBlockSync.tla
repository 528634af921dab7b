---------------------------- MODULE MCBlockSync -----------------------------
(***************************************************************************)
(* Small networks of a validator v and two servers.                        *)
(***************************************************************************)
EXTENDS BlockSync, TLC

CONSTANTS v, r, s, g, h1, h2, h3

(* All three know each other from the start. *)
MeshLinks == {<<r, v>>, <<s, v>>, <<s, r>>}

(* s joins v, and there is no other server. *)
PairLinks == {<<s, v>>}

NoLinks == {}

(* s knows r alone, and r joins v while blocks are made. *)
LineLinks == {<<r, v>>, <<s, r>>}

LineJoined == {<<s, r>>}

HashSymmetry == Permutations({h1, h2})
=============================================================================
