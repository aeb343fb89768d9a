------------------------------ MODULE MCPlayer ------------------------------
(***************************************************************************)
(* A feature with sound, a muted preview a ninth of its size, and an ad    *)
(* with sound as large as the feature, which the provider's hints exclude. *)
(* The engine seeks to the middle and past the end, the site to the start. *)
(***************************************************************************)
EXTENDS Player

MCSize == <<1, 9, 9>>
MCSound == {2, 3}
MCHints == [include |-> {}, exclude |-> {3}, min |-> 0]
MCTarget == {2, 6}
MCOther == {0}
=============================================================================
