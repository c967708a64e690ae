------------------------------- MODULE MCBio -------------------------------
(***************************************************************************)
(* Instances of Bio for TLC.  Apart: each writer has a block of its own    *)
(* and all of them read a third one, more processes than buffers.  Shared: *)
(* two processes own entries of the same block, as two inodes do.          *)
(***************************************************************************)
EXTENDS Bio, TLC

CONSTANTS p, q, r, x, y, z

MCReadsApart == (p :> {z}) @@ (q :> {z}) @@ (r :> {y})
MCWritesApart == (p :> {x}) @@ (q :> {}) @@ (r :> {})
MCHalves == (p :> 1) @@ (q :> 2) @@ (r :> 1)

MCReadsShared == (p :> {x}) @@ (q :> {x})
MCWritesShared == (p :> {x}) @@ (q :> {x})
MCHalvesShared == (p :> 1) @@ (q :> 2)

=============================================================================
