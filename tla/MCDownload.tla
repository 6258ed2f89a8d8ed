----------------------------- MODULE MCDownload -----------------------------
(* Small instances of Download for TLC. *)
EXTENDS Download, TLC

Symmetry == Permutations(Peers) \union Permutations(Pieces)
            \union Permutations(Blocks)

=============================================================================
