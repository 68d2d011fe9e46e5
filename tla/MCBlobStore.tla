----------------------------- MODULE MCBlobStore -----------------------------
(* Instances of BlobStore.                                                 *)
EXTENDS BlobStore, TLC

(* Backups, source files and chunks are interchangeable.                   *)
Symmetry ==
    Permutations(Backups) \cup Permutations(Sources) \cup Permutations(Chunks)
=============================================================================
