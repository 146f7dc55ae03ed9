----------------------------- MODULE MCFsHtree -----------------------------
(* Instances of FsHtree. *)
EXTENDS FsHtree
=============================================================================
