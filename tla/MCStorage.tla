----------------------------- MODULE MCStorage -----------------------------
(* Storage for TLC.                                                        *)
EXTENDS Storage, TLC
RW == {"read", "write", "share_read", "share_write"}
MCFlags == {{"meta", "write", "read"}, RW, RW \cup {"overwrite"}}
Symm == Permutations(TA) \cup Permutations(Id)
=============================================================================
