---------------------------- MODULE MCWebSession ----------------------------
(* The instance of WebSession for TLC.                                     *)
EXTENDS WebSession, TLC

CONSTANTS s1, s2, n1, c1, c2

MCSessions == {s1, s2}
MCNamePosts == {n1}
MCCommentPosts == {c1, c2}
MCSymmetry == Permutations(MCSessions) \union Permutations(MCCommentPosts)
=============================================================================
