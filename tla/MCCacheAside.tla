---------------------------- MODULE MCCacheAside ----------------------------
(* Instances of CacheAside for TLC.                                        *)
EXTENDS CacheAside, TLC

CONSTANTS old, changed, p1, p2

MCOneId == {1}
MCTwoIds == {1, 2}
MCValues == {old, changed}
MCTwoRequests == {p1, p2}
MCSymmetry == Permutations(MCTwoRequests)

MCNoPages == {}
MCSecondPage == {<<2, 1>>}

\* A page that invalidateTask reaches, and one with a limit of 21 that it does not.
MCBothPages == {<<1, 1>>, <<1, 21>>}
=============================================================================
