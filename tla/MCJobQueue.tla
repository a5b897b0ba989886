----------------------------- MODULE MCJobQueue -----------------------------
(* Instances of JobQueue for TLC: the job "good" succeeds, "bad" fails.    *)
EXTENDS JobQueue, TLC

CONSTANTS good, bad, w1, w2

MCTags == 1 .. 7
MCFewTags == 1 .. 5
MCBoth == {good, bad}
MCGood == {good}
MCBad == {bad}
MCNone == {}
MCTwoWorkers == {w1, w2}
MCOneWorker == {w1}
MCSymmetry == Permutations(MCTwoWorkers)
=============================================================================
