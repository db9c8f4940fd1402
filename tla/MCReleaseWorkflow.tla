-------------------------- MODULE MCReleaseWorkflow --------------------------
(* Values for the checks of ReleaseWorkflow.                               *)
EXTENDS ReleaseWorkflow

\* A first version before any release.
FirstVersion == Stable(0, 0, 0)

\* Alpha and beta of PREID_CHOICES.
AlphaBeta == {1, 2}

\* Prereleases for each way bump_prerelease goes on: a number to increment, a word
\* to extend, and a number in first place, which the order puts before every word;
\* one number written in two ways; and a stable version with build metadata.
OddVersions == {WithPrerelease(Stable(0, 0, 1), <<Word(1), Number(0)>>),
                WithPrerelease(Stable(0, 0, 1), <<Word(1), [Number(0) EXCEPT !.zeros = 1]>>),
                WithPrerelease(Stable(0, 0, 1), <<Word(1), Word(2)>>),
                WithPrerelease(Stable(0, 0, 1), <<Number(1)>>),
                [Stable(0, 0, 1) EXCEPT !.build = 1]}
=============================================================================
