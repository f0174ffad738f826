----------------------------- MODULE MCArchive -----------------------------
EXTENDS Archive, TLC
CONSTANTS gui, cli, report, copy, draft, ours, theirs, nothing, one, two

\* Two sources of the same name in different directories are one of the cases.
MCNameOf(f) == IF f = draft THEN "draft" ELSE "report"
MCStagings == {<<draft>>, <<report, copy>>}

\* One parameter set: with a key of another, Unlock changes nothing.
MCParamOf(k) == 768
MCLevelOf(w) == IF w = gui THEN "deflate" ELSE "store"

\* Key pairs are interchangeable, and so are contents.
Symmetry == Permutations({ours, theirs}) \cup Permutations({one, two})
=============================================================================
