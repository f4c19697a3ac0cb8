----------------------------- MODULE MCMenuImport -----------------------------
EXTENDS MenuImport, TLC

CONSTANTS
  dOpen, dOpenAgain, dOpenFile, dRecent,     \* descriptions
  openId, openFileId, recentId,   \* "open()", "open('file')" and "open-recent()"
  open, recent                    \* their names

MCIdOf == (dOpen :> openId) @@ (dOpenAgain :> openId) @@ (dOpenFile :> openFileId)
            @@ (dRecent :> recentId)
MCRank == (openId :> 1) @@ (openFileId :> 2) @@ (recentId :> 3)
MCNameOf == (openId :> open) @@ (openFileId :> open) @@ (recentId :> recent)
MCRangeOf == (open :> {openId, openFileId, recentId}) @@ (recent :> {recentId})

\* The two descriptions of one identifier are alike.
Symmetry == Permutations({dOpen, dOpenAgain})
===============================================================================
