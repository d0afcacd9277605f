------------------------- MODULE MCSceneAppearance -------------------------
EXTENDS SceneAppearance, TLC

CONSTANTS p1, p2, q

\* Two pictures that claim to be one revision of an asset, and a large one.
Assets == (p1 :> "p") @@ (p2 :> "p") @@ (q :> "q")
Sizes == (p1 :> 1) @@ (p2 :> 1) @@ (q :> 2)

Symmetries == Permutations(Starts) \cup Permutations(Streams)
=============================================================================
