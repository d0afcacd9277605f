------------------------- MODULE MCDeepgramSession -------------------------
EXTENDS DeepgramSession, TLC

CONSTANTS c1, c2, u1, s1

\* A goroutine follows a user over two voice connections, before and after being
\* resolved on the first; the other one, of a replaced ingress, still has audio
\* of the first.
Reconnecting ==
  (c1 :> {<<u1, s1, 1>>}) @@ (c2 :> {<<NoUser, s1, 1>>, <<u1, s1, 1>>, <<u1, s1, 2>>})
=============================================================================
