---------------------------- MODULE MCSceneState ----------------------------
EXTENDS SceneState

CONSTANTS u1, u2

Person(user, speaking) == [user |-> user, name |-> "display", speaking |-> speaking]

\* Nobody; a user who speaks, listed twice, and an entry without a user.
SomeLists == {<<>>, <<Person(NoUser, TRUE), Person(u2, TRUE),
                      [Person(u2, FALSE) EXCEPT !.name = "id"]>>}

TwoRows == {[maxItems |-> 2, window |-> 1, interimTTL |-> 1, finalTTL |-> 2, show |-> TRUE]}
=============================================================================
