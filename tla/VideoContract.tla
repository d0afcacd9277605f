---------------------------- MODULE VideoContract ---------------------------
(***************************************************************************)
(* What the scene frame output (internal/videoout) promises the job manager *)
(* through Start, Stop and Options.OnFailure: at most one session is live;  *)
(* a session that dies is reported, once; a session that was stopped, or    *)
(* that never came up, is not reported at all.                              *)
(***************************************************************************)
CONSTANTS Sessions, None

VARIABLES
  live,   \* the live session, or None
  past,   \* every session that has ever been live
  owed,   \* sessions that died and whose report is still on its way
  told    \* sessions whose death has been reported

vars == <<live, past, owed, told>>

Init == live = None /\ past = {} /\ owed = {} /\ told = {}

Open(s) ==
  /\ live = None /\ s \notin past
  /\ live' = s /\ past' = past \cup {s}
  /\ UNCHANGED <<owed, told>>

Stop ==
  /\ live # None
  /\ live' = None
  /\ UNCHANGED <<past, owed, told>>

Die ==
  /\ live # None
  /\ live' = None /\ owed' = owed \cup {live}
  /\ UNCHANGED <<past, told>>

Tell(s) ==
  /\ s \in owed
  /\ owed' = owed \ {s} /\ told' = told \cup {s}
  /\ UNCHANGED <<live, past>>

Next == Stop \/ Die \/ \E s \in Sessions : Open(s) \/ Tell(s)

Spec == Init /\ [][Next]_vars /\ \A s \in Sessions : WF_vars(Tell(s))
=============================================================================
