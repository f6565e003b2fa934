----------------------------- MODULE MCTshLive -----------------------------
(* Liveness of the shell, in two kinds of session that keep the instance     *)
(* small: the user types ctrl-z as well as ctrl-c, or starts background jobs *)
(* as well as foreground ones.                                               *)
EXTENDS Tsh

VARIABLE session

SessionInit == Init /\ session \in {"both keys", "both grounds"}

Typed(kind) == IF kind = "both keys" THEN bg' = FALSE ELSE "TSTP" \notin pending'

SessionNext == Next /\ Typed(session) /\ session' = session

\* Fairness is about no action that Typed forbids.
SessionSpec == SessionInit /\ [][SessionNext]_<<vars, session>> /\ Fairness
=============================================================================
