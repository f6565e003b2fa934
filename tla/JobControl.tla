----------------------------- MODULE JobControl -----------------------------
(* What the header comment of tsh.c promises of job states: the four         *)
(* transitions, at most one job in the foreground, and a job of either kind  *)
(* may start or end at any time.                                             *)
CONSTANT Pids

VARIABLE job   \* job[p]: "none", or the state of the job of process p

States == {"none", "FG", "BG", "ST"}

NoForeground == \A p \in Pids : job[p] # "FG"

Become(p, s) == job' = [job EXCEPT ![p] = s]

Init == job = [p \in Pids |-> "none"]

StartFg(p) == job[p] = "none" /\ NoForeground /\ Become(p, "FG")
StartBg(p) == job[p] = "none" /\ NoForeground /\ Become(p, "BG")
CtrlZ(p)   == job[p] = "FG" /\ Become(p, "ST")
Fg(p)      == job[p] \in {"ST", "BG"} /\ NoForeground /\ Become(p, "FG")
Bg(p)      == job[p] = "ST" /\ NoForeground /\ Become(p, "BG")
End(p)     == job[p] # "none" /\ Become(p, "none")

Next == \E p \in Pids : StartFg(p) \/ StartBg(p) \/ CtrlZ(p) \/ Fg(p) \/ Bg(p) \/ End(p)

Spec == Init /\ [][Next]_job
=============================================================================
