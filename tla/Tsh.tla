-------------------------------- MODULE Tsh --------------------------------
(* The tiny shell: its main loop (eval, exec_others, exec_builtin and        *)
(* exec_bgfg), its three signal handlers, and the children and the kernel as *)
(* far as the shell can tell.  Handlers run on top of the main loop and of   *)
(* each other; a handler's own signal is blocked while it runs, every other  *)
(* one can interrupt it (Signal leaves sa_mask empty).                       *)
EXTENDS JobList, FiniteSets

CONSTANTS Commands,     \* kinds of command lines the user types
          Resumable,    \* states of the jobs the user names in fg and bg
          Keys,         \* keyboard signals the user types: a subset of {"INT", "TSTP"}
          Outside,      \* what other processes may send a child: a subset of {"stop", "kill"}
          GarbageMasks, \* what the uninitialized mask of exec_bgfg may hold
          JidBound      \* bound of this model on nextjid

Sigs == {"CHLD", "INT", "TSTP"}

ASSUME TshAssumption ==
  /\ Commands \subseteq {"run", "run&", "fg", "bg", "unknown", "quit"}
  /\ Resumable \subseteq {"FG", "BG", "ST"}
  /\ Keys \subseteq {"INT", "TSTP"}
  /\ Outside \subseteq {"stop", "kill"}
  /\ GarbageMasks \subseteq SUBSET Sigs
  /\ JidBound \in Nat

VARIABLES
  jobs, nextjid,      \* job_list and the next job id
  pc,                 \* where the main loop is
  pid, slot, bg,      \* its locals: pid, job (0 for NULL), bg
  prev,               \* the mask exec_bgfg passes to sigsuspend
  depth,              \* depth[s]: nesting level of the running handler of s, 0 if none
  hpid, hstat,        \* pid in a handler's hands; what waitpid said of it
  pending,            \* signals pending for the shell
  proc,               \* proc[p]: life of child p
  csig                \* csig[p]: keyboard signals pending for child p

mainVars    == <<pc, pid, slot, bg, prev>>
jobVars     == <<jobs, nextjid>>
handlerVars == <<depth, hpid, hstat>>
childVars   == <<proc, csig>>
vars == <<jobs, nextjid, pc, pid, slot, bg, prev, depth, hpid, hstat, pending, proc, csig>>

PCs == {"prompt", "add", "waitfg", "suspend",
        "readpid", "setstate", "sendcont", "fgcheck", "fgcall", "fgsuspend",
        "exited", "crashed"}

(* A child is none (never forked or already collected), forked (still in the *)
(* shell's process group), setup (own group, but with the shell's handlers   *)
(* until execve resets them), running, stopping (stopped, not yet reported   *)
(* to waitpid), stopped (reported) or zombie.                                *)
ProcStates == {"none", "forked", "setup", "running", "stopping", "stopped", "zombie"}

Alive == pc \notin {"exited", "crashed"}

\* Mutants: signals are unblocked before addjob; sigsuspend is given a mask that
\* blocks everything, or the keyboard.
MaskWithoutAdd  == CASE pc = "waitfg" -> Sigs [] pc = "fgsuspend" -> prev [] OTHER -> {}
MaskInSuspend   == CASE pc \in {"add", "waitfg", "suspend"} -> Sigs
                     [] pc = "fgsuspend" -> prev [] OTHER -> {}
MaskKeys        == CASE pc \in {"add", "waitfg"} -> Sigs [] pc = "suspend" -> {"INT", "TSTP"}
                     [] pc = "fgsuspend" -> prev [] OTHER -> {}

\* The mask of the main loop: everything from sigfillset to the wait loop's end.
MainMask == CASE pc \in {"add", "waitfg"} -> Sigs
              [] pc = "fgsuspend"         -> prev
              [] OTHER                    -> {}

MainRuns == Alive /\ \A s \in Sigs : depth[s] = 0

Runs(s) == Alive /\ depth[s] > 0 /\ \A t \in Sigs : depth[t] <= depth[s]

\* Back to the read/eval loop, its locals dead and the empty mask restored.
BackToPrompt == pc' = "prompt" /\ pid' = NoPid /\ slot' = 0 /\ bg' = FALSE /\ prev' = {}

Goto(where) == pc' = where /\ UNCHANGED <<pid, slot, bg, prev>>

Init ==
  /\ jobs = initjobs /\ nextjid = 1
  /\ pc = "prompt" /\ pid = NoPid /\ slot = 0 /\ bg = FALSE /\ prev = {}
  /\ depth = [s \in Sigs |-> 0] /\ hpid = [s \in Sigs |-> NoPid] /\ hstat = "dead"
  /\ pending = {}
  /\ proc = [p \in Pids |-> "none"] /\ csig = [p \in Pids |-> {}]
-----------------------------------------------------------------------------
(* eval and exec_others.                                                     *)

\* Block every signal, then fork.
Fork(p, b) ==
  /\ MainRuns /\ pc = "prompt" /\ (IF b THEN "run&" ELSE "run") \in Commands
  /\ nextjid <= JidBound /\ proc[p] = "none"
  /\ proc' = [proc EXCEPT ![p] = "forked"]
  /\ pc' = "add" /\ pid' = p /\ bg' = b
  /\ UNCHANGED <<slot, prev, jobVars, handlerVars, pending, csig>>

\* Mutant: every job is added as a foreground job.
RunAddAsFg ==
  /\ MainRuns /\ pc = "add"
  /\ jobs' = addjob(jobs, nextjid, pid, "FG")
  /\ nextjid' = nextjidAfterAdd(jobs, nextjid)
  /\ IF bg THEN BackToPrompt ELSE Goto("waitfg")
  /\ UNCHANGED <<handlerVars, pending, childVars>>

\* addjob; a full list goes unnoticed.
RunAdd ==
  /\ MainRuns /\ pc = "add"
  /\ jobs' = addjob(jobs, nextjid, pid, IF bg THEN "BG" ELSE "FG")
  /\ nextjid' = nextjidAfterAdd(jobs, nextjid)
  /\ IF bg THEN BackToPrompt ELSE Goto("waitfg")
  /\ UNCHANGED <<handlerVars, pending, childVars>>

\* while (pid == fgpid(job_list)) sigsuspend(&prev)
WaitFg ==
  /\ MainRuns /\ pc = "waitfg"
  /\ IF pid = fgpid(jobs) THEN Goto("suspend") ELSE BackToPrompt
  /\ UNCHANGED <<jobVars, handlerVars, pending, childVars>>
-----------------------------------------------------------------------------
(* exec_builtin and exec_bgfg, which run with no signal blocked.             *)

\* fg %jid, bg %jid: getjobjid, with pid = job->pid still to come.
BgFgJid(b, i) ==
  /\ MainRuns /\ pc = "prompt" /\ (IF b THEN "bg" ELSE "fg") \in Commands
  /\ jobs[i].jid > 0 /\ jobs[i].state \in Resumable
  /\ slot' = getjobjid(jobs, jobs[i].jid)
  /\ bg' = b /\ pc' = "readpid" /\ prev' \in GarbageMasks
  /\ UNCHANGED <<pid, jobVars, handlerVars, pending, childVars>>

BgFgReadPid ==
  /\ MainRuns /\ pc = "readpid"
  /\ pid' = jobs[slot].pid /\ pc' = "setstate"
  /\ UNCHANGED <<slot, bg, prev, jobVars, handlerVars, pending, childVars>>

\* fg pid, bg pid: getjobpid of the pid the user typed.
BgFgPid(b, p) ==
  /\ MainRuns /\ pc = "prompt" /\ (IF b THEN "bg" ELSE "fg") \in Commands
  /\ Listed(jobs, p) /\ jobs[getjobpid(jobs, p)].state \in Resumable
  /\ slot' = getjobpid(jobs, p) /\ pid' = p
  /\ bg' = b /\ pc' = "setstate" /\ prev' \in GarbageMasks
  /\ UNCHANGED <<jobVars, handlerVars, pending, childVars>>

\* fg or bg of a job that is not listed, or of none: a null dereference.
BgFgUnknown ==
  /\ MainRuns /\ pc = "prompt" /\ "unknown" \in Commands
  /\ Goto("crashed")
  /\ UNCHANGED <<jobVars, handlerVars, pending, childVars>>

\* job->state = FG or BG, whatever the slot holds by now.
BgFgSetState ==
  /\ MainRuns /\ pc = "setstate"
  /\ jobs' = WithState(jobs, slot, IF bg THEN "BG" ELSE "FG")
  /\ Goto("sendcont")
  /\ UNCHANGED <<nextjid, handlerVars, pending, childVars>>

(* kill(pid, SIGCONT): a stopped child runs again and its pending stops are  *)
(* dropped; the kernel tells the shell it continued.  Pid 0 is the shell's   *)
(* own group, where nothing is stopped.                                      *)
BgFgSendCont ==
  /\ MainRuns /\ pc = "sendcont"
  /\ IF pid \in Pids
     THEN /\ csig' = [csig EXCEPT ![pid] = @ \ {"TSTP"}]
          /\ IF proc[pid] \in {"stopping", "stopped"}
             THEN proc' = [proc EXCEPT ![pid] = "running"] /\ pending' = pending \cup {"CHLD"}
             ELSE UNCHANGED <<proc, pending>>
     ELSE UNCHANGED <<proc, csig, pending>>
  /\ IF bg THEN BackToPrompt ELSE Goto("fgcheck")
  /\ UNCHANGED <<jobVars, handlerVars>>

\* The test of the fg wait loop, and then the call of sigsuspend.
FgCheck ==
  /\ MainRuns /\ pc = "fgcheck"
  /\ IF pid = fgpid(jobs) THEN Goto("fgcall") ELSE BackToPrompt
  /\ UNCHANGED <<jobVars, handlerVars, pending, childVars>>

FgCall ==
  /\ MainRuns /\ pc = "fgcall" /\ Goto("fgsuspend")
  /\ UNCHANGED <<jobVars, handlerVars, pending, childVars>>

\* quit or end of file at the prompt, SIGQUIT wherever it is not blocked.
Exit ==
  /\ Alive /\ pc \notin {"add", "waitfg"} /\ "quit" \in Commands /\ Goto("exited")
  /\ UNCHANGED <<jobVars, handlerVars, pending, childVars>>
-----------------------------------------------------------------------------
(* Signals to the shell and their handlers.                                  *)

Type(s) ==
  /\ Alive /\ s \in Keys /\ s \notin pending
  /\ pending' = pending \cup {s}
  /\ UNCHANGED <<jobVars, mainVars, handlerVars, childVars>>

\* Mutant: a handler's own signal is not blocked while it runs (SA_NODEFER).
DeliverNested(s) ==
  /\ Alive /\ s \in pending /\ s \notin MainMask
  /\ pending' = pending \ {s}
  /\ depth' = [depth EXCEPT ![s] = 1 + Cardinality({t \in Sigs : depth[t] > 0})]
  /\ UNCHANGED <<hpid, hstat, jobVars, mainVars, childVars>>

\* The kernel starts the handler of a pending signal that nothing blocks.
Deliver(s) ==
  /\ Alive /\ s \in pending /\ s \notin MainMask /\ depth[s] = 0
  /\ pending' = pending \ {s}
  /\ depth' = [depth EXCEPT ![s] = 1 + Cardinality({t \in Sigs : depth[t] > 0})]
  /\ UNCHANGED <<hpid, hstat, jobVars, mainVars, childVars>>

\* Mutant: sigsuspend is called once, not in a loop.
ReturnToPrompt(s) ==
  /\ depth' = [depth EXCEPT ![s] = 0]
  /\ IF pc \in {"suspend", "fgsuspend"} /\ \A t \in Sigs \ {s} : depth[t] = 0
     THEN BackToPrompt
     ELSE UNCHANGED mainVars

\* The last handler to return ends a sigsuspend and restores the mask before it.
Return(s) ==
  /\ depth' = [depth EXCEPT ![s] = 0]
  /\ IF \A t \in Sigs \ {s} : depth[t] = 0
     THEN CASE pc = "suspend"   -> Goto("waitfg")
            [] pc = "fgsuspend" -> Goto("fgcheck")
            [] OTHER            -> UNCHANGED mainVars
     ELSE UNCHANGED mainVars

\* waitpid(-1, &status, WNOHANG|WUNTRACED) takes one child that has news ...
ChldWait(p) ==
  /\ Runs("CHLD") /\ hpid["CHLD"] = NoPid
  /\ hpid' = [hpid EXCEPT !["CHLD"] = p]
  /\ \/ /\ proc[p] = "zombie"
        /\ proc' = [proc EXCEPT ![p] = "none"] /\ hstat' = "dead"
     \/ /\ proc[p] = "stopping"
        /\ proc' = [proc EXCEPT ![p] = "stopped"] /\ hstat' = "stopped"
  /\ UNCHANGED <<depth, csig, jobVars, mainVars, pending>>

\* ... or the loop ends.
ChldDone ==
  /\ Runs("CHLD") /\ hpid["CHLD"] = NoPid
  /\ \A p \in Pids : proc[p] \notin {"zombie", "stopping"}
  /\ Return("CHLD")
  /\ UNCHANGED <<hpid, hstat, jobVars, pending, childVars>>

\* Mutant: waitpid is called once for each SIGCHLD.
ChldDeleteOnce ==
  /\ Runs("CHLD") /\ hpid["CHLD"] # NoPid /\ hstat = "dead"
  /\ jobs' = deletejob(jobs, hpid["CHLD"])
  /\ nextjid' = nextjidAfterDelete(jobs, nextjid, hpid["CHLD"])
  /\ hpid' = [hpid EXCEPT !["CHLD"] = NoPid]
  /\ Return("CHLD")
  /\ UNCHANGED <<hstat, pending, childVars>>

\* deletejob for a child that ended by exit or by signal.
ChldDelete ==
  /\ Runs("CHLD") /\ hpid["CHLD"] # NoPid /\ hstat = "dead"
  /\ jobs' = deletejob(jobs, hpid["CHLD"])
  /\ nextjid' = nextjidAfterDelete(jobs, nextjid, hpid["CHLD"])
  /\ hpid' = [hpid EXCEPT !["CHLD"] = NoPid]
  /\ UNCHANGED <<depth, hstat, mainVars, pending, childVars>>

\* Mutants: a stopped job is deleted, or listed as running.
ChldStopDeletes ==
  /\ Runs("CHLD") /\ hpid["CHLD"] # NoPid /\ hstat = "stopped"
  /\ jobs' = deletejob(jobs, hpid["CHLD"])
  /\ hpid' = [hpid EXCEPT !["CHLD"] = NoPid] /\ hstat' = "dead"
  /\ UNCHANGED <<depth, nextjid, mainVars, pending, childVars>>

ChldStopAsBg ==
  /\ Runs("CHLD") /\ hpid["CHLD"] # NoPid /\ hstat = "stopped"
  /\ jobs' = WithState(jobs, getjobpid(jobs, hpid["CHLD"]), "BG")
  /\ hpid' = [hpid EXCEPT !["CHLD"] = NoPid] /\ hstat' = "dead"
  /\ UNCHANGED <<depth, nextjid, mainVars, pending, childVars>>

\* getjobpid(...)->state = ST for a stopped one, a null dereference if unlisted.
ChldStop ==
  /\ Runs("CHLD") /\ hpid["CHLD"] # NoPid /\ hstat = "stopped"
  /\ IF Listed(jobs, hpid["CHLD"])
     THEN /\ jobs' = WithState(jobs, getjobpid(jobs, hpid["CHLD"]), "ST")
          /\ UNCHANGED mainVars
     ELSE Goto("crashed") /\ UNCHANGED jobs
  /\ hpid' = [hpid EXCEPT !["CHLD"] = NoPid] /\ hstat' = "dead"
  /\ UNCHANGED <<depth, nextjid, pending, childVars>>

\* sigint_handler and sigtstp_handler: fgpid, and return if there is none ...
KeyFgpid(s) ==
  /\ s \in {"INT", "TSTP"} /\ Runs(s) /\ hpid[s] = NoPid
  /\ IF fgpid(jobs) = NoPid
     THEN Return(s) /\ UNCHANGED hpid
     ELSE hpid' = [hpid EXCEPT ![s] = fgpid(jobs)] /\ UNCHANGED <<depth, mainVars>>
  /\ UNCHANGED <<hstat, jobVars, pending, childVars>>

\* ... then kill(-fg_pid, sig), which finds no group before the child's setpgid.
KeyKill(s) ==
  /\ s \in {"INT", "TSTP"} /\ Runs(s) /\ hpid[s] # NoPid
  /\ csig' = [csig EXCEPT ![hpid[s]] =
       IF proc[hpid[s]] \in {"running", "stopping", "stopped"} THEN @ \cup {s} ELSE @]
  /\ hpid' = [hpid EXCEPT ![s] = NoPid]
  /\ Return(s)
  /\ UNCHANGED <<hstat, jobVars, pending, proc>>
-----------------------------------------------------------------------------
(* The children and the kernel's news of them.                               *)

News == pending' = pending \cup {"CHLD"}

ChildSetpgid(p) ==
  /\ proc[p] = "forked" /\ proc' = [proc EXCEPT ![p] = "setup"]
  /\ UNCHANGED <<csig, pending, jobVars, mainVars, handlerVars>>

\* Unblock, redirect and execve: until then a ctrl-c ends in a copied handler.
ChildExec(p) ==
  /\ proc[p] = "setup" /\ proc' = [proc EXCEPT ![p] = "running"]
  /\ UNCHANGED <<csig, pending, jobVars, mainVars, handlerVars>>

\* The program ends, or redirect or execve failed and the child exits.
ChildExit(p) ==
  /\ proc[p] \in {"setup", "running"}
  /\ proc' = [proc EXCEPT ![p] = "zombie"] /\ csig' = [csig EXCEPT ![p] = {}]
  /\ News /\ UNCHANGED <<jobVars, mainVars, handlerVars>>

\* Default actions: SIGINT ends the child, SIGTSTP stops it.
ChildTakesInt(p) ==
  /\ proc[p] = "running" /\ "INT" \in csig[p]
  /\ proc' = [proc EXCEPT ![p] = "zombie"] /\ csig' = [csig EXCEPT ![p] = {}]
  /\ News /\ UNCHANGED <<jobVars, mainVars, handlerVars>>

ChildTakesTstp(p) ==
  /\ proc[p] = "running" /\ "TSTP" \in csig[p]
  /\ proc' = [proc EXCEPT ![p] = "stopping"]
  /\ csig' = [csig EXCEPT ![p] = @ \ {"TSTP"}]
  /\ News /\ UNCHANGED <<jobVars, mainVars, handlerVars>>

\* Another process, or the terminal (SIGTTIN), stops a program or kills a child.
OutsideStop(p) ==
  /\ "stop" \in Outside /\ proc[p] = "running"
  /\ proc' = [proc EXCEPT ![p] = "stopping"]
  /\ News /\ UNCHANGED <<csig, jobVars, mainVars, handlerVars>>

OutsideKill(p) ==
  /\ "kill" \in Outside /\ proc[p] \in {"forked", "setup", "running", "stopping", "stopped"}
  /\ proc' = [proc EXCEPT ![p] = "zombie"] /\ csig' = [csig EXCEPT ![p] = {}]
  /\ News /\ UNCHANGED <<jobVars, mainVars, handlerVars>>
-----------------------------------------------------------------------------
MainWaits == RunAdd \/ WaitFg

MainResumes == BgFgReadPid \/ BgFgSetState \/ BgFgSendCont \/ FgCheck \/ FgCall

Command ==
  \/ \E p \in Pids, b \in BOOLEAN : Fork(p, b) \/ BgFgPid(b, p)
  \/ \E i \in Slots, b \in BOOLEAN : BgFgJid(b, i)
  \/ BgFgUnknown
  \/ Exit

ChldStep == (\E p \in Pids : ChldWait(p)) \/ ChldDone \/ ChldDelete \/ ChldStop

KeyStep(s) == KeyFgpid(s) \/ KeyKill(s)

Starts(p) == ChildSetpgid(p) \/ ChildExec(p)

TakesKey(p) == ChildTakesInt(p) \/ ChildTakesTstp(p)

Child(p) == Starts(p) \/ TakesKey(p) \/ ChildExit(p) \/ OutsideStop(p) \/ OutsideKill(p)

Next ==
  \/ Command \/ MainWaits \/ MainResumes
  \/ ChldStep
  \/ \E s \in Sigs : Type(s) \/ Deliver(s) \/ KeyStep(s)
  \/ \E p \in Pids : Child(p)

Spec == Init /\ [][Next]_vars

(* The scheduler runs the shell and its children.  Keystrokes interrupt the  *)
(* shell but leave it time between two of them, and sigsuspend returns only  *)
(* after every unblocked pending signal has been handled: neither the code a *)
(* handler interrupts nor a pending signal waits for ever (strong fairness). *)
(* No child need ever exit, and no one need ever type.                       *)
Fairness ==
  /\ SF_vars(MainWaits) /\ SF_vars(MainResumes) /\ SF_vars(ChldStep)
  /\ \A s \in {"INT", "TSTP"} : SF_vars(KeyStep(s))
  /\ \A s \in Sigs : SF_vars(Deliver(s))
  /\ \A p \in Pids : WF_vars(Starts(p)) /\ WF_vars(TakesKey(p))

FairSpec == Spec /\ Fairness
-----------------------------------------------------------------------------
(* Correctness.                                                              *)

TypeOK ==
  /\ jobs \in [Slots -> Job] /\ nextjid \in Nat
  /\ pc \in PCs /\ pid \in Pids \cup {NoPid} /\ slot \in 0..MAXJOBS
  /\ bg \in BOOLEAN /\ prev \in SUBSET Sigs
  /\ depth \in [Sigs -> 0..3] /\ hpid \in [Sigs -> Pids \cup {NoPid}]
  /\ hstat \in {"dead", "stopped"} /\ pending \in SUBSET Sigs
  /\ proc \in [Pids -> ProcStates] /\ csig \in [Pids -> SUBSET {"INT", "TSTP"}]

\* Child p has been taken from the kernel as dead, and deletejob is next.
Collecting(p) == hpid["CHLD"] = p /\ hstat = "dead"

(* Every pid in the job list is a child the kernel still knows, unless the   *)
(* SIGCHLD handler is between waitpid and deletejob: no signal and no bg or  *)
(* fg can reach a process the shell has already collected.                   *)
ListedAreChildren ==
  \A i \in Slots : LET p == jobs[i].pid IN
    p # NoPid => proc[p] # "none" \/ Collecting(p)

\* No process occupies two slots, so deletejob leaves no trace of it behind.
OneSlotPerPid ==
  \A i, j \in Slots : jobs[i].pid = jobs[j].pid /\ jobs[i].pid # NoPid => i = j

(* Conversely the shell knows every child: one that is not listed is about   *)
(* to be added.  (It takes a list with room for every child.)                *)
ChildrenAreListed ==
  \A p \in Pids : proc[p] # "none" => Listed(jobs, p) \/ (pc = "add" /\ pid = p)

\* At most one job is in state FG.
AtMostOneFG ==
  \A i, j \in InForeground(jobs) : jobs[i].pid # NoPid /\ jobs[j].pid # NoPid => i = j

(* No two jobs have the same job id, so the %jid of fg and bg means one job. *)
(* (It takes a nextjid that does not wrap: addjob does not look whether the  *)
(* job id 1 is still in use.)                                                *)
JobIdsDistinct ==
  \A i, j \in Slots : jobs[i].pid # NoPid /\ jobs[i].jid = jobs[j].jid => i = j

(* Once the shell has handled every signal and is back at its prompt, the    *)
(* list says what the kernel says: Stopped for the children that are         *)
(* stopped, no one in the foreground, Running for the others.                *)
QuietListing ==
  pc = "prompt" /\ MainRuns /\ pending = {} =>
    \A i \in Slots : LET p == jobs[i].pid IN
      p # NoPid => IF proc[p] = "stopped" THEN jobs[i].state = "ST"
                   ELSE jobs[i].state = "BG" /\ proc[p] \in {"forked", "setup", "running"}

(* A ctrl-c or ctrl-z never reaches a background job: a keyboard signal is   *)
(* sent to a listed process only while its job is in the foreground, or just *)
(* stopped, whatever handlers ran between fgpid and kill.                    *)
BackgroundSpared ==
  [][\A p \in Pids : ~(csig'[p] \subseteq csig[p])
       => \A i \in Slots : jobs[i].pid = p => jobs[i].state # "BG"]_vars

(* eval waits for a foreground job: it goes back to the prompt only when the *)
(* job has been collected or is listed as stopped.                           *)
ForegroundWaited ==
  [][pc = "waitfg" /\ pc' = "prompt" =>
       proc[pid] = "none" \/ (Listed(jobs, pid) /\ jobs[getjobpid(jobs, pid)].state = "ST")]_vars

(* The inductive invariant behind the safety properties: the handlers that   *)
(* do not run hold no pid, none runs while the main loop blocks all signals, *)
(* a child about to be added is new to the list, and the process a keyboard  *)
(* handler is about to signal is not a background job.                       *)
HandlersNest ==
  /\ \A s \in Sigs : depth[s] = 0 => hpid[s] = NoPid
  /\ pc \in {"add", "waitfg"} => \A s \in Sigs : depth[s] = 0

AddIsNew ==
  pc = "add" => pid \in Pids /\ proc[pid] # "none" /\ \A i \in Slots : jobs[i].pid # pid

SlotInUse == pc \in {"readpid", "setstate"} => slot \in Slots

KeyTargets ==
  \A s \in {"INT", "TSTP"}, i \in Slots :
    hpid[s] # NoPid /\ jobs[i].pid = hpid[s] => jobs[i].state # "BG"

IInv ==
  /\ TypeOK /\ HandlersNest /\ AddIsNew /\ SlotInUse /\ KeyTargets
  /\ ListedAreChildren /\ OneSlotPerPid

\* The shell implements the job control its header comment describes.
jobOf == [p \in Pids |-> IF Listed(jobs, p) THEN jobs[getjobpid(jobs, p)].state ELSE "none"]

JC == INSTANCE JobControl WITH job <- jobOf

ImplementsJobControl == JC!Spec

WaitsFor(p) == pid = p /\ pc \in {"waitfg", "suspend"}

ResumesFg(p) == pid = p /\ pc \in {"fgcheck", "fgcall", "fgsuspend"}

\* The shell takes commands again, or is gone.
Returned == pc \in {"prompt", "exited", "crashed"}

\* The child that terminates is collected, however many others it competes with.
ZombiesCollected == \A p \in Pids : proc[p] = "zombie" ~> proc[p] = "none" \/ ~Alive

\* A foreground command that ends gives the prompt back.
ForegroundEnds == \A p \in Pids : WaitsFor(p) /\ proc[p] = "zombie" ~> Returned

\* fg gives the prompt back when its job ends.
FgEnds == \A p \in Pids : ResumesFg(p) /\ proc[p] = "zombie" ~> Returned

\* ctrl-c and ctrl-z get the prompt back from a foreground program that has started.
KeysWork ==
  \A p \in Pids :
    WaitsFor(p) /\ proc[p] = "running" /\ pending \cap {"INT", "TSTP"} # {} ~> Returned
=============================================================================
