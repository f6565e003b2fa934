------------------------------ MODULE JobList ------------------------------
(* The job list of the tiny shell (tsh.c) as operators: an array of MAXJOBS *)
(* slots and the counter nextjid.  The command line a slot stores is left   *)
(* out: the shell only prints it.                                           *)
EXTENDS Integers

CONSTANTS MAXJOBS,   \* number of slots of job_list
          Pids,      \* process ids fork may return
          NoPid      \* pid 0: an empty slot, and "no such job"

ASSUME JobListAssumption ==
  /\ MAXJOBS \in Nat \ {0}
  /\ NoPid \notin Pids

Slots == 1..MAXJOBS

JobStates == {"UNDEF", "FG", "BG", "ST"}

\* struct job_t
Job == [pid : Pids \cup {NoPid}, jid : Nat, state : JobStates]

\* The lowest index of a set of slots: what a scan from slot 0 up finds first.
First(S) == CHOOSE i \in S : \A j \in S : i <= j

clearjob == [pid |-> NoPid, jid |-> 0, state |-> "UNDEF"]

initjobs == [i \in Slots |-> clearjob]

\* The slots that satisfy the test of one of the scans below.
HoldingPid(jobs, p) == {i \in Slots : jobs[i].pid = p}

HoldingJid(jobs, j) == {i \in Slots : jobs[i].jid = j}

InForeground(jobs) == {i \in Slots : jobs[i].state = "FG"}

FreeSlots(jobs) == HoldingPid(jobs, NoPid)

\* maxjid: a cleared slot has jid 0, so an empty list gives 0.
maxjid(jobs) == jobs[CHOOSE i \in Slots : \A j \in Slots : jobs[j].jid <= jobs[i].jid].jid

Listed(jobs, p) == p # NoPid /\ HoldingPid(jobs, p) # {}

\* getjobpid and getjobjid: the slot, or 0 for the null pointer.
getjobpid(jobs, p) == IF Listed(jobs, p) THEN First(HoldingPid(jobs, p)) ELSE 0

getjobjid(jobs, j) ==
  IF j >= 1 /\ HoldingJid(jobs, j) # {} THEN First(HoldingJid(jobs, j)) ELSE 0

pid2jid(jobs, p) == IF Listed(jobs, p) THEN jobs[getjobpid(jobs, p)].jid ELSE 0

\* Mutant: the first job, whatever its state.
fgpid_any_state(jobs) ==
  IF FreeSlots(jobs) = Slots THEN NoPid ELSE jobs[First(Slots \ FreeSlots(jobs))].pid

\* fgpid: the pid of the first slot in state FG, even if that slot is empty.
fgpid(jobs) == IF InForeground(jobs) = {} THEN NoPid ELSE jobs[First(InForeground(jobs))].pid

\* addjob: the list and the counter it leaves; a full list is left as it is.
addjob(jobs, next, p, s) ==
  IF FreeSlots(jobs) = {} THEN jobs
  ELSE [jobs EXCEPT ![First(FreeSlots(jobs))] = [pid |-> p, jid |-> next, state |-> s]]

nextjidAfterAdd(jobs, next) ==
  IF FreeSlots(jobs) = {} THEN next
  ELSE IF next + 1 > MAXJOBS THEN 1 ELSE next + 1

\* deletejob: the list and the counter it leaves; an unknown pid changes nothing.
deletejob(jobs, p) ==
  IF Listed(jobs, p) THEN [jobs EXCEPT ![getjobpid(jobs, p)] = clearjob] ELSE jobs

\* Mutant: the largest job id itself is given out again.
nextjidAfterDelete_largest(jobs, next, p) ==
  IF Listed(jobs, p) THEN maxjid(deletejob(jobs, p)) ELSE next

nextjidAfterDelete(jobs, next, p) ==
  IF Listed(jobs, p) THEN maxjid(deletejob(jobs, p)) + 1 ELSE next

\* job->state = s, for the job in slot i.
WithState(jobs, i, s) == [jobs EXCEPT ![i].state = s]
=============================================================================
