--------------------------- MODULE JobListProofs ---------------------------
(* What the job list operators return and preserve, for any MAXJOBS and any  *)
(* set of pids.                                                              *)
EXTENDS JobList, WellFoundedInduction, TLAPS

\* Every nonempty set of naturals has a least element.
LEMMA LeastNatural ==
  ASSUME NEW S \in SUBSET Nat, S # {}
  PROVE  \E i \in S : \A j \in S : i <= j
<1>1. PICK i \in S : \A j \in S : ~ (<<j, i>> \in OpToRel(<, Nat))
  <2>1. IsWellFoundedOn(OpToRel(<, Nat), Nat)
    BY NatLessThanWellFounded
  <2> QED
    BY <2>1, WFMin
<1>2. \A j \in S : ~ (j < i)
  BY <1>1 DEF OpToRel
<1> QED
  BY <1>2

\* A scan of the job list returns a slot that passes its test.
LEMMA FirstInSet ==
  ASSUME NEW S \in SUBSET Slots, S # {}
  PROVE  First(S) \in S /\ First(S) \in Slots
<1>1. S \in SUBSET Nat
  BY JobListAssumption DEF Slots
<1>2. \E i \in S : \A j \in S : i <= j
  BY <1>1, LeastNatural
<1> QED
  BY <1>2 DEF First

\* Some slot has the largest job id, so maxjid is a job id of the list.
LEMMA LargestJid ==
  ASSUME NEW jobs \in [Slots -> Job]
  PROVE  \E i \in Slots : \A j \in Slots : jobs[j].jid <= jobs[i].jid
<1> DEFINE HasLargest(m) == \E i \in 1..m : \A j \in 1..m : jobs[j].jid <= jobs[i].jid
           Bad == {m \in 1..MAXJOBS : ~HasLargest(m)}
<1>0. \A i \in 1..MAXJOBS : jobs[i].jid \in Nat
  BY DEF Slots, Job
<1>a. MAXJOBS \in Nat /\ MAXJOBS \in 1..MAXJOBS /\ Bad \in SUBSET Nat
  BY JobListAssumption
<1>b. ASSUME Bad = {} PROVE HasLargest(MAXJOBS)
  BY <1>a, <1>b
<1>1. SUFFICES ASSUME Bad # {} PROVE FALSE
  BY <1>b DEF Slots
<1>2. PICK m \in Bad : \A n \in Bad : m <= n
  <2> HIDE DEF Bad
  <2> QED
    BY <1>a, <1>1, LeastNatural
<1>3. m \in 1..MAXJOBS /\ ~HasLargest(m)
  BY <1>2
<1>4. m # 1
  BY <1>0, <1>3
<1>5. m - 1 \in 1..MAXJOBS /\ m - 1 \notin Bad
  <2>1. m - 1 \in 1..MAXJOBS /\ ~ (m <= m - 1)
    BY <1>a, <1>3, <1>4
  <2> HIDE DEF Bad
  <2> QED
    BY <2>1, <1>2
<1>6. PICK i \in 1..(m - 1) : \A j \in 1..(m - 1) : jobs[j].jid <= jobs[i].jid
  BY <1>5
<1>7. \A j \in 1..m : j \in 1..(m - 1) \/ j = m
  BY <1>3, JobListAssumption
<1>8. i \in 1..m /\ m \in 1..m /\ \A j \in 1..m : jobs[j].jid \in Nat
  BY <1>0, <1>3, <1>6, JobListAssumption
<1>9. CASE jobs[m].jid <= jobs[i].jid
  BY <1>3, <1>6, <1>7, <1>8, <1>9
<1>10. CASE jobs[i].jid <= jobs[m].jid
  <2>1. \A j \in 1..m : jobs[j].jid <= jobs[m].jid
    BY <1>6, <1>7, <1>8, <1>10
  <2> QED
    BY <1>3, <1>8, <2>1
<1> QED
  BY <1>8, <1>9, <1>10

\* maxjid returns a natural number no job id of the list exceeds.
LEMMA MaxjidType ==
  ASSUME NEW jobs \in [Slots -> Job]
  PROVE  maxjid(jobs) \in Nat /\ \A j \in Slots : jobs[j].jid <= maxjid(jobs)
BY LargestJid DEF maxjid, Job

\* getjobpid and getjobjid return a slot that holds what was asked for.
LEMMA GetjobpidFinds ==
  ASSUME NEW jobs \in [Slots -> Job], NEW p, Listed(jobs, p)
  PROVE  getjobpid(jobs, p) \in Slots /\ jobs[getjobpid(jobs, p)].pid = p
BY FirstInSet DEF getjobpid, Listed, HoldingPid

\* getjobjid finds a job with the job id of any slot in use.
LEMMA GetjobjidFinds ==
  ASSUME NEW jobs \in [Slots -> Job], NEW j \in Nat, NEW i \in Slots,
         jobs[i].jid = j, j > 0
  PROVE  getjobjid(jobs, j) \in Slots /\ jobs[getjobjid(jobs, j)].jid = j
<1>1. HoldingJid(jobs, j) \in SUBSET Slots /\ HoldingJid(jobs, j) # {}
  BY DEF HoldingJid
<1>2. First(HoldingJid(jobs, j)) \in HoldingJid(jobs, j)
  BY <1>1, FirstInSet
<1> QED
  BY <1>1, <1>2 DEF getjobjid, HoldingJid

\* fgpid returns the pid of a slot in state FG, or pid 0.
LEMMA FgpidInForeground ==
  ASSUME NEW jobs \in [Slots -> Job], fgpid(jobs) # NoPid
  PROVE  fgpid(jobs) \in Pids
         /\ \E i \in Slots : jobs[i].pid = fgpid(jobs) /\ jobs[i].state = "FG"
<1>1. InForeground(jobs) # {} /\ InForeground(jobs) \in SUBSET Slots
  BY DEF fgpid, InForeground
<1>2. First(InForeground(jobs)) \in InForeground(jobs)
  BY <1>1, FirstInSet
<1> QED
  BY <1>1, <1>2 DEF fgpid, InForeground, Job

\* fgpid returns a process id or NoPid.
LEMMA FgpidType ==
  ASSUME NEW jobs \in [Slots -> Job]
  PROVE  fgpid(jobs) \in Pids \cup {NoPid}
BY FgpidInForeground

\* One free slot of list old is filled in list new; the others are the same.
Fills(old, new, job) ==
  \E i \in Slots : /\ old[i].pid = NoPid /\ new[i] = job
                 /\ \A j \in Slots \ {i} : new[j] = old[j]

\* addjob fills one free slot and touches no other.
LEMMA AddjobFills ==
  ASSUME NEW jobs \in [Slots -> Job], NEW next \in Nat, NEW p \in Pids,
         NEW s \in {"FG", "BG"}
  PROVE  /\ addjob(jobs, next, p, s) \in [Slots -> Job]
         /\ nextjidAfterAdd(jobs, next) \in Nat
         /\ \/ addjob(jobs, next, p, s) = jobs
            \/ Fills(jobs, addjob(jobs, next, p, s), [pid |-> p, jid |-> next, state |-> s])
<1> DEFINE i == First(FreeSlots(jobs))
<1>1. CASE FreeSlots(jobs) = {}
  BY <1>1 DEF addjob, nextjidAfterAdd
<1>2. CASE FreeSlots(jobs) # {}
  <2>1. i \in Slots /\ jobs[i].pid = NoPid
    BY <1>2, FirstInSet DEF FreeSlots, HoldingPid
  <2>2. [pid |-> p, jid |-> next, state |-> s] \in Job
    BY DEF Job, JobStates
  <2>3. addjob(jobs, next, p, s) = [jobs EXCEPT ![i] = [pid |-> p, jid |-> next, state |-> s]]
    BY <1>2 DEF addjob
  <2>4. nextjidAfterAdd(jobs, next) \in Nat
    BY <1>2 DEF nextjidAfterAdd
  <2> HIDE DEF i
  <2> QED
    BY <2>1, <2>2, <2>3, <2>4 DEF Fills
<1> QED
  BY <1>1, <1>2

\* deletejob clears one slot of the pid, if there is one, and touches no other.
LEMMA DeletejobClears ==
  ASSUME NEW jobs \in [Slots -> Job], NEW next \in Nat, NEW p
  PROVE  /\ deletejob(jobs, p) \in [Slots -> Job]
         /\ nextjidAfterDelete(jobs, next, p) \in Nat
         /\ \/ deletejob(jobs, p) = jobs /\ (p = NoPid \/ \A i \in Slots : jobs[i].pid # p)
            \/ \E i \in Slots :
                 /\ jobs[i].pid = p
                 /\ deletejob(jobs, p)[i] = clearjob
                 /\ \A j \in Slots \ {i} : deletejob(jobs, p)[j] = jobs[j]
<1> DEFINE i == getjobpid(jobs, p)
<1>1. clearjob \in Job
  BY DEF clearjob, Job, JobStates
<1>2. CASE ~Listed(jobs, p)
  BY <1>2 DEF deletejob, nextjidAfterDelete, Listed, HoldingPid
<1>3. CASE Listed(jobs, p)
  <2>1. i \in Slots /\ jobs[i].pid = p
    BY <1>3, GetjobpidFinds
  <2>2. deletejob(jobs, p) = [jobs EXCEPT ![i] = clearjob]
    BY <1>3 DEF deletejob
  <2> HIDE DEF i
  <2>3. deletejob(jobs, p) \in [Slots -> Job]
    BY <1>1, <2>1, <2>2
  <2>4. nextjidAfterDelete(jobs, next, p) \in Nat
    BY <1>3, <2>3, MaxjidType DEF nextjidAfterDelete
  <2> QED
    BY <2>1, <2>2, <2>3, <2>4
<1> QED
  BY <1>2, <1>3

\* job->state = s changes nothing but that state.
LEMMA WithStateSets ==
  ASSUME NEW jobs \in [Slots -> Job], NEW i \in Slots, NEW s \in JobStates
  PROVE  /\ WithState(jobs, i, s) \in [Slots -> Job]
         /\ WithState(jobs, i, s)[i].state = s
         /\ \A j \in Slots : /\ WithState(jobs, i, s)[j].pid = jobs[j].pid
                             /\ WithState(jobs, i, s)[j].jid = jobs[j].jid
                             /\ j # i => WithState(jobs, i, s)[j] = jobs[j]
BY DEF WithState, Job, JobStates
=============================================================================
