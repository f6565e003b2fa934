------------------------ MODULE TshForegroundProofs ------------------------
(* The shell implements the job control of its header comment, and what it   *)
(* lists at its prompt is what the kernel knows, for any number of children  *)
(* and slots - when it is used in an orderly way.                            *)
EXTENDS TshProofs

(* Orderly use: the user names only stopped jobs in fg and bg, no other      *)
(* process stops or kills a child, and nextjid does not wrap, for which a    *)
(* job is started only while fewer than MAXJOBS job ids are given out.       *)
Orderly == Resumable \subseteq {"ST"} /\ Outside = {} /\ JidBound < MAXJOBS

Busy(i) == jobs[i].pid # NoPid

\* Free slots are clear; jobs have job ids of their own, all below nextjid.
JobsWell ==
  /\ \A i \in Slots : IF Busy(i) THEN jobs[i].state # "UNDEF" /\ jobs[i].jid \in 1..JidBound
                                     /\ jobs[i].jid < nextjid
                      ELSE jobs[i] = clearjob
  /\ \A i, j \in Slots : Busy(i) /\ jobs[i].jid = jobs[j].jid => i = j
  /\ nextjid \in 1..(JidBound + 1) /\ (pc = "add" => nextjid <= JidBound)

\* The main loop waits for the job in the foreground, or is about to.
FgWaitedFor ==
  \A i \in Slots : jobs[i].state = "FG" =>
    /\ jobs[i].pid = pid
    /\ pc \in {"waitfg", "suspend", "sendcont", "fgcheck", "fgcall", "fgsuspend", "exited"}

\* The child eval waits for is in the foreground or stopped.
WaitsForFg ==
  pc \in {"waitfg", "suspend"} =>
    pid \in Pids /\ \A i \in Slots : jobs[i].pid = pid => jobs[i].state \in {"FG", "ST"}

\* What fg and bg have found is a stopped job, until they set its state.
Resumed ==
  /\ pc \in {"readpid", "setstate"} => slot \in Slots /\ Busy(slot) /\ jobs[slot].state = "ST"
  /\ pc = "setstate" => pid = jobs[slot].pid
  /\ pc = "sendcont" =>
       /\ slot \in Slots /\ pid \in Pids /\ jobs[slot].pid = pid
       /\ proc[pid] = "stopped" /\ hpid["CHLD"] # pid
       /\ jobs[slot].state = IF bg THEN "BG" ELSE "FG"

\* The SIGCHLD handler knows that child p is stopped.
InHands(p) == hpid["CHLD"] = p /\ hstat = "stopped"

(* A job is listed as stopped exactly if its child is and waitpid has told,  *)
(* but for the moment before the handler or the SIGCONT of fg and bg; and    *)
(* none but the foreground job stops.                                        *)
StopsListed ==
  /\ \A i \in Slots : jobs[i].state = "ST" => proc[jobs[i].pid] = "stopped"
  /\ \A p \in Pids : proc[p] = "stopped" =>
       \/ \E i \in Slots : jobs[i].pid = p /\ jobs[i].state = "ST"
       \/ InHands(p) \/ (pc = "sendcont" /\ pid = p)
  /\ \A p \in Pids : InHands(p) => proc[p] = "stopped"
  /\ \A i \in Slots : InHands(jobs[i].pid) => jobs[i].state = "FG"
  /\ \A i \in Slots : Busy(i) /\ proc[jobs[i].pid] = "stopping" => jobs[i].state = "FG"

\* Keys reach programs only, and the stop of a ctrl-z waits for no background job,
\* unless bg is about to discard it.
KeysPending ==
  /\ \A p \in Pids : csig[p] # {} => proc[p] \in {"running", "stopping", "stopped"}
  /\ \A i \in Slots : Busy(i) /\ jobs[i].state = "BG" /\ "TSTP" \in csig[jobs[i].pid]
       => pc = "sendcont" /\ pid = jobs[i].pid

\* No key has reached a child that is not listed yet.
NewUntouched == pc = "add" => csig[pid] = {} /\ proc[pid] # "stopping"

\* The SIGCHLD handler runs or will, as long as there is news.
NewsPending ==
  (\E p \in Pids : proc[p] \in {"zombie", "stopping"}) => "CHLD" \in pending \/ depth["CHLD"] > 0

LiveInv == WaitsForFg /\ Resumed /\ StopsListed /\ KeysPending /\ NewUntouched /\ NewsPending

OrderlyInv == JobsWell /\ FgWaitedFor /\ (Alive => LiveInv)

-----------------------------------------------------------------------------
\* While the main loop is in eval's addjob, a slot is free: the jobs of the list have
\* distinct job ids, and fewer than MAXJOBS are given out.
LEMMA OrderlyFreeSlot ==
  ASSUME Orderly, TypeOK, JobsWell, pc = "add"
  PROVE  FreeSlots(jobs) # {}
<1> SUFFICES ASSUME FreeSlots(jobs) = {} PROVE FALSE
  OBVIOUS
<1> DEFINE jidIn == [i \in Slots |-> jobs[i].jid]
           Jids  == 1..JidBound
<1>1. \A i \in Slots : Busy(i)
  BY DEF FreeSlots, HoldingPid, Busy
<1>2. jidIn \in [Slots -> Jids]
  BY <1>1 DEF JobsWell
<1>3. IsFiniteSet(Jids) /\ Cardinality(Jids) = JidBound
  BY TshAssumption, FS_Interval
<1>4. IsFiniteSet(Slots) /\ Cardinality(Slots) = MAXJOBS
  BY JobListAssumption, FS_Interval DEF Slots
<1>5. Cardinality(Jids) < Cardinality(Slots)
  BY <1>3, <1>4 DEF Orderly
<1>6. PICK i, j \in Slots : i # j /\ jidIn[i] = jidIn[j]
  <2> HIDE DEF jidIn, Jids
  <2> QED
    BY <1>2, <1>3, <1>4, <1>5, FS_PigeonHole
<1> QED
  BY <1>1, <1>6 DEF JobsWell

\* With the job in the foreground in the main loop's hands, fgpid finds that job.
LEMMA FgpidIs ==
  ASSUME TypeOK, FgWaitedFor
  PROVE  (\E i \in Slots : jobs[i].state = "FG") => fgpid(jobs) = pid
<1> SUFFICES ASSUME InForeground(jobs) # {} PROVE fgpid(jobs) = pid
  BY DEF InForeground
<1>1. First(InForeground(jobs)) \in InForeground(jobs)
  BY FirstInSet DEF InForeground
<1> QED
  BY <1>1 DEF fgpid, InForeground, FgWaitedFor

\* Return moves the main loop out of its sigsuspend only.
LEMMA ReturnEnds ==
  ASSUME NEW s \in Sigs, Return(s)
  PROVE  /\ UNCHANGED <<pid, slot, bg, prev>>
         /\ \/ pc' = pc
            \/ pc = "suspend" /\ pc' = "waitfg"
            \/ pc = "fgsuspend" /\ pc' = "fgcheck"
BY DEF Return, Goto, mainVars

\* The start: an empty list, no child, no signal.
LEMMA InitOrderly == Init => OrderlyInv
<1> SUFFICES ASSUME Init PROVE JobsWell /\ FgWaitedFor /\ LiveInv
  BY DEF OrderlyInv
<1>1. \A i \in Slots : jobs[i] = clearjob /\ ~Busy(i)
  BY DEF Init, initjobs, Busy, clearjob
<1>2. JobsWell
  BY <1>1, TshAssumption DEF Init, JobsWell
<1>3. FgWaitedFor
  BY <1>1 DEF FgWaitedFor, clearjob
<1>4. WaitsForFg /\ Resumed /\ NewUntouched /\ KeysPending /\ NewsPending
  BY <1>1 DEF Init, WaitsForFg, Resumed, NewUntouched, KeysPending, NewsPending
<1>5. StopsListed
  BY <1>1 DEF Init, StopsListed, InHands, clearjob, Sigs
<1> QED
  BY <1>2, <1>3, <1>4, <1>5 DEF LiveInv

-----------------------------------------------------------------------------
(* The main loop.                                                            *)

\* fork: the pid is new to the list, and no key has reached it.
LEMMA ForkOrderly ==
  ASSUME ChildrenInv, OrderlyInv, NEW p \in Pids, NEW b \in BOOLEAN, Fork(p, b)
  PROVE  OrderlyInv'
<1>1. /\ LiveInv /\ JobsWell /\ FgWaitedFor /\ pc = "prompt" /\ pc' = "add" /\ pid' = p
      /\ proc[p] = "none" /\ proc' = [proc EXCEPT ![p] = "forked"] /\ nextjid <= JidBound
      /\ jobs' = jobs /\ nextjid' = nextjid /\ depth' = depth /\ hpid' = hpid
      /\ hstat' = hstat /\ pending' = pending /\ csig' = csig /\ slot' = slot
  BY DEF Fork, OrderlyInv, Alive, jobVars, handlerVars
<1>2. hpid["CHLD"] = NoPid
  BY MainAlone DEF ChildrenInv, Fork, Sigs
<1>3. \A i \in Slots : jobs[i].pid # p
  BY <1>1, <1>2, JobListAssumption DEF ChildrenInv, IInv, ListedAreChildren, Collecting
<1>4. proc \in [Pids -> ProcStates] /\ jobs \in [Slots -> Job]
  BY DEF ChildrenInv, IInv, TypeOK
<1>5. \A q \in Pids : proc'[q] = IF q = p THEN "forked" ELSE proc[q]
  BY <1>1, <1>4
<1>6. JobsWell' /\ FgWaitedFor' /\ WaitsForFg' /\ Resumed'
  BY <1>1 DEF JobsWell, Busy, FgWaitedFor, WaitsForFg, Resumed
<1>7. StopsListed'
  BY <1>1, <1>2, <1>3, <1>4, <1>5, JobListAssumption
     DEF LiveInv, StopsListed, InHands, Busy, JobsWell, Job, clearjob
<1>8. csig[p] = {} /\ KeysPending'
  BY <1>1, <1>3, <1>4, <1>5 DEF LiveInv, KeysPending, Busy, Job
<1>9. NewUntouched' /\ NewsPending'
  BY <1>1, <1>5, <1>8 DEF LiveInv, NewUntouched, NewsPending
<1> QED
  BY <1>6, <1>7, <1>8, <1>9 DEF OrderlyInv, LiveInv

\* addjob: the new job takes the next job id, and is in the foreground only if eval
\* goes on to wait for it.
LEMMA RunAddOrderly ==
  ASSUME Orderly, ChildrenInv, OrderlyInv, RunAdd
  PROVE  OrderlyInv'
<1> DEFINE s   == IF bg THEN "BG" ELSE "FG"
           new == [pid |-> pid, jid |-> nextjid, state |-> s]
           k   == First(FreeSlots(jobs))
<1>1. /\ LiveInv /\ JobsWell /\ FgWaitedFor /\ pc = "add" /\ hpid["CHLD"] = NoPid
  BY MainAlone DEF RunAdd, OrderlyInv, Alive, MainRuns, ChildrenInv, Sigs
<1>2. /\ jobs \in [Slots -> Job] /\ pid \in Pids /\ nextjid \in 1..JidBound
      /\ \A i \in Slots : jobs[i].pid # pid
      /\ proc \in [Pids -> ProcStates]
  BY <1>1, TshAssumption DEF ChildrenInv, IInv, TypeOK, AddIsNew, JobsWell
<1>3. FreeSlots(jobs) # {}
  BY <1>1, OrderlyFreeSlot DEF ChildrenInv, IInv
<1>4. k \in Slots /\ jobs[k].pid = NoPid
  BY <1>3, FirstInSet DEF FreeSlots, HoldingPid
<1>5. jobs' = [jobs EXCEPT ![k] = new]
  BY <1>3 DEF RunAdd, addjob
<1>6. nextjid' = nextjid + 1
  BY <1>2, <1>3, TshAssumption, JobListAssumption DEF RunAdd, nextjidAfterAdd, Orderly
<1>7. /\ jobs'[k].pid = pid /\ jobs'[k].jid = nextjid /\ jobs'[k].state = s
      /\ \A i \in Slots \ {k} : jobs'[i] = jobs[i]
  <2> HIDE DEF k
  <2> QED
    BY <1>2, <1>4, <1>5
<1>8. /\ IF bg THEN pc' = "prompt" ELSE pc' = "waitfg" /\ pid' = pid
      /\ depth' = depth /\ hpid' = hpid
      /\ hstat' = hstat /\ pending' = pending /\ proc' = proc /\ csig' = csig
  BY DEF RunAdd, BackToPrompt, Goto, handlerVars, childVars
<1> HIDE DEF k, new
<1>9. JobsWell'
  <2>1. \A i \in Slots : Busy(i) => jobs[i].jid # nextjid
    BY <1>1, <1>2, TshAssumption DEF JobsWell
  <2>2. \A i \in Slots : IF Busy(i)' THEN jobs'[i].state # "UNDEF" /\ jobs'[i].jid \in 1..JidBound
                                       /\ jobs'[i].jid < nextjid'
                       ELSE jobs'[i] = clearjob
    <3> SUFFICES ASSUME NEW i \in Slots
                 PROVE  IF Busy(i)' THEN jobs'[i].state # "UNDEF" /\ jobs'[i].jid \in 1..JidBound
                                       /\ jobs'[i].jid < nextjid'
                        ELSE jobs'[i] = clearjob
      OBVIOUS
    <3>1. CASE i = k
      BY <1>2, <1>4, <1>6, <1>7, <3>1, JobListAssumption, TshAssumption DEF Busy
    <3>2. CASE i # k
      BY <1>1, <1>2, <1>6, <1>7, <3>2, TshAssumption DEF Busy, JobsWell
    <3> QED
      BY <3>1, <3>2
  <2>3. ASSUME NEW i \in Slots, NEW j \in Slots, Busy(i)', jobs'[i].jid = jobs'[j].jid
        PROVE  i = j
    <3>1. \A n \in Slots : n # k => jobs'[n].jid # nextjid
      <4> SUFFICES ASSUME NEW n \in Slots, n # k PROVE jobs[n].jid # nextjid
        BY <1>7
      <4>1. CASE Busy(n)
        BY <2>1, <4>1
      <4>2. CASE ~Busy(n)
        BY <1>1, <1>2, <4>2 DEF JobsWell, clearjob
      <4> QED
        BY <4>1, <4>2
    <3>2. CASE i = k \/ j = k
      BY <1>7, <2>3, <3>1, <3>2
    <3>3. CASE i # k /\ j # k
      BY <1>1, <1>7, <2>3, <3>3 DEF Busy, JobsWell
    <3> QED
      BY <3>2, <3>3
  <2>4. nextjid' \in 1..(JidBound + 1) /\ pc' # "add"
    BY <1>2, <1>6, <1>8, TshAssumption
  <2> QED
    BY <2>2, <2>3, <2>4 DEF JobsWell
<1>10. FgWaitedFor' /\ (WaitsForFg /\ Resumed /\ NewUntouched)'
  BY <1>1, <1>2, <1>7, <1>8 DEF FgWaitedFor, WaitsForFg, Resumed, NewUntouched
<1>11. StopsListed'
  BY <1>1, <1>2, <1>4, <1>7, <1>8, JobListAssumption
     DEF LiveInv, StopsListed, InHands, Busy, NewUntouched, Job
<1>12. KeysPending' /\ NewsPending'
  BY <1>1, <1>2, <1>4, <1>7, <1>8, JobListAssumption
     DEF LiveInv, KeysPending, NewsPending, Busy, NewUntouched, Job
<1> QED
  BY <1>9, <1>10, <1>11, <1>12 DEF OrderlyInv, LiveInv

\* The wait loop of eval ends only when no job is in the foreground.
LEMMA WaitFgOrderly ==
  ASSUME ChildrenInv, OrderlyInv, WaitFg
  PROVE  OrderlyInv'
<1>1. /\ LiveInv /\ JobsWell /\ FgWaitedFor /\ pc = "waitfg"
      /\ jobs' = jobs /\ nextjid' = nextjid /\ depth' = depth /\ hpid' = hpid
      /\ hstat' = hstat /\ pending' = pending /\ csig' = csig /\ proc' = proc
      /\ \/ pc' = "suspend" /\ pid' = pid
         \/ pc' = "prompt" /\ pid # fgpid(jobs)
  BY DEF WaitFg, OrderlyInv, Alive, MainRuns, Goto, BackToPrompt, jobVars, handlerVars, childVars
<1>2. FgWaitedFor'
  BY <1>1, FgpidIs DEF FgWaitedFor, ChildrenInv, IInv
<1>3. JobsWell' /\ (WaitsForFg /\ Resumed /\ NewUntouched)'
  BY <1>1 DEF LiveInv, JobsWell, Busy, WaitsForFg, Resumed, NewUntouched
<1>4. (StopsListed /\ KeysPending /\ NewsPending)'
  BY <1>1 DEF LiveInv, StopsListed, InHands, KeysPending, NewsPending, Busy
<1> QED
  BY <1>2, <1>3, <1>4 DEF OrderlyInv, LiveInv

\* fg and bg, as long as they only read: the job they find is the one named, since
\* no other has its job id, and it is stopped.
LEMMA BgFgReadsOrderly ==
  ASSUME Orderly, ChildrenInv, OrderlyInv,
         \/ \E b \in BOOLEAN, i \in Slots : BgFgJid(b, i)
         \/ \E b \in BOOLEAN, p \in Pids : BgFgPid(b, p)
         \/ BgFgReadPid
  PROVE  OrderlyInv'
<1>1. /\ LiveInv /\ JobsWell /\ FgWaitedFor /\ pc \in {"prompt", "readpid"}
      /\ jobs' = jobs /\ nextjid' = nextjid /\ depth' = depth /\ hpid' = hpid
      /\ hstat' = hstat /\ pending' = pending /\ csig' = csig /\ proc' = proc
      /\ pc' \in {"readpid", "setstate"} /\ jobs \in [Slots -> Job]
  BY DEF BgFgJid, BgFgPid, BgFgReadPid, OrderlyInv, Alive, MainRuns, jobVars, handlerVars,
         childVars, ChildrenInv, IInv, TypeOK
<1>2. /\ slot' \in Slots /\ jobs[slot'].pid # NoPid /\ jobs[slot'].state = "ST"
      /\ pc' = "setstate" => pid' = jobs[slot'].pid
  <2>1. ASSUME NEW b \in BOOLEAN, NEW i \in Slots, BgFgJid(b, i)
        PROVE  slot' = i /\ Busy(i) /\ jobs[i].state = "ST" /\ pc' = "readpid"
    <3>1. jobs[i].jid > 0 /\ slot' = getjobjid(jobs, jobs[i].jid) /\ jobs[i].state = "ST"
      BY <2>1 DEF BgFgJid, Orderly
    <3>2. slot' \in Slots /\ jobs[slot'].jid = jobs[i].jid
      BY <1>1, <3>1, GetjobjidFinds DEF Job
    <3>3. Busy(i)
      BY <1>1, <3>1 DEF JobsWell, clearjob
    <3> QED
      BY <1>1, <2>1, <3>1, <3>2, <3>3 DEF JobsWell, BgFgJid
  <2>2. ASSUME NEW b \in BOOLEAN, NEW p \in Pids, BgFgPid(b, p)
        PROVE  slot' \in Slots /\ jobs[slot'].pid = p /\ jobs[slot'].state = "ST" /\ pid' = p
    BY <1>1, <2>2, GetjobpidFinds DEF BgFgPid, Orderly
  <2>3. ASSUME BgFgReadPid
        PROVE  /\ slot' = slot /\ slot \in Slots /\ Busy(slot) /\ jobs[slot].state = "ST"
               /\ pid' = jobs[slot].pid
    BY <1>1, <2>3 DEF BgFgReadPid, LiveInv, Resumed
  <2> QED
    BY <2>1, <2>2, <2>3, JobListAssumption DEF Busy
<1>3. JobsWell' /\ (FgWaitedFor /\ WaitsForFg /\ Resumed /\ NewUntouched)'
  BY <1>1, <1>2 DEF LiveInv, JobsWell, Busy, FgWaitedFor, WaitsForFg, Resumed, NewUntouched
<1>4. (StopsListed /\ KeysPending /\ NewsPending)'
  BY <1>1 DEF LiveInv, StopsListed, InHands, KeysPending, NewsPending, Busy
<1> QED
  BY <1>3, <1>4 DEF OrderlyInv, LiveInv

\* The stopped job becomes a running one, just before the SIGCONT.
LEMMA BgFgSetStateOrderly ==
  ASSUME ChildrenInv, OrderlyInv, BgFgSetState
  PROVE  OrderlyInv'
<1> DEFINE s == IF bg THEN "BG" ELSE "FG"
<1>1. /\ LiveInv /\ JobsWell /\ FgWaitedFor /\ pc = "setstate" /\ hpid["CHLD"] = NoPid
      /\ nextjid' = nextjid /\ depth' = depth
      /\ hpid' = hpid /\ hstat' = hstat /\ pending' = pending /\ csig' = csig /\ proc' = proc
      /\ pc' = "sendcont" /\ pid' = pid /\ slot' = slot /\ bg' = bg
  BY MainAlone DEF BgFgSetState, OrderlyInv, Alive, MainRuns, Goto, handlerVars, childVars,
                   ChildrenInv, Sigs
<1>b. jobs' = WithState(jobs, slot, s)
  BY DEF BgFgSetState
<1>2. /\ slot \in Slots /\ jobs[slot].pid = pid /\ pid \in Pids /\ jobs[slot].state = "ST"
      /\ jobs \in [Slots -> Job] /\ bg \in BOOLEAN
  BY <1>1 DEF LiveInv, Resumed, Busy, ChildrenInv, IInv, TypeOK
<1>3. proc[pid] = "stopped"
  BY <1>1, <1>2 DEF LiveInv, StopsListed
<1>4. /\ jobs'[slot].pid = pid /\ jobs'[slot].jid = jobs[slot].jid
      /\ jobs'[slot].state = IF bg THEN "BG" ELSE "FG"
      /\ \A j \in Slots \ {slot} : jobs'[j] = jobs[j]
  <2>1. s \in JobStates
    BY DEF JobStates
  <2>2. s \in {"BG", "FG"}
    OBVIOUS
  <2>3. s = IF bg THEN "BG" ELSE "FG"
    OBVIOUS
  <2> HIDE DEF s
  <2> QED
    BY <2>2, <2>3, <1>b, <1>2, <2>1, WithStateSets
<1>5. \A j \in Slots : jobs[j].pid = pid => j = slot
  BY <1>2, JobListAssumption DEF ChildrenInv, IInv, OneSlotPerPid
<1>6. JobsWell'
  BY <1>1, <1>2, <1>4, JobListAssumption DEF JobsWell, Busy
<1>7. FgWaitedFor' /\ (WaitsForFg /\ Resumed /\ NewUntouched)'
  BY <1>1, <1>2, <1>3, <1>4, JobListAssumption
     DEF FgWaitedFor, WaitsForFg, Resumed, NewUntouched
<1>8. StopsListed'
  BY <1>1, <1>2, <1>3, <1>4, <1>5, JobListAssumption
     DEF LiveInv, StopsListed, InHands, Busy
<1>9. KeysPending' /\ NewsPending'
  BY <1>1, <1>2, <1>4 DEF LiveInv, KeysPending, NewsPending, Busy
<1> QED
  BY <1>6, <1>7, <1>8, <1>9 DEF OrderlyInv, LiveInv

\* SIGCONT: the child runs again, and no stop is pending for it.
LEMMA BgFgSendContOrderly ==
  ASSUME ChildrenInv, OrderlyInv, BgFgSendCont
  PROVE  OrderlyInv'
<1>1. /\ LiveInv /\ JobsWell /\ FgWaitedFor /\ pc = "sendcont" /\ hpid["CHLD"] = NoPid
      /\ jobs' = jobs /\ nextjid' = nextjid /\ depth' = depth /\ hpid' = hpid /\ hstat' = hstat
      /\ IF bg THEN pc' = "prompt" ELSE pc' = "fgcheck" /\ pid' = pid
  BY MainAlone DEF BgFgSendCont, OrderlyInv, Alive, MainRuns, Goto, BackToPrompt, jobVars,
                   handlerVars, ChildrenInv, Sigs
<1>2. /\ slot \in Slots /\ jobs[slot].pid = pid /\ pid \in Pids /\ proc[pid] = "stopped"
      /\ jobs[slot].state = IF bg THEN "BG" ELSE "FG"
      /\ jobs \in [Slots -> Job] /\ proc \in [Pids -> ProcStates]
      /\ csig \in [Pids -> SUBSET {"INT", "TSTP"}]
  BY <1>1 DEF LiveInv, Resumed, ChildrenInv, IInv, TypeOK
<1>3. /\ proc' = [proc EXCEPT ![pid] = "running"] /\ pending' = pending \cup {"CHLD"}
      /\ csig' = [csig EXCEPT ![pid] = @ \ {"TSTP"}]
  BY <1>2 DEF BgFgSendCont
<1>4. \A q \in Pids : /\ proc'[q] = IF q = pid THEN "running" ELSE proc[q]
                      /\ csig'[q] = IF q = pid THEN csig[q] \ {"TSTP"} ELSE csig[q]
  BY <1>2, <1>3
<1>5. \A j \in Slots : jobs[j].pid = pid => j = slot
  BY <1>2, JobListAssumption DEF ChildrenInv, IInv, OneSlotPerPid
<1>6. JobsWell' /\ (FgWaitedFor /\ WaitsForFg /\ Resumed /\ NewUntouched)'
  BY <1>1, <1>2, <1>5 DEF JobsWell, Busy, FgWaitedFor, WaitsForFg, Resumed, NewUntouched
<1>7. StopsListed'
  <2>1. \A i \in Slots : jobs[i].pid \in Pids \/ jobs[i].state = "UNDEF"
    BY <1>1, <1>2 DEF JobsWell, Busy, clearjob, Job
  <2>2. \A i \in Slots : jobs[i].state = "ST" => proc'[jobs[i].pid] = "stopped"
    <3> SUFFICES ASSUME NEW i \in Slots, jobs[i].state = "ST"
                 PROVE  proc'[jobs[i].pid] = "stopped"
      OBVIOUS
    <3>1. jobs[i].pid \in Pids /\ proc[jobs[i].pid] = "stopped"
      BY <1>1, <2>1 DEF LiveInv, StopsListed
    <3>2. jobs[i].pid # pid
      BY <1>2, <1>5
    <3> QED
      BY <1>4, <3>1, <3>2
  <2>3. \A p \in Pids : proc'[p] = "stopped" => \E i \in Slots : jobs[i].pid = p /\ jobs[i].state = "ST"
    BY <1>1, <1>4, JobListAssumption DEF LiveInv, StopsListed, InHands
  <2>4. \A i \in Slots : Busy(i) /\ proc'[jobs[i].pid] = "stopping" => jobs[i].state = "FG"
    <3> SUFFICES ASSUME NEW i \in Slots, Busy(i), proc'[jobs[i].pid] = "stopping"
                 PROVE  jobs[i].state = "FG"
      OBVIOUS
    <3>1. jobs[i].pid \in Pids
      BY <1>2 DEF Busy, Job
    <3>2. proc[jobs[i].pid] = "stopping"
      BY <1>4, <3>1
    <3> QED
      BY <1>1, <3>2 DEF LiveInv, StopsListed
  <2>5. \A i \in Slots : InHands(jobs[i].pid) => jobs[i].state = "FG"
    BY <1>1 DEF LiveInv, StopsListed
  <2> QED
    BY <1>1, <2>2, <2>3, <2>4, <2>5, JobListAssumption DEF StopsListed, InHands, Busy
<1>8. KeysPending' /\ NewsPending'
  BY <1>1, <1>2, <1>3, <1>4 DEF LiveInv, KeysPending, NewsPending, Busy, Job
<1> QED
  BY <1>6, <1>7, <1>8 DEF OrderlyInv, LiveInv

\* The wait loop of fg, likewise, gives up only when no job is in the foreground.
LEMMA FgWaitsOrderly ==
  ASSUME ChildrenInv, OrderlyInv, FgCheck \/ FgCall
  PROVE  OrderlyInv'
<1>1. /\ LiveInv /\ JobsWell /\ FgWaitedFor /\ pc \in {"fgcheck", "fgcall"}
      /\ jobs' = jobs /\ nextjid' = nextjid /\ depth' = depth /\ hpid' = hpid
      /\ hstat' = hstat /\ pending' = pending /\ csig' = csig /\ proc' = proc
      /\ \/ pc' \in {"fgcall", "fgsuspend"} /\ pid' = pid
         \/ pc' = "prompt" /\ pid # fgpid(jobs)
  BY DEF FgCheck, FgCall, OrderlyInv, Alive, MainRuns, Goto, BackToPrompt, jobVars, handlerVars,
         childVars
<1>2. FgWaitedFor'
  BY <1>1, FgpidIs DEF FgWaitedFor, ChildrenInv, IInv
<1>3. JobsWell' /\ (WaitsForFg /\ Resumed /\ NewUntouched)'
  BY <1>1 DEF LiveInv, JobsWell, Busy, WaitsForFg, Resumed, NewUntouched
<1>4. (StopsListed /\ KeysPending /\ NewsPending)'
  BY <1>1 DEF LiveInv, StopsListed, InHands, KeysPending, NewsPending, Busy
<1> QED
  BY <1>2, <1>3, <1>4 DEF OrderlyInv, LiveInv

\* The shell ends, or dereferences a null pointer.
LEMMA EndsOrderly ==
  ASSUME OrderlyInv, Exit \/ BgFgUnknown
  PROVE  OrderlyInv'
<1>1. /\ jobs' = jobs /\ nextjid' = nextjid /\ pid' = pid
      /\ \/ pc' = "exited"
         \/ pc = "prompt" /\ pc' = "crashed"
  BY DEF Exit, BgFgUnknown, Goto, jobVars
<1>2. ~Alive'
  BY <1>1 DEF Alive
<1> QED
  BY <1>1, <1>2 DEF OrderlyInv, JobsWell, Busy, FgWaitedFor
-----------------------------------------------------------------------------
(* Signals and handlers.                                                     *)

\* A signal arrives, or its handler starts.
LEMMA SignalOrderly ==
  ASSUME ChildrenInv, OrderlyInv, NEW s \in Sigs, Type(s) \/ Deliver(s)
  PROVE  OrderlyInv'
<1>1. /\ LiveInv /\ JobsWell /\ FgWaitedFor /\ pc' = pc /\ pid' = pid /\ slot' = slot /\ bg' = bg
      /\ jobs' = jobs /\ nextjid' = nextjid /\ hpid' = hpid
      /\ hstat' = hstat /\ csig' = csig /\ proc' = proc
  BY DEF Type, Deliver, OrderlyInv, jobVars, mainVars, handlerVars, childVars
<1>2. "CHLD" \in pending \/ depth["CHLD"] > 0 => "CHLD" \in pending' \/ depth'["CHLD"] > 0
  <2>1. CASE Type(s)
    BY <2>1 DEF Type, handlerVars
  <2>2. CASE Deliver(s)
    <3>1. {t \in Sigs : depth[t] > 0} \in SUBSET (Sigs \ {s})
      BY <2>2 DEF Deliver
    <3>2. Cardinality({t \in Sigs : depth[t] > 0}) \in 0..2
      BY <3>1, NestingBound
    <3> QED
      BY <2>2, <3>2 DEF Deliver, ChildrenInv, IInv, TypeOK, Sigs
  <2> QED
    BY <2>1, <2>2
<1>3. JobsWell' /\ (FgWaitedFor /\ WaitsForFg /\ Resumed /\ NewUntouched)'
  BY <1>1 DEF LiveInv, JobsWell, Busy, FgWaitedFor, WaitsForFg, Resumed, NewUntouched
<1>4. (StopsListed /\ KeysPending)'
  BY <1>1 DEF LiveInv, StopsListed, InHands, KeysPending, Busy
<1>5. NewsPending'
  BY <1>1, <1>2 DEF LiveInv, NewsPending
<1> QED
  BY <1>3, <1>4, <1>5 DEF OrderlyInv, LiveInv

\* waitpid: a zombie is gone, a stop is in the handler's hands.
LEMMA ChldWaitOrderly ==
  ASSUME ChildrenInv, OrderlyInv, NEW p \in Pids, ChldWait(p)
  PROVE  OrderlyInv'
<1>1. /\ LiveInv /\ JobsWell /\ FgWaitedFor /\ pc' = pc /\ pid' = pid /\ slot' = slot /\ bg' = bg
      /\ jobs' = jobs /\ nextjid' = nextjid /\ csig' = csig /\ pending' = pending
      /\ depth' = depth /\ depth["CHLD"] > 0 /\ hpid["CHLD"] = NoPid
  BY DEF ChldWait, Runs, OrderlyInv, jobVars, mainVars
<1>2. pc # "add"
  BY HandlerRuns DEF ChldWait, ChildrenInv, Sigs
<1>3. /\ hpid'["CHLD"] = p
      /\ jobs \in [Slots -> Job] /\ proc \in [Pids -> ProcStates]
  BY DEF ChldWait, ChildrenInv, IInv, TypeOK, Sigs
<1>4. /\ \A q \in Pids \ {p} : proc'[q] = proc[q]
      /\ \/ proc[p] = "zombie" /\ proc'[p] = "none" /\ hstat' = "dead"
         \/ proc[p] = "stopping" /\ proc'[p] = "stopped" /\ hstat' = "stopped"
  BY <1>3 DEF ChldWait
<1>5. JobsWell' /\ (FgWaitedFor /\ WaitsForFg /\ Resumed /\ NewUntouched)'
  BY <1>1, <1>2, <1>3, <1>4
     DEF LiveInv, JobsWell, Busy, FgWaitedFor, WaitsForFg, Resumed, NewUntouched
<1>6. StopsListed'
  <2>1. \A i \in Slots : jobs[i].state = "ST" => jobs[i].pid \in Pids
    BY <1>1, <1>3 DEF JobsWell, Busy, clearjob, Job
  <2>2. \A i \in Slots : jobs[i].state = "ST" => proc'[jobs[i].pid] = "stopped"
    <3> SUFFICES ASSUME NEW i \in Slots, jobs[i].state = "ST"
                 PROVE  proc'[jobs[i].pid] = "stopped"
      OBVIOUS
    <3>1. jobs[i].pid \in Pids /\ proc[jobs[i].pid] = "stopped"
      BY <1>1, <2>1 DEF LiveInv, StopsListed
    <3> QED
      BY <1>4, <3>1
  <2>3. \A q \in Pids : proc'[q] = "stopped" =>
           \/ \E i \in Slots : jobs[i].pid = q /\ jobs[i].state = "ST"
           \/ InHands(q)' \/ (pc = "sendcont" /\ pid = q)
    <3> SUFFICES ASSUME NEW q \in Pids, proc'[q] = "stopped", q # p
                 PROVE  \/ \E i \in Slots : jobs[i].pid = q /\ jobs[i].state = "ST"
                        \/ pc = "sendcont" /\ pid = q
      BY <1>3, <1>4 DEF InHands
    <3>1. proc[q] = "stopped" /\ ~InHands(q)
      BY <1>1, <1>4, JobListAssumption DEF InHands
    <3> QED
      BY <1>1, <3>1 DEF LiveInv, StopsListed
  <2>4. \A q \in Pids : InHands(q)' => proc'[q] = "stopped"
    BY <1>3, <1>4 DEF InHands
  <2>5. \A i \in Slots : InHands(jobs[i].pid)' => jobs[i].state = "FG"
    <3> SUFFICES ASSUME NEW i \in Slots, jobs[i].pid = p, hstat' = "stopped"
                 PROVE  jobs[i].state = "FG"
      BY <1>1, <1>3 DEF InHands
    <3>1. Busy(i) /\ proc[jobs[i].pid] = "stopping"
      BY <1>4, JobListAssumption DEF Busy
    <3> QED
      BY <1>1, <3>1 DEF LiveInv, StopsListed
  <2>6. \A i \in Slots : Busy(i) /\ proc'[jobs[i].pid] = "stopping" => jobs[i].state = "FG"
    <3> SUFFICES ASSUME NEW i \in Slots, Busy(i), proc'[jobs[i].pid] = "stopping"
                 PROVE  jobs[i].state = "FG"
      OBVIOUS
    <3>1. jobs[i].pid \in Pids
      BY <1>3 DEF Busy, Job
    <3>2. proc[jobs[i].pid] = "stopping"
      BY <1>4, <3>1
    <3> QED
      BY <1>1, <3>2 DEF LiveInv, StopsListed
  <2> QED
    BY <1>1, <2>2, <2>3, <2>4, <2>5, <2>6 DEF StopsListed, Busy
<1>7. KeysPending'
  <2>1. \A q \in Pids : csig[q] # {} => proc'[q] \in {"running", "stopping", "stopped"}
    BY <1>1, <1>4 DEF LiveInv, KeysPending
  <2> QED
    BY <1>1, <2>1 DEF LiveInv, KeysPending, Busy
<1>8. NewsPending'
  BY <1>1 DEF NewsPending
<1> QED
  BY <1>5, <1>6, <1>7, <1>8 DEF OrderlyInv, LiveInv

\* The SIGCHLD handler returns when there is no news left.
LEMMA ChldDoneOrderly ==
  ASSUME ChildrenInv, OrderlyInv, ChldDone
  PROVE  OrderlyInv'
<1>1. /\ LiveInv /\ JobsWell /\ FgWaitedFor
      /\ jobs' = jobs /\ nextjid' = nextjid /\ csig' = csig /\ pending' = pending
      /\ proc' = proc /\ hpid' = hpid /\ hstat' = hstat
      /\ \A p \in Pids : proc[p] \notin {"zombie", "stopping"}
  BY DEF ChldDone, Runs, OrderlyInv, jobVars, childVars
<1>2. /\ UNCHANGED <<pid, slot, bg, prev>>
      /\ \/ pc' = pc
         \/ pc = "suspend" /\ pc' = "waitfg"
         \/ pc = "fgsuspend" /\ pc' = "fgcheck"
  BY ReturnEnds DEF ChldDone, Sigs
<1>3. JobsWell' /\ (FgWaitedFor /\ WaitsForFg /\ Resumed /\ NewUntouched)'
  BY <1>1, <1>2 DEF LiveInv, JobsWell, Busy, FgWaitedFor, WaitsForFg, Resumed, NewUntouched
<1>4. (StopsListed /\ KeysPending)'
  BY <1>1, <1>2 DEF LiveInv, StopsListed, InHands, KeysPending, Busy
<1>5. NewsPending'
  BY <1>1 DEF NewsPending
<1> QED
  BY <1>3, <1>4, <1>5 DEF OrderlyInv, LiveInv

\* deletejob: the slot of the collected child is cleared, and nextjid is again one
\* above the largest job id.
LEMMA ChldDeleteOrderly ==
  ASSUME ChildrenInv, OrderlyInv, ChldDelete
  PROVE  OrderlyInv'
<1> DEFINE p == hpid["CHLD"]
<1>1. /\ LiveInv /\ JobsWell /\ FgWaitedFor /\ pc' = pc /\ pid' = pid /\ slot' = slot /\ bg' = bg
      /\ csig' = csig /\ pending' = pending /\ proc' = proc
      /\ depth' = depth /\ depth["CHLD"] > 0 /\ p # NoPid /\ hstat = "dead" /\ hstat' = "dead"
  BY DEF ChldDelete, Runs, OrderlyInv, mainVars, childVars
<1>2. pc # "add" /\ p \in Pids /\ proc[p] = "none" /\ jobs \in [Slots -> Job]
  BY <1>1, HandlerRuns
     DEF ChldDelete, ChildrenInv, IInv, TypeOK, CollectedAreGone, Collecting, Sigs
<1>3. hpid'["CHLD"] = NoPid
  BY DEF ChldDelete, ChildrenInv, IInv, TypeOK, Sigs
<1>4. /\ jobs' = deletejob(jobs, p)
      /\ nextjid' = IF Listed(jobs, p) THEN maxjid(jobs') + 1 ELSE nextjid
  BY DEF ChldDelete, nextjidAfterDelete
<1> HIDE DEF p
<1>5. CASE ~Listed(jobs, p)
  <2>1. jobs' = jobs /\ nextjid' = nextjid
    BY <1>4, <1>5 DEF deletejob
  <2>2. JobsWell' /\ (FgWaitedFor /\ WaitsForFg /\ Resumed /\ NewUntouched)'
    BY <1>1, <1>2, <1>3, <2>1, JobListAssumption
       DEF LiveInv, JobsWell, Busy, FgWaitedFor, WaitsForFg, Resumed, NewUntouched
  <2>3. (StopsListed /\ KeysPending /\ NewsPending)'
    BY <1>1, <1>3, <2>1 DEF LiveInv, StopsListed, InHands, KeysPending, NewsPending, Busy
  <2> QED
    BY <2>2, <2>3 DEF OrderlyInv, LiveInv
<1>6. CASE Listed(jobs, p)
  <2>1. PICK i \in Slots : jobs[i].pid = p /\ jobs'[i] = clearjob
                           /\ \A j \in Slots \ {i} : jobs'[j] = jobs[j]
    <3>1. \E i \in Slots : jobs[i].pid = p
      BY <1>6 DEF Listed, HoldingPid
    <3> QED
      BY <1>1, <1>2, <1>4, <3>1, DeletejobClears DEF ChildrenInv, IInv, TypeOK
  <2>2. \A j \in Slots : jobs[j].pid = p => j = i
    BY <1>1, <2>1, JobListAssumption DEF ChildrenInv, IInv, OneSlotPerPid
  <2>3. /\ clearjob.pid = NoPid /\ clearjob.jid = 0 /\ clearjob.state = "UNDEF"
    BY DEF clearjob
  <2>4. jobs' \in [Slots -> Job] /\ jobs[i].state # "ST"
    <3>1. jobs' \in [Slots -> Job]
      BY <1>2, <1>4, DeletejobClears DEF ChildrenInv, IInv, TypeOK
    <3>2. jobs[i].state # "ST"
      BY <1>1, <1>2, <2>1 DEF LiveInv, StopsListed
    <3> QED
      BY <3>1, <3>2
  <2>5. /\ nextjid' \in 1..(JidBound + 1)
        /\ \A j \in Slots : jobs'[j].jid < nextjid'
    <3>1. nextjid' = maxjid(jobs') + 1
      BY <1>4, <1>6
    <3>2. maxjid(jobs') \in Nat /\ \A j \in Slots : jobs'[j].jid <= maxjid(jobs')
      BY <2>4, MaxjidType
    <3>3. \A j \in Slots : jobs'[j].jid \in 0..JidBound
      BY <1>1, <2>1, <2>3, TshAssumption DEF JobsWell, clearjob
    <3>4. maxjid(jobs') \in 0..JidBound
      <4>1. \E j \in Slots : maxjid(jobs') = jobs'[j].jid
        BY <2>4, LargestJid DEF maxjid
      <4> QED
        BY <3>3, <4>1
    <3>5. \A j \in Slots : jobs'[j].jid \in Nat
      BY <2>4 DEF Job
    <3> QED
      BY <3>1, <3>2, <3>4, <3>5, TshAssumption
  <2>6. JobsWell'
    BY <1>1, <1>2, <2>1, <2>3, <2>5 DEF JobsWell, Busy
  <2>7. (FgWaitedFor /\ WaitsForFg /\ Resumed /\ NewUntouched)'
    BY <1>1, <1>2, <1>3, <2>1, <2>3, <2>4, JobListAssumption
       DEF LiveInv, Busy, FgWaitedFor, WaitsForFg, Resumed, NewUntouched
  <2>8. StopsListed'
    BY <1>1, <1>2, <1>3, <2>1, <2>3, <2>4 DEF LiveInv, StopsListed, InHands, Busy
  <2>9. KeysPending' /\ NewsPending'
    BY <1>1, <2>1, <2>3 DEF LiveInv, KeysPending, NewsPending, Busy
  <2> QED
    BY <2>6, <2>7, <2>8, <2>9 DEF OrderlyInv, LiveInv
<1> QED
  BY <1>5, <1>6

\* A child the SIGCHLD handler has in its hands as stopped is listed, in the foreground.
LEMMA StoppedInHands ==
  ASSUME ChildrenInv, OrderlyInv, ChldStop
  PROVE  /\ hpid["CHLD"] \in Pids /\ Listed(jobs, hpid["CHLD"])
         /\ jobs[getjobpid(jobs, hpid["CHLD"])].state = "FG"
<1> DEFINE p == hpid["CHLD"]
<1>1. p \in Pids /\ hstat = "stopped" /\ pc # "add" /\ LiveInv /\ jobs \in [Slots -> Job]
  BY HandlerRuns DEF ChldStop, Runs, OrderlyInv, ChildrenInv, IInv, TypeOK, Sigs
<1>2. InHands(p)
  BY <1>1 DEF InHands
<1>3. proc[p] = "stopped"
  BY <1>1, <1>2 DEF LiveInv, StopsListed
<1>4. Listed(jobs, p)
  BY <1>1, <1>3 DEF ChildrenInv, ChildrenAreListed
<1>5. getjobpid(jobs, p) \in Slots /\ jobs[getjobpid(jobs, p)].pid = p
  <2> HIDE DEF p
  <2> QED
    BY <1>1, <1>4, GetjobpidFinds
<1> QED
  BY <1>1, <1>2, <1>4, <1>5 DEF LiveInv, StopsListed

\* The job in the foreground is listed as stopped, and no child is in the handler's hands.
LEMMA ChldStopOrderly ==
  ASSUME ChildrenInv, OrderlyInv, ChldStop
  PROVE  OrderlyInv'
<1> DEFINE p == hpid["CHLD"]
           i == getjobpid(jobs, p)
<1>1. p \in Pids /\ Listed(jobs, p) /\ jobs[i].state = "FG"
  BY StoppedInHands
<1>2. /\ LiveInv /\ JobsWell /\ FgWaitedFor /\ pc' = pc /\ pid' = pid /\ slot' = slot /\ bg' = bg
      /\ csig' = csig /\ pending' = pending /\ proc' = proc /\ nextjid' = nextjid
      /\ depth' = depth /\ depth["CHLD"] > 0 /\ hstat = "stopped" /\ hstat' = "dead"
  BY <1>1 DEF ChldStop, Runs, OrderlyInv, mainVars, childVars
<1>3. jobs' = WithState(jobs, i, "ST") /\ hpid'["CHLD"] = NoPid /\ jobs \in [Slots -> Job]
  BY <1>1 DEF ChldStop, ChildrenInv, IInv, TypeOK, Sigs
<1>4. i \in Slots /\ jobs[i].pid = p
  BY <1>1, <1>3, GetjobpidFinds
<1>5. InHands(p) /\ proc[p] = "stopped" /\ \A q \in Pids : InHands(q) => q = p
  BY <1>1, <1>2 DEF LiveInv, StopsListed, InHands
<1> HIDE DEF i
<1>6. /\ jobs'[i].pid = p /\ jobs'[i].jid = jobs[i].jid /\ jobs'[i].state = "ST"
      /\ \A j \in Slots \ {i} : jobs'[j] = jobs[j]
  <2>1. "ST" \in JobStates
    BY DEF JobStates
  <2> HIDE DEF p
  <2> QED
    BY <1>3, <1>4, <2>1, WithStateSets
<1>7. \A j \in Slots : jobs[j].pid = p => j = i
  BY <1>1, <1>4, JobListAssumption DEF ChildrenInv, IInv, OneSlotPerPid
<1>a. hpid["CHLD"] = p
  OBVIOUS
<1> HIDE DEF p
<1>8. JobsWell'
  BY <1>1, <1>2, <1>4, <1>6, JobListAssumption DEF JobsWell, Busy
<1>9. pid = p /\ pc \notin {"readpid", "setstate", "sendcont"}
  <2>1. pid = p /\ pc \notin {"readpid", "setstate"}
    BY <1>1, <1>2, <1>4 DEF FgWaitedFor
  <2> QED
    BY <1>2, <1>a, <2>1 DEF LiveInv, Resumed
<1>10. (FgWaitedFor /\ WaitsForFg /\ Resumed /\ NewUntouched)'
  BY <1>1, <1>2, <1>4, <1>6, <1>7, <1>9
     DEF LiveInv, FgWaitedFor, WaitsForFg, Resumed, NewUntouched
<1>11. StopsListed'
  <2>1. \A j \in Slots : jobs'[j].state = "ST" => proc[jobs'[j].pid] = "stopped"
    BY <1>2, <1>5, <1>6 DEF LiveInv, StopsListed
  <2>2. \A q \in Pids : proc[q] = "stopped" => \E j \in Slots : jobs'[j].pid = q /\ jobs'[j].state = "ST"
    <3> SUFFICES ASSUME NEW q \in Pids, proc[q] = "stopped"
                 PROVE  \E j \in Slots : jobs'[j].pid = q /\ jobs'[j].state = "ST"
      OBVIOUS
    <3>1. CASE q = p
      BY <1>4, <1>6, <3>1
    <3>2. CASE q # p
      <4>1. PICK j \in Slots : jobs[j].pid = q /\ jobs[j].state = "ST"
        BY <1>2, <1>5, <1>9, <3>2 DEF LiveInv, StopsListed
      <4> QED
        BY <1>1, <1>6, <4>1
    <3> QED
      BY <3>1, <3>2
  <2>3. \A j \in Slots : Busy(j)' /\ proc[jobs'[j].pid] = "stopping" => jobs'[j].state = "FG"
    BY <1>2, <1>5, <1>6 DEF LiveInv, StopsListed, Busy
  <2> QED
    BY <1>2, <1>3, <2>1, <2>2, <2>3 DEF StopsListed, InHands, Busy
<1>12. KeysPending' /\ NewsPending'
  BY <1>2, <1>6 DEF LiveInv, KeysPending, NewsPending, Busy
<1> QED
  BY <1>8, <1>10, <1>11, <1>12 DEF OrderlyInv, LiveInv

\* A keyboard handler looks for the foreground job, or returns.
LEMMA KeyFgpidOrderly ==
  ASSUME ChildrenInv, OrderlyInv, NEW s \in Sigs, KeyFgpid(s)
  PROVE  OrderlyInv'
<1>1. /\ LiveInv /\ JobsWell /\ FgWaitedFor /\ s # "CHLD"
      /\ jobs' = jobs /\ nextjid' = nextjid /\ csig' = csig /\ pending' = pending
      /\ proc' = proc /\ hstat' = hstat /\ pc # "add"
  BY HandlerRuns DEF KeyFgpid, Runs, OrderlyInv, jobVars, childVars, ChildrenInv
<1>2. /\ UNCHANGED <<pid, slot, bg>>
      /\ \/ pc' = pc
         \/ pc = "suspend" /\ pc' = "waitfg"
         \/ pc = "fgsuspend" /\ pc' = "fgcheck"
  BY ReturnEnds DEF KeyFgpid, mainVars
<1>3. hpid'["CHLD"] = hpid["CHLD"] /\ depth'["CHLD"] = depth["CHLD"]
  BY <1>1, ReturnMoves DEF KeyFgpid, ChildrenInv, IInv, TypeOK, Sigs
<1>4. JobsWell' /\ (FgWaitedFor /\ WaitsForFg /\ Resumed /\ NewUntouched)'
  BY <1>1, <1>2, <1>3 DEF LiveInv, JobsWell, Busy, FgWaitedFor, WaitsForFg, Resumed, NewUntouched
<1>5. (StopsListed /\ KeysPending /\ NewsPending)'
  BY <1>1, <1>2, <1>3 DEF LiveInv, StopsListed, InHands, KeysPending, NewsPending, Busy
<1> QED
  BY <1>4, <1>5 DEF OrderlyInv, LiveInv

\* The key reaches a program whose job is not in the background.
LEMMA KeyKillOrderly ==
  ASSUME ChildrenInv, OrderlyInv, NEW s \in Sigs, KeyKill(s)
  PROVE  OrderlyInv'
<1> DEFINE q == hpid[s]
<1>1. /\ LiveInv /\ JobsWell /\ FgWaitedFor /\ s \in {"INT", "TSTP"}
      /\ jobs' = jobs /\ nextjid' = nextjid /\ pending' = pending
      /\ proc' = proc /\ hstat' = hstat /\ pc # "add" /\ q # NoPid
  BY HandlerRuns DEF KeyKill, Runs, OrderlyInv, jobVars, ChildrenInv
<1>2. /\ UNCHANGED <<pid, slot, bg>>
      /\ \/ pc' = pc
         \/ pc = "suspend" /\ pc' = "waitfg"
         \/ pc = "fgsuspend" /\ pc' = "fgcheck"
  BY ReturnEnds DEF KeyKill
<1>3. hpid'["CHLD"] = hpid["CHLD"] /\ depth'["CHLD"] = depth["CHLD"]
  <2>1. hpid'["CHLD"] = hpid["CHLD"]
    BY <1>1 DEF KeyKill, ChildrenInv, IInv, TypeOK, Sigs
  <2>2. depth'["CHLD"] = depth["CHLD"]
    BY <1>1, ReturnMoves DEF KeyKill, ChildrenInv, Sigs
  <2> QED
    BY <2>1, <2>2
<1>4. JobsWell' /\ (FgWaitedFor /\ WaitsForFg /\ Resumed /\ NewUntouched)'
  BY <1>1, <1>2, <1>3 DEF LiveInv, JobsWell, Busy, FgWaitedFor, WaitsForFg, Resumed, NewUntouched
<1>5. (StopsListed /\ NewsPending)'
  BY <1>1, <1>2, <1>3 DEF LiveInv, StopsListed, InHands, NewsPending, Busy
<1>6. /\ \A p \in Pids \ {q} : csig'[p] = csig[p]
      /\ csig'[q] # {} /\ q \in Pids =>
           csig[q] # {} \/ proc[q] \in {"running", "stopping", "stopped"}
  BY <1>1 DEF KeyKill, ChildrenInv, IInv, TypeOK
<1>7. \A i \in Slots : jobs[i].pid = q => jobs[i].state # "BG"
  BY <1>1 DEF ChildrenInv, IInv, KeyTargets
<1>8. jobs \in [Slots -> Job]
  BY DEF ChildrenInv, IInv, TypeOK
<1> HIDE DEF q
<1>9. KeysPending'
  <2>1. \A p \in Pids : csig'[p] # {} => proc[p] \in {"running", "stopping", "stopped"}
    BY <1>1, <1>6 DEF LiveInv, KeysPending
  <2>2. ASSUME NEW i \in Slots, Busy(i), jobs[i].state = "BG", "TSTP" \in csig'[jobs[i].pid]
        PROVE  pc = "sendcont" /\ pid = jobs[i].pid
    <3>1. jobs[i].pid \in Pids \ {q}
      BY <1>7, <1>8, <2>2 DEF Busy, Job
    <3> QED
      BY <1>1, <1>6, <2>2, <3>1 DEF LiveInv, KeysPending
  <2> QED
    BY <1>1, <1>2, <2>1, <2>2 DEF KeysPending, Busy
<1> QED
  BY <1>4, <1>5, <1>9 DEF OrderlyInv, LiveInv

-----------------------------------------------------------------------------
(* The children.                                                             *)

\* What the invariant says of the jobs does not depend on the children.
LEMMA JobsStay ==
  ASSUME OrderlyInv, UNCHANGED <<jobVars, mainVars>>
  PROVE  JobsWell' /\ FgWaitedFor' /\ (Alive => (WaitsForFg)')
BY DEF OrderlyInv, LiveInv, jobVars, mainVars, JobsWell, FgWaitedFor, WaitsForFg, Busy, Alive

\* A child that no one stops starts, or ends, unlisted as stopped.
LEMMA ChildGoesOn ==
  ASSUME ChildrenInv, OrderlyInv, NEW p \in Pids, UNCHANGED <<jobVars, mainVars, handlerVars>>,
         \A q \in Pids \ {p} : proc'[q] = proc[q] /\ csig'[q] = csig[q],
         proc[p] \in {"forked", "setup", "running"},
         \/ proc'[p] \in {"setup", "running"} /\ csig' = csig /\ pending' = pending
            /\ proc[p] # "running"
         \/ proc'[p] = "zombie" /\ csig'[p] = {} /\ "CHLD" \in pending'
  PROVE  OrderlyInv'
<1>0. /\ jobs' = jobs /\ pc' = pc /\ pid' = pid /\ slot' = slot /\ bg' = bg
      /\ depth' = depth /\ hpid' = hpid /\ hstat' = hstat /\ jobs \in [Slots -> Job]
  BY DEF jobVars, mainVars, handlerVars, ChildrenInv, IInv, TypeOK
<1> SUFFICES ASSUME Alive
             PROVE  (Resumed /\ StopsListed /\ KeysPending /\ NewUntouched /\ NewsPending)'
  BY <1>0, JobsStay DEF OrderlyInv, LiveInv, Alive
<1>1. LiveInv /\ JobsWell
  BY DEF OrderlyInv
<1>2. Resumed'
  BY <1>0, <1>1 DEF LiveInv, Resumed, Busy
<1>3. StopsListed'
  <2>1. \A i \in Slots : jobs[i].state = "ST" => jobs[i].pid \in Pids
    BY <1>0, <1>1 DEF JobsWell, Busy, clearjob, Job
  <2>2. \A i \in Slots : jobs[i].state = "ST" => proc'[jobs[i].pid] = "stopped"
    <3> SUFFICES ASSUME NEW i \in Slots, jobs[i].state = "ST"
                 PROVE  proc'[jobs[i].pid] = "stopped"
      OBVIOUS
    <3>1. jobs[i].pid \in Pids /\ proc[jobs[i].pid] = "stopped"
      BY <1>1, <2>1 DEF LiveInv, StopsListed
    <3> QED
      BY <3>1
  <2>3. \A q \in Pids : proc'[q] = "stopped" => proc[q] = "stopped"
    OBVIOUS
  <2>4. \A q \in Pids : InHands(q) => proc'[q] = "stopped"
    BY <1>1 DEF LiveInv, StopsListed
  <2>5. \A i \in Slots : Busy(i) /\ proc'[jobs[i].pid] = "stopping" => jobs[i].state = "FG"
    <3> SUFFICES ASSUME NEW i \in Slots, Busy(i), proc'[jobs[i].pid] = "stopping"
                 PROVE  jobs[i].state = "FG"
      OBVIOUS
    <3>1. jobs[i].pid \in Pids
      BY <1>0 DEF Busy, Job
    <3>2. proc[jobs[i].pid] = "stopping"
      BY <3>1
    <3> QED
      BY <1>1, <3>2 DEF LiveInv, StopsListed
  <2>6. \A q \in Pids : proc'[q] = "stopped" =>
           \/ \E i \in Slots : jobs[i].pid = q /\ jobs[i].state = "ST"
           \/ InHands(q) \/ (pc = "sendcont" /\ pid = q)
    BY <1>1, <2>3 DEF LiveInv, StopsListed
  <2>7. \A i \in Slots : InHands(jobs[i].pid) => jobs[i].state = "FG"
    BY <1>1 DEF LiveInv, StopsListed
  <2> QED
    BY <1>0, <2>2, <2>4, <2>5, <2>6, <2>7 DEF StopsListed, InHands, Busy
<1>4. KeysPending'
  <2>1. \A q \in Pids : csig'[q] # {} => proc'[q] \in {"running", "stopping", "stopped"}
    BY <1>1 DEF LiveInv, KeysPending
  <2>2. ASSUME NEW i \in Slots, Busy(i), jobs[i].state = "BG", "TSTP" \in csig'[jobs[i].pid]
        PROVE  pc = "sendcont" /\ pid = jobs[i].pid
    <3>1. jobs[i].pid \in Pids
      BY <1>0, <2>2 DEF Busy, Job
    <3>2. "TSTP" \in csig[jobs[i].pid]
      BY <2>2, <3>1
    <3> QED
      BY <1>1, <2>2, <3>2 DEF LiveInv, KeysPending
  <2> QED
    BY <1>0, <2>1, <2>2 DEF KeysPending, Busy
<1>5. NewUntouched'
  <2>1. pc = "add" => pid \in Pids
    BY DEF ChildrenInv, IInv, AddIsNew
  <2> QED
    BY <1>0, <1>1, <2>1 DEF LiveInv, NewUntouched
<1>6. NewsPending'
  BY <1>0, <1>1 DEF LiveInv, NewsPending
<1> QED
  BY <1>2, <1>3, <1>4, <1>5, <1>6

\* A program takes a ctrl-z: its job is in the foreground.
LEMMA ChildTakesTstpOrderly ==
  ASSUME ChildrenInv, OrderlyInv, NEW p \in Pids, ChildTakesTstp(p)
  PROVE  OrderlyInv'
<1>0. /\ jobs' = jobs /\ pc' = pc /\ pid' = pid /\ slot' = slot /\ bg' = bg
      /\ depth' = depth /\ hpid' = hpid /\ hstat' = hstat /\ jobs \in [Slots -> Job]
      /\ "CHLD" \in pending' /\ proc[p] = "running" /\ "TSTP" \in csig[p]
  BY DEF ChildTakesTstp, News, jobVars, mainVars, handlerVars, ChildrenInv, IInv, TypeOK
<1>1. /\ proc'[p] = "stopping" /\ csig'[p] = csig[p] \ {"TSTP"}
      /\ \A q \in Pids \ {p} : proc'[q] = proc[q] /\ csig'[q] = csig[q]
  BY DEF ChildTakesTstp, ChildrenInv, IInv, TypeOK
<1> SUFFICES ASSUME Alive
             PROVE  (Resumed /\ StopsListed /\ KeysPending /\ NewUntouched /\ NewsPending)'
  BY <1>0, JobsStay DEF ChildTakesTstp, OrderlyInv, LiveInv, Alive
<1>2. LiveInv /\ JobsWell
  BY DEF OrderlyInv
<1>3. Resumed'
  BY <1>0, <1>1, <1>2 DEF LiveInv, Resumed, Busy
<1>4. \A i \in Slots : jobs[i].pid = p => jobs[i].state = "FG"
  <2> SUFFICES ASSUME NEW i \in Slots, jobs[i].pid = p
               PROVE  jobs[i].state = "FG"
    OBVIOUS
  <2>1. Busy(i)
    BY JobListAssumption DEF Busy
  <2>2. jobs[i].state # "UNDEF"
    BY <1>2, <2>1 DEF JobsWell
  <2>3. jobs[i].state # "ST"
    BY <1>0, <1>2 DEF LiveInv, StopsListed
  <2>4. jobs[i].state # "BG"
    BY <1>0, <1>2, <2>1 DEF LiveInv, KeysPending, Resumed
  <2> QED
    BY <1>0, <2>2, <2>3, <2>4 DEF Job, JobStates
<1>5. StopsListed'
  <2>1. \A i \in Slots : jobs[i].state = "ST" => jobs[i].pid \in Pids \ {p}
    BY <1>0, <1>2, <1>4 DEF JobsWell, Busy, clearjob, Job
  <2>2. \A i \in Slots : jobs[i].state = "ST" => proc'[jobs[i].pid] = "stopped"
    BY <1>1, <1>2, <2>1 DEF LiveInv, StopsListed
  <2>3. \A q \in Pids : proc'[q] = "stopped" =>
           \/ \E i \in Slots : jobs[i].pid = q /\ jobs[i].state = "ST"
           \/ InHands(q) \/ (pc = "sendcont" /\ pid = q)
    BY <1>1, <1>2 DEF LiveInv, StopsListed
  <2>4. \A q \in Pids : InHands(q) => proc'[q] = "stopped"
    BY <1>0, <1>1, <1>2 DEF LiveInv, StopsListed
  <2>5. \A i \in Slots : Busy(i) /\ proc'[jobs[i].pid] = "stopping" => jobs[i].state = "FG"
    <3> SUFFICES ASSUME NEW i \in Slots, Busy(i), proc'[jobs[i].pid] = "stopping",
                        jobs[i].pid # p
                 PROVE  jobs[i].state = "FG"
      BY <1>4
    <3>1. jobs[i].pid \in Pids
      BY <1>0 DEF Busy, Job
    <3>2. proc[jobs[i].pid] = "stopping"
      BY <1>1, <3>1
    <3> QED
      BY <1>2, <3>2 DEF LiveInv, StopsListed
  <2>6. \A i \in Slots : InHands(jobs[i].pid) => jobs[i].state = "FG"
    BY <1>2 DEF LiveInv, StopsListed
  <2> QED
    BY <1>0, <2>2, <2>3, <2>4, <2>5, <2>6 DEF StopsListed, InHands, Busy
<1>6. KeysPending'
  <2>1. \A q \in Pids : csig'[q] # {} => proc'[q] \in {"running", "stopping", "stopped"}
    BY <1>0, <1>1, <1>2 DEF LiveInv, KeysPending
  <2>2. ASSUME NEW i \in Slots, Busy(i), jobs[i].state = "BG", "TSTP" \in csig'[jobs[i].pid]
        PROVE  pc = "sendcont" /\ pid = jobs[i].pid
    <3>1. jobs[i].pid \in Pids \ {p}
      BY <1>0, <1>4, <2>2 DEF Busy, Job
    <3>2. "TSTP" \in csig[jobs[i].pid]
      BY <1>1, <2>2, <3>1
    <3> QED
      BY <1>2, <2>2, <3>2 DEF LiveInv, KeysPending
  <2> QED
    BY <1>0, <2>1, <2>2 DEF KeysPending, Busy
<1>7. NewUntouched'
  <2>1. pc = "add" => pid \in Pids
    BY DEF ChildrenInv, IInv, AddIsNew
  <2> QED
    BY <1>0, <1>1, <1>2, <2>1 DEF LiveInv, NewUntouched
<1>8. NewsPending'
  BY <1>0 DEF NewsPending
<1> QED
  BY <1>3, <1>5, <1>6, <1>7, <1>8

\* Children start, take keys and end; nothing else reaches them.
LEMMA ChildOrderly ==
  ASSUME Orderly, ChildrenInv, OrderlyInv, NEW p \in Pids, Child(p)
  PROVE  OrderlyInv'
<1>1. UNCHANGED <<jobVars, mainVars, handlerVars>>
  BY ChildMoves DEF ChildrenInv
<1>2. proc \in [Pids -> ProcStates] /\ csig \in [Pids -> SUBSET {"INT", "TSTP"}]
  BY DEF ChildrenInv, IInv, TypeOK
<1>3. CASE ChildSetpgid(p) \/ ChildExec(p) \/ ChildExit(p) \/ ChildTakesInt(p)
  <2>1. /\ \A q \in Pids \ {p} : proc'[q] = proc[q] /\ csig'[q] = csig[q]
        /\ proc[p] \in {"forked", "setup", "running"}
        /\ \/ proc'[p] \in {"setup", "running"} /\ csig' = csig /\ pending' = pending
              /\ proc[p] # "running"
           \/ proc'[p] = "zombie" /\ csig'[p] = {} /\ "CHLD" \in pending'
    BY <1>2, <1>3 DEF ChildSetpgid, ChildExec, ChildExit, ChildTakesInt, News
  <2> QED
    BY <1>1, <2>1, ChildGoesOn
<1>4. CASE ChildTakesTstp(p)
  BY <1>4, ChildTakesTstpOrderly
<1>5. ~OutsideStop(p) /\ ~OutsideKill(p)
  BY DEF Orderly, OutsideStop, OutsideKill
<1> QED
  BY <1>3, <1>4, <1>5 DEF Child, Starts, TakesKey

-----------------------------------------------------------------------------
\* Every step keeps the invariant.
LEMMA NextOrderly ==
  ASSUME Orderly, ChildrenInv, OrderlyInv, [Next]_vars
  PROVE  ChildrenInv' /\ OrderlyInv'
<1>1. ChildrenInv'
  BY NextChildren, OrderlyFreeSlot DEF ChildrenInv, IInv, OrderlyInv
<1> SUFFICES OrderlyInv'
  BY <1>1
<1>2. CASE Command
  BY <1>2, ForkOrderly, BgFgReadsOrderly, EndsOrderly DEF Command
<1>3. CASE MainWaits
  BY <1>3, RunAddOrderly, WaitFgOrderly DEF MainWaits
<1>4. CASE MainResumes
  BY <1>4, BgFgReadsOrderly, BgFgSetStateOrderly, BgFgSendContOrderly, FgWaitsOrderly
     DEF MainResumes
<1>5. CASE ChldStep
  BY <1>5, ChldWaitOrderly, ChldDoneOrderly, ChldDeleteOrderly, ChldStopOrderly DEF ChldStep
<1>6. CASE \E s \in Sigs : Type(s) \/ Deliver(s) \/ KeyStep(s)
  BY <1>6, SignalOrderly, KeyFgpidOrderly, KeyKillOrderly DEF KeyStep
<1>7. CASE \E p \in Pids : Child(p)
  BY <1>7, ChildOrderly
<1>8. CASE UNCHANGED vars
  <2>1. (Alive => Resumed /\ NewUntouched)'
    BY <1>8 DEF vars, OrderlyInv, LiveInv, Resumed, NewUntouched, Busy, Alive
  <2>2. (Alive => StopsListed)'
    BY <1>8 DEF vars, OrderlyInv, LiveInv, StopsListed, InHands, Busy, Alive
  <2>3. (Alive => KeysPending /\ NewsPending)'
    BY <1>8 DEF vars, OrderlyInv, LiveInv, KeysPending, NewsPending, Busy, Alive
  <2> QED
    BY <1>8, <2>1, <2>2, <2>3, JobsStay DEF vars, jobVars, mainVars, OrderlyInv, LiveInv, Alive
<1> QED
  BY <1>2, <1>3, <1>4, <1>5, <1>6, <1>7, <1>8 DEF Next

-----------------------------------------------------------------------------
(* Orderly use keeps the invariant, for any number of children, any size of  *)
(* the job list, and whatever the uninitialized mask of exec_bgfg holds.     *)
THEOREM OrderlyInvariance ==
  ASSUME Orderly
  PROVE  Spec => [](ChildrenInv /\ OrderlyInv)
<1>1. Init => ChildrenInv /\ OrderlyInv
  BY InitChildren, InitOrderly
<1>2. ChildrenInv /\ OrderlyInv /\ [Next]_vars => (ChildrenInv /\ OrderlyInv)'
  BY NextOrderly
<1> QED
  BY <1>1, <1>2, PTL DEF Spec

(* Used in an orderly way the shell has at most one job in the foreground:   *)
(* the one eval or exec_bgfg waits for.                                      *)
THEOREM OneForegroundJob ==
  ASSUME Orderly
  PROVE  Spec => []AtMostOneFG
<1>1. ChildrenInv /\ OrderlyInv => AtMostOneFG
  BY DEF ChildrenInv, IInv, OneSlotPerPid, OrderlyInv, FgWaitedFor, AtMostOneFG, InForeground
<1> QED
  BY <1>1, OrderlyInvariance, PTL

(* No two jobs ever share a job id, though nextjid goes back whenever a job  *)
(* is deleted.                                                               *)
THEOREM DistinctJobIds ==
  ASSUME Orderly
  PROVE  Spec => []JobIdsDistinct
<1>1. ChildrenInv /\ OrderlyInv => JobIdsDistinct
  BY DEF OrderlyInv, JobsWell, Busy, JobIdsDistinct
<1> QED
  BY <1>1, OrderlyInvariance, PTL

(* At its prompt, with every signal handled, the list of jobs tells for each *)
(* of them whether the kernel has stopped it.                                *)
THEOREM ListingTrue ==
  ASSUME Orderly
  PROVE  Spec => []QuietListing
<1>1. ASSUME ChildrenInv, OrderlyInv
      PROVE  QuietListing
  <2> SUFFICES ASSUME pc = "prompt", MainRuns, pending = {}, NEW i \in Slots,
                      jobs[i].pid # NoPid
               PROVE  IF proc[jobs[i].pid] = "stopped" THEN jobs[i].state = "ST"
                      ELSE /\ jobs[i].state = "BG"
                           /\ proc[jobs[i].pid] \in {"forked", "setup", "running"}
    BY DEF QuietListing
  <2> DEFINE p == jobs[i].pid
  <2>1. LiveInv /\ JobsWell /\ FgWaitedFor /\ hpid["CHLD"] = NoPid /\ depth["CHLD"] = 0
    BY <1>1, MainAlone DEF OrderlyInv, Alive, ChildrenInv, Sigs
  <2>2. /\ p \in Pids /\ jobs[i].state \in JobStates /\ proc[p] \in ProcStates
    BY <1>1 DEF ChildrenInv, IInv, TypeOK, Job
  <2>3. jobs[i].state \in {"BG", "ST"}
    BY <1>1, <2>1, <2>2 DEF JobsWell, Busy, FgWaitedFor, JobStates
  <2>4. proc[p] \notin {"none", "zombie", "stopping"}
    BY <1>1, <2>1, <2>2
       DEF ChildrenInv, IInv, ListedAreChildren, Collecting, LiveInv, NewsPending
  <2>5. CASE proc[p] = "stopped"
    <3>1. PICK j \in Slots : jobs[j].pid = p /\ jobs[j].state = "ST"
      BY <2>1, <2>2, <2>5 DEF LiveInv, StopsListed, InHands
    <3> QED
      BY <1>1, <2>5, <3>1 DEF ChildrenInv, IInv, OneSlotPerPid
  <2>6. CASE proc[p] # "stopped"
    <3>1. jobs[i].state # "ST"
      BY <2>1, <2>6 DEF LiveInv, StopsListed
    <3> QED
      BY <2>2, <2>3, <2>4, <2>6, <3>1 DEF ProcStates
  <2> QED
    BY <2>5, <2>6
<1> QED
  BY <1>1, OrderlyInvariance, PTL

(* eval goes back to the prompt from its wait loop only when the job it      *)
(* started has been collected, or is listed as stopped.                      *)
THEOREM EvalWaits ==
  ASSUME Orderly
  PROVE  Spec => ForegroundWaited
<1> DEFINE Waited == pc = "waitfg" /\ pc' = "prompt" =>
                       proc[pid] = "none" \/ (Listed(jobs, pid)
                                              /\ jobs[getjobpid(jobs, pid)].state = "ST")
<1>1. ASSUME ChildrenInv, OrderlyInv, [Next]_vars
      PROVE  [Waited]_vars
  <2> SUFFICES ASSUME pc = "waitfg", pc' = "prompt", proc[pid] # "none"
               PROVE  Listed(jobs, pid) /\ jobs[getjobpid(jobs, pid)].state = "ST"
    OBVIOUS
  <2>1. LiveInv /\ FgWaitedFor /\ jobs \in [Slots -> Job] /\ TypeOK
    BY <1>1 DEF OrderlyInv, Alive, ChildrenInv, IInv, TypeOK
  <2>2. pid \in Pids /\ Listed(jobs, pid)
    BY <1>1, <2>1 DEF ChildrenInv, ChildrenAreListed, LiveInv, WaitsForFg
  <2>3. /\ getjobpid(jobs, pid) \in Slots
        /\ jobs[getjobpid(jobs, pid)].pid = pid
    BY <2>1, <2>2, GetjobpidFinds
  <2>4. jobs[getjobpid(jobs, pid)].state \in {"FG", "ST"}
    BY <2>1, <2>3 DEF LiveInv, WaitsForFg
  <2>5. WaitFg
    <3>1. \A s \in Sigs : ~Runs(s)
      BY <1>1, HandlerRuns DEF ChildrenInv
    <3>2. ~ChldStep /\ \A s \in Sigs : ~KeyStep(s)
      BY <3>1 DEF ChldStep, ChldWait, ChldDone, ChldDelete, ChldStop, KeyStep, KeyFgpid,
                  KeyKill, Sigs
    <3>3. ~Command /\ ~MainResumes /\ ~RunAdd /\ ~UNCHANGED vars
      BY DEF Command, Fork, BgFgPid, BgFgJid, BgFgUnknown, Exit, MainResumes, BgFgReadPid,
             BgFgSetState, BgFgSendCont, FgCheck, FgCall, RunAdd, vars
    <3>4. \A s \in Sigs : ~Type(s) /\ ~Deliver(s)
      BY DEF Type, Deliver, mainVars
    <3>5. \A p \in Pids : ~Child(p)
      BY <1>1, ChildMoves DEF mainVars, ChildrenInv
    <3> QED
      BY <1>1, <3>2, <3>3, <3>4, <3>5 DEF Next, MainWaits
  <2>6. pid # fgpid(jobs)
    BY <2>5 DEF WaitFg, Goto
  <2> QED
    BY <2>1, <2>2, <2>3, <2>4, <2>6, FgpidIs
<1> QED
  BY <1>1, OrderlyInvariance, PTL DEF Spec, ForegroundWaited

-----------------------------------------------------------------------------
(* The shell implements the job control of its header comment.  A step of    *)
(* the shell that changes the list is one of its transitions; jobOf says of  *)
(* a pid what its slot says.                                                 *)
StateIn(list, p) == IF Listed(list, p) THEN list[getjobpid(list, p)].state ELSE "none"

\* The state of a process is that of the one slot that holds it.
LEMMA StateOfSlot ==
  ASSUME NEW list \in [Slots -> Job], NEW i \in Slots, list[i].pid # NoPid,
         \A j \in Slots : list[j].pid = list[i].pid => j = i
  PROVE  StateIn(list, list[i].pid) = list[i].state
<1>1. Listed(list, list[i].pid)
  BY DEF Listed, HoldingPid
<1>2. getjobpid(list, list[i].pid) = i
  BY <1>1, GetjobpidFinds
<1> QED
  BY <1>1, <1>2 DEF StateIn

\* A process in no slot has no job.
LEMMA StateOfUnlisted ==
  ASSUME NEW list \in [Slots -> Job], NEW p \in Pids, \A i \in Slots : list[i].pid # p
  PROVE  StateIn(list, p) = "none"
BY DEF StateIn, Listed, HoldingPid

\* Two lists that differ in slot i only, which holds p in one of them and nothing but
\* p in either, give every other process the same state.
LEMMA StatesElsewhere ==
  ASSUME NEW old \in [Slots -> Job], NEW new \in [Slots -> Job], NEW i \in Slots,
         NEW p \in Pids,
         \A j \in Slots \ {i} : new[j] = old[j],
         old[i].pid \in {p, NoPid}, new[i].pid \in {p, NoPid},
         \A j, k \in Slots : old[j].pid = old[k].pid /\ old[j].pid # NoPid => j = k
  PROVE  \A q \in Pids \ {p} : StateIn(new, q) = StateIn(old, q)
<1> SUFFICES ASSUME NEW q \in Pids \ {p} PROVE StateIn(new, q) = StateIn(old, q)
  OBVIOUS
<1>1. old[i].pid # q /\ new[i].pid # q
  BY JobListAssumption
<1>2. CASE \E j \in Slots : old[j].pid = q
  <2>1. PICK j \in Slots : old[j].pid = q
    BY <1>2
  <2>2. j # i /\ new[j] = old[j] /\ q # NoPid
    BY <1>1, <2>1, JobListAssumption
  <2>3. StateIn(old, q) = old[j].state
    BY <2>1, <2>2, StateOfSlot
  <2>4. \A k \in Slots : new[k].pid = q => k = j
    BY <1>1, <2>1, <2>2
  <2>5. StateIn(new, q) = new[j].state
    BY <2>1, <2>2, <2>4, StateOfSlot
  <2> QED
    BY <2>2, <2>3, <2>5
<1>3. CASE \A j \in Slots : old[j].pid # q
  <2>1. \A j \in Slots : new[j].pid # q
    BY <1>1, <1>3
  <2> QED
    BY <1>3, <2>1, StateOfUnlisted
<1> QED
  BY <1>2, <1>3

\* What a change of one job means to the abstract job control.
LEMMA BecomeOf ==
  ASSUME NEW p \in Pids, \A q \in Pids \ {p} : StateIn(jobs', q) = StateIn(jobs, q)
  PROVE  JC!Become(p, StateIn(jobs', p))
<1>1. /\ jobOf = [q \in Pids |-> StateIn(jobs, q)]
      /\ jobOf' = [q \in Pids |-> StateIn(jobs', q)]
  BY DEF jobOf, StateIn
<1> HIDE DEF jobOf
<1> QED
  BY <1>1 DEF JC!Become

\* No process is in the foreground while no slot is.
LEMMA NoForegroundJob ==
  ASSUME TypeOK, \A i \in Slots : jobs[i].state # "FG"
  PROVE  JC!NoForeground
<1> SUFFICES ASSUME NEW p \in Pids PROVE StateIn(jobs, p) # "FG"
  BY DEF JC!NoForeground, jobOf, StateIn
<1> QED
  BY GetjobpidFinds DEF TypeOK, StateIn

\* The job of process p is the one of the slot that holds it.
LEMMA JobOfSlot ==
  ASSUME IInv, NEW i \in Slots, jobs[i].pid # NoPid
  PROVE  jobs[i].pid \in Pids /\ jobOf[jobs[i].pid] = jobs[i].state
<1>1. jobs \in [Slots -> Job] /\ jobs[i].pid \in Pids
  BY DEF IInv, TypeOK, Job
<1>2. StateIn(jobs, jobs[i].pid) = jobs[i].state
  BY <1>1, StateOfSlot DEF IInv, OneSlotPerPid
<1> QED
  BY <1>1, <1>2 DEF jobOf, StateIn

\* addjob starts a job, when no other is in the foreground.
LEMMA RunAddStarts ==
  ASSUME Orderly, ChildrenInv, OrderlyInv, RunAdd
  PROVE  JC!StartFg(pid) \/ JC!StartBg(pid)
<1> DEFINE s == IF bg THEN "BG" ELSE "FG"
           k == First(FreeSlots(jobs))
           new == [pid |-> pid, jid |-> nextjid, state |-> s]
<1>1. /\ TypeOK /\ jobs \in [Slots -> Job] /\ nextjid \in Nat /\ pid \in Pids
      /\ \A i \in Slots : jobs[i].pid # pid
      /\ \A i \in Slots : jobs[i].state # "FG"
  BY DEF RunAdd, ChildrenInv, IInv, TypeOK, AddIsNew, OrderlyInv, FgWaitedFor
<1>2. FreeSlots(jobs) # {}
  BY <1>1, OrderlyFreeSlot DEF RunAdd, OrderlyInv
<1>3. k \in Slots /\ jobs[k].pid = NoPid
  BY <1>2, FirstInSet DEF FreeSlots, HoldingPid
<1>4. jobs' = [jobs EXCEPT ![k] = new] /\ new \in Job /\ s \in {"FG", "BG"}
  BY <1>1, <1>2 DEF RunAdd, addjob, Job, JobStates
<1> HIDE DEF k, s
<1>5. /\ jobs' \in [Slots -> Job] /\ jobs'[k].pid = pid /\ jobs'[k].state = s
      /\ \A i \in Slots \ {k} : jobs'[i] = jobs[i]
  BY <1>1, <1>3, <1>4
<1>6. StateIn(jobs', pid) = s
  <2>1. \A j \in Slots : jobs'[j].pid = jobs'[k].pid => j = k
    BY <1>1, <1>5
  <2> QED
    BY <1>1, <1>3, <1>5, <2>1, StateOfSlot, JobListAssumption
<1>7. \A q \in Pids \ {pid} : StateIn(jobs', q) = StateIn(jobs, q)
  <2>1. \A j, i \in Slots : jobs[j].pid = jobs[i].pid /\ jobs[j].pid # NoPid => j = i
    BY DEF ChildrenInv, IInv, OneSlotPerPid
  <2> QED
    BY <1>1, <1>3, <1>5, <2>1, StatesElsewhere
<1>8. JC!Become(pid, s)
  BY <1>1, <1>6, <1>7, BecomeOf
<1>9. jobOf[pid] = "none" /\ JC!NoForeground
  <2>1. jobOf[pid] = StateIn(jobs, pid)
    BY <1>1 DEF jobOf, StateIn
  <2> QED
    BY <1>1, <2>1, StateOfUnlisted, NoForegroundJob
<1> QED
  BY <1>4, <1>8, <1>9 DEF JC!StartFg, JC!StartBg

\* exec_bgfg moves a stopped job to the foreground or the background.
LEMMA SetStateResumes ==
  ASSUME ChildrenInv, OrderlyInv, BgFgSetState
  PROVE  JC!Fg(pid) \/ JC!Bg(pid)
<1> DEFINE s == IF bg THEN "BG" ELSE "FG"
<1>1. /\ LiveInv /\ FgWaitedFor /\ TypeOK /\ pc = "setstate" /\ jobs \in [Slots -> Job]
      /\ \A j, k \in Slots : jobs[j].pid = jobs[k].pid /\ jobs[j].pid # NoPid => j = k
  BY DEF BgFgSetState, OrderlyInv, MainRuns, ChildrenInv, IInv, TypeOK, OneSlotPerPid
<1>2. /\ slot \in Slots /\ jobs[slot].pid = pid /\ pid \in Pids /\ jobs[slot].state = "ST"
  BY <1>1 DEF LiveInv, Resumed, Busy, Job
<1>3. s \in {"FG", "BG"} /\ s \in JobStates /\ jobs' = WithState(jobs, slot, s)
  BY DEF BgFgSetState, JobStates
<1> HIDE DEF s
<1>4. /\ jobs' \in [Slots -> Job] /\ jobs'[slot].pid = pid /\ jobs'[slot].state = s
      /\ \A j \in Slots \ {slot} : jobs'[j] = jobs[j]
  BY <1>1, <1>2, <1>3, WithStateSets
<1>5. StateIn(jobs', pid) = s
  <2>1. \A j \in Slots : jobs'[j].pid = jobs'[slot].pid => j = slot
    BY <1>1, <1>2, <1>4, JobListAssumption
  <2> QED
    BY <1>2, <1>4, <2>1, StateOfSlot, JobListAssumption
<1>6. \A q \in Pids \ {pid} : StateIn(jobs', q) = StateIn(jobs, q)
  BY <1>1, <1>2, <1>4, StatesElsewhere
<1>7. JC!Become(pid, s)
  BY <1>2, <1>5, <1>6, BecomeOf
<1>8. jobOf[pid] = "ST" /\ JC!NoForeground
  BY <1>1, <1>2, JobOfSlot, NoForegroundJob, JobListAssumption DEF ChildrenInv, FgWaitedFor
<1> QED
  BY <1>3, <1>7, <1>8 DEF JC!Fg, JC!Bg

\* The SIGCHLD handler's write of ST is the ctrl-z of the job in the foreground.
LEMMA ChldStopIsCtrlZ ==
  ASSUME ChildrenInv, OrderlyInv, ChldStop
  PROVE  JC!CtrlZ(hpid["CHLD"])
<1> DEFINE p == hpid["CHLD"]
           i == getjobpid(jobs, p)
<1>1. p \in Pids /\ Listed(jobs, p) /\ jobs[i].state = "FG"
  BY StoppedInHands
<1>2. /\ jobs \in [Slots -> Job] /\ jobs' = WithState(jobs, i, "ST") /\ "ST" \in JobStates
      /\ \A j, k \in Slots : jobs[j].pid = jobs[k].pid /\ jobs[j].pid # NoPid => j = k
  BY <1>1 DEF ChldStop, ChildrenInv, IInv, TypeOK, OneSlotPerPid, JobStates
<1> HIDE DEF p
<1>3. i \in Slots /\ jobs[i].pid = p
  BY <1>1, <1>2, GetjobpidFinds
<1> HIDE DEF i
<1>4. /\ jobs' \in [Slots -> Job] /\ jobs'[i].pid = p /\ jobs'[i].state = "ST"
      /\ \A j \in Slots \ {i} : jobs'[j] = jobs[j]
  BY <1>2, <1>3, WithStateSets
<1>5. StateIn(jobs', p) = "ST"
  <2>1. \A j \in Slots : jobs'[j].pid = jobs'[i].pid => j = i
    BY <1>1, <1>2, <1>3, <1>4, JobListAssumption
  <2> QED
    BY <1>1, <1>3, <1>4, <2>1, StateOfSlot, JobListAssumption
<1>6. \A q \in Pids \ {p} : StateIn(jobs', q) = StateIn(jobs, q)
  BY <1>1, <1>2, <1>3, <1>4, StatesElsewhere
<1>7. JC!Become(p, "ST")
  BY <1>1, <1>5, <1>6, BecomeOf
<1>8. jobOf[p] = "FG"
  BY <1>1, <1>3, JobOfSlot, JobListAssumption DEF ChildrenInv
<1> QED
  BY <1>7, <1>8 DEF JC!CtrlZ, p

\* deletejob ends a job.
LEMMA ChldDeleteEnds ==
  ASSUME ChildrenInv, OrderlyInv, ChldDelete
  PROVE  (\E p \in Pids : JC!End(p)) \/ UNCHANGED jobOf
<1> DEFINE p == hpid["CHLD"]
<1>1. /\ p \in Pids /\ jobs \in [Slots -> Job] /\ nextjid \in Nat
      /\ jobs' = deletejob(jobs, p)
      /\ \A j, k \in Slots : jobs[j].pid = jobs[k].pid /\ jobs[j].pid # NoPid => j = k
  BY DEF ChldDelete, ChildrenInv, IInv, TypeOK, OneSlotPerPid, Sigs
<1> HIDE DEF p
<1>2. CASE ~Listed(jobs, p)
  <2>1. jobs' = jobs
    BY <1>1, <1>2 DEF deletejob
  <2> QED
    BY <2>1 DEF jobOf
<1>3. CASE Listed(jobs, p)
  <2>1. jobs' \in [Slots -> Job]
    BY <1>1, DeletejobClears
  <2>2. PICK i \in Slots : jobs[i].pid = p /\ jobs'[i] = clearjob
                           /\ \A j \in Slots \ {i} : jobs'[j] = jobs[j]
    <3>1. \E i \in Slots : jobs[i].pid = p
      BY <1>3 DEF Listed, HoldingPid
    <3>2. p # NoPid
      BY <1>1, JobListAssumption
    <3>3. \/ deletejob(jobs, p) = jobs /\ (p = NoPid \/ \A i \in Slots : jobs[i].pid # p)
          \/ \E i \in Slots : /\ jobs[i].pid = p /\ deletejob(jobs, p)[i] = clearjob
                              /\ \A j \in Slots \ {i} : deletejob(jobs, p)[j] = jobs[j]
      <4>1. jobs \in [Slots -> Job] /\ nextjid \in Nat
        BY <1>1
      <4> QED
        BY <4>1, DeletejobClears
    <3>4. \E i \in Slots : /\ jobs[i].pid = p /\ deletejob(jobs, p)[i] = clearjob
                          /\ \A j \in Slots \ {i} : deletejob(jobs, p)[j] = jobs[j]
      BY <3>1, <3>2, <3>3
    <3>5. jobs' = deletejob(jobs, p)
      BY <1>1
    <3> QED
      BY <3>4, <3>5, Zenon
  <2>3. clearjob.pid = NoPid
    BY DEF clearjob
  <2>4. \A j \in Slots : jobs'[j].pid # p
    BY <1>1, <2>2, <2>3, JobListAssumption
  <2>5. StateIn(jobs', p) = "none"
    BY <1>1, <2>1, <2>4, StateOfUnlisted
  <2>6. \A q \in Pids \ {p} : StateIn(jobs', q) = StateIn(jobs, q)
    BY <1>1, <2>1, <2>2, <2>3, StatesElsewhere
  <2>7. JC!Become(p, "none")
    BY <1>1, <2>5, <2>6, BecomeOf
  <2>8. jobOf[p] = jobs[i].state /\ jobs[i].state # "none"
    BY <1>1, <2>2, JobOfSlot, JobListAssumption DEF ChildrenInv, Job, JobStates
  <2> QED
    BY <1>1, <2>7, <2>8 DEF JC!End
<1> QED
  BY <1>2, <1>3

\* Every other step leaves the list as it is.
LEMMA OthersKeepJobs ==
  ASSUME ChildrenInv, [Next]_vars, ~RunAdd, ~BgFgSetState, ~ChldStop, ~ChldDelete
  PROVE  UNCHANGED jobs
<1>1. CASE Command
  BY <1>1 DEF Command, Fork, BgFgPid, BgFgJid, BgFgUnknown, Exit, jobVars
<1>2. CASE MainWaits \/ MainResumes
  BY <1>2 DEF MainWaits, WaitFg, MainResumes, BgFgReadPid, BgFgSendCont, FgCheck, FgCall, jobVars
<1>3. CASE ChldStep
  BY <1>3 DEF ChldStep, ChldWait, ChldDone, jobVars
<1>4. CASE \E s \in Sigs : Type(s) \/ Deliver(s) \/ KeyStep(s)
  BY <1>4 DEF Type, Deliver, KeyStep, KeyFgpid, KeyKill, jobVars
<1>5. CASE \E p \in Pids : Child(p)
  BY <1>5, ChildMoves DEF ChildrenInv, jobVars
<1> QED
  BY <1>1, <1>2, <1>3, <1>4, <1>5 DEF Next, vars

(* The shell implements the job control its header comment describes: jobs   *)
(* start in the foreground or the background, ctrl-z stops the one in the    *)
(* foreground, fg and bg resume a stopped one when none is in the            *)
(* foreground, and jobs end; nothing else ever changes a job's state.        *)
THEOREM JobControlImplemented ==
  ASSUME Orderly
  PROVE  Spec => ImplementsJobControl
<1>1. Init => JC!Init
  <2> SUFFICES ASSUME Init PROVE JC!Init
    OBVIOUS
  <2>1. \A p \in Pids : ~Listed(jobs, p)
    BY JobListAssumption DEF Init, initjobs, clearjob, Listed, HoldingPid
  <2> QED
    BY <2>1 DEF JC!Init, jobOf
<1>2. ASSUME ChildrenInv, OrderlyInv, [Next]_vars
      PROVE  [JC!Next]_jobOf
  <2>1. CASE RunAdd
    <3>1. pid \in Pids
      BY <1>2, <2>1 DEF RunAdd, ChildrenInv, IInv, AddIsNew
    <3> QED
      BY <1>2, <2>1, <3>1, RunAddStarts DEF JC!Next
  <2>2. CASE BgFgSetState
    <3>1. pid \in Pids
      BY <1>2, <2>2 DEF BgFgSetState, MainRuns, OrderlyInv, LiveInv, Resumed, Busy, ChildrenInv,
                        IInv, TypeOK, Job
    <3> QED
      BY <1>2, <2>2, <3>1, SetStateResumes DEF JC!Next
  <2>3. CASE ChldStop
    BY <1>2, <2>3, StoppedInHands, ChldStopIsCtrlZ DEF JC!Next
  <2>4. CASE ChldDelete
    BY <1>2, <2>4, ChldDeleteEnds DEF JC!Next
  <2>5. CASE ~RunAdd /\ ~BgFgSetState /\ ~ChldStop /\ ~ChldDelete
    <3>1. UNCHANGED jobs
      BY <1>2, <2>5, OthersKeepJobs
    <3> QED
      BY <3>1 DEF jobOf
  <2> QED
    BY <2>1, <2>2, <2>3, <2>4, <2>5
<1> QED
  BY <1>1, <1>2, OrderlyInvariance, PTL DEF Spec, ImplementsJobControl, JC!Spec
=============================================================================
