----------------------------- MODULE TshProofs -----------------------------
(* The safety of the shell for any number of children, any size of the job   *)
(* list, any commands, keystrokes, outside signals and garbage masks.        *)
EXTENDS Tsh, JobListProofs, FiniteSetTheorems

\* At most two handlers are under way when a third one starts.
LEMMA NestingBound ==
  ASSUME NEW s \in Sigs, NEW T \in SUBSET (Sigs \ {s})
  PROVE  Cardinality(T) \in 0..2
<1>1. PICK a, b : Sigs \ {s} = {a, b}
  BY DEF Sigs
<1>2. {a, b} = {a} \cup {b}
  OBVIOUS
<1>3. IsFiniteSet({a, b}) /\ Cardinality({a, b}) <= 2 /\ Cardinality({a, b}) \in Nat
  <2>1. IsFiniteSet({a}) /\ Cardinality({a}) = 1
    BY FS_Singleton
  <2>2. IsFiniteSet({a} \cup {b})
        /\ Cardinality({a} \cup {b}) = IF b \in {a} THEN Cardinality({a}) ELSE Cardinality({a}) + 1
    BY <2>1, FS_AddElement
  <2> QED
    BY <1>2, <2>1, <2>2
<1>4. IsFiniteSet(T) /\ Cardinality(T) <= Cardinality({a, b})
  BY <1>1, <1>3, FS_Subset
<1> QED
  BY <1>3, <1>4, FS_CardinalityType

\* The empty job list, with nothing forked and no handler running, satisfies the invariant.
LEMMA InitInv == Init => IInv
<1> SUFFICES ASSUME Init PROVE IInv
  OBVIOUS
<1>1. initjobs \in [Slots -> Job]
  BY DEF initjobs, clearjob, Job, JobStates
<1>2. TypeOK
  <2>1. /\ depth \in [Sigs -> 0..3] /\ hpid \in [Sigs -> Pids \cup {NoPid}]
        /\ proc \in [Pids -> ProcStates] /\ csig \in [Pids -> SUBSET {"INT", "TSTP"}]
    BY DEF Init, ProcStates
  <2>2. slot \in 0..MAXJOBS /\ nextjid \in Nat /\ pc \in PCs /\ prev \in SUBSET Sigs
    BY JobListAssumption DEF Init, PCs
  <2> QED
    BY <1>1, <2>1, <2>2 DEF Init, TypeOK
<1> QED
  BY <1>2 DEF Init, IInv, HandlersNest, AddIsNew, SlotInUse, KeyTargets, ListedAreChildren,
              OneSlotPerPid, initjobs, clearjob, Sigs

-----------------------------------------------------------------------------
(* Every step of the main loop preserves the invariant.                      *)

\* Goto and BackToPrompt keep the main loop's variables within their types.
LEMMA MainTypes ==
  ASSUME IInv, NEW where \in PCs, Goto(where) \/ BackToPrompt
  PROVE  /\ pc' \in PCs /\ pid' \in Pids \cup {NoPid} /\ slot' \in 0..MAXJOBS
         /\ bg' \in BOOLEAN /\ prev' \in SUBSET Sigs
<1>1. CASE Goto(where)
  BY <1>1 DEF Goto, IInv, TypeOK
<1>2. CASE BackToPrompt
  <2>1. 0 \in 0..MAXJOBS /\ "prompt" \in PCs
    BY JobListAssumption DEF PCs
  <2> QED
    BY <1>2, <2>1 DEF BackToPrompt
<1> QED
  BY <1>1, <1>2

\* No handler is under way, so no handler holds a pid.
LEMMA MainAlone ==
  ASSUME IInv, MainRuns
  PROVE  \A s \in Sigs : depth[s] = 0 /\ hpid[s] = NoPid
BY DEF IInv, HandlersNest, MainRuns

\* fork keeps the invariant: the new child is in no slot, since its pid was not in use.
LEMMA ForkInv ==
  ASSUME IInv, NEW p \in Pids, NEW b \in BOOLEAN, Fork(p, b)
  PROVE  IInv'
<1> USE DEF Fork, jobVars, handlerVars
<1>1. \A s \in Sigs : depth[s] = 0 /\ hpid[s] = NoPid
  BY MainAlone
<1>2. \A i \in Slots : jobs[i].pid # p
  <2>1. hpid["CHLD"] # p
    BY <1>1, JobListAssumption DEF Sigs
  <2> QED
    BY <2>1, JobListAssumption DEF IInv, ListedAreChildren, Collecting
<1>3. TypeOK'
  BY DEF IInv, TypeOK, PCs, ProcStates
<1>4. AddIsNew'
  BY <1>2 DEF IInv, TypeOK, AddIsNew
<1>5. ListedAreChildren'
  BY DEF IInv, TypeOK, ListedAreChildren, Collecting
<1>6. (HandlersNest /\ SlotInUse /\ KeyTargets /\ OneSlotPerPid)'
  BY <1>1 DEF IInv, HandlersNest, SlotInUse, KeyTargets, OneSlotPerPid
<1> QED
  BY <1>3, <1>4, <1>5, <1>6 DEF IInv

\* addjob keeps the invariant: no handler runs between fork and addjob.
LEMMA RunAddInv ==
  ASSUME IInv, RunAdd
  PROVE  IInv'
<1> DEFINE s == IF bg THEN "BG" ELSE "FG"
<1> USE DEF RunAdd, handlerVars, childVars, BackToPrompt, Goto
<1>1. \A t \in Sigs : depth[t] = 0 /\ hpid[t] = NoPid
  BY MainAlone
<1>2. pid \in Pids /\ proc[pid] # "none" /\ \A i \in Slots : jobs[i].pid # pid
  BY DEF IInv, AddIsNew
<1>3. jobs \in [Slots -> Job] /\ nextjid \in Nat /\ s \in {"FG", "BG"}
  BY DEF IInv, TypeOK
<1>a. jobs' = addjob(jobs, nextjid, pid, s) /\ nextjid' = nextjidAfterAdd(jobs, nextjid)
  OBVIOUS
<1> HIDE DEF s
<1>4. /\ jobs' \in [Slots -> Job] /\ nextjid' \in Nat
      /\ jobs' = jobs \/ Fills(jobs, jobs', [pid |-> pid, jid |-> nextjid, state |-> s])
  <2> HIDE DEF RunAdd
  <2> QED
    BY <1>a, <1>2, <1>3, AddjobFills
<1>5. TypeOK'
  <2>1. Goto("waitfg") \/ BackToPrompt
    BY DEF RunAdd
  <2>2. "waitfg" \in PCs
    BY DEF PCs
  <2> HIDE DEF Goto, BackToPrompt
  <2>3. /\ pc' \in PCs /\ pid' \in Pids \cup {NoPid} /\ slot' \in 0..MAXJOBS
        /\ bg' \in BOOLEAN /\ prev' \in SUBSET Sigs
    BY <2>1, <2>2, MainTypes
  <2> QED
    BY <1>4, <2>3 DEF IInv, TypeOK
<1>6. \A j \in Slots : jobs'[j].pid = jobs[j].pid \/ jobs'[j].pid = pid
  BY <1>4 DEF Fills
<1>7. ListedAreChildren'
  BY <1>2, <1>6 DEF IInv, ListedAreChildren, Collecting
<1>8. OneSlotPerPid'
  <2>1. CASE jobs' = jobs
    BY <2>1 DEF IInv, OneSlotPerPid
  <2>2. CASE Fills(jobs, jobs', [pid |-> pid, jid |-> nextjid, state |-> s])
    BY <1>2, <2>2 DEF IInv, OneSlotPerPid, Fills
  <2> QED
    BY <1>4, <2>1, <2>2
<1>9. (HandlersNest /\ AddIsNew /\ SlotInUse /\ KeyTargets)'
  BY <1>1 DEF IInv, HandlersNest, AddIsNew, SlotInUse, KeyTargets, Sigs
<1> QED
  BY <1>5, <1>7, <1>8, <1>9 DEF IInv

\* The test of exec_others' wait loop keeps the invariant.
LEMMA WaitFgInv ==
  ASSUME IInv, WaitFg
  PROVE  IInv'
<1> USE DEF WaitFg, jobVars, handlerVars, childVars, BackToPrompt, Goto
<1>1. TypeOK'
  <2>1. Goto("suspend") \/ BackToPrompt
    BY DEF WaitFg
  <2>2. "suspend" \in PCs
    BY DEF PCs
  <2> HIDE DEF Goto, BackToPrompt
  <2>3. /\ pc' \in PCs /\ pid' \in Pids \cup {NoPid} /\ slot' \in 0..MAXJOBS
        /\ bg' \in BOOLEAN /\ prev' \in SUBSET Sigs
    BY <2>1, <2>2, MainTypes
  <2> QED
    BY <2>3 DEF IInv, TypeOK
<1>2. (HandlersNest /\ AddIsNew /\ SlotInUse /\ KeyTargets)'
  BY DEF IInv, HandlersNest, AddIsNew, SlotInUse, KeyTargets
<1>3. (ListedAreChildren /\ OneSlotPerPid)'
  BY DEF IInv, ListedAreChildren, OneSlotPerPid, Collecting
<1> QED
  BY <1>1, <1>2, <1>3 DEF IInv

\* The steps of fg and bg that only move the main loop.
LEMMA BgFgMoves ==
  ASSUME IInv,
         \/ \E b \in BOOLEAN, i \in Slots : BgFgJid(b, i)
         \/ \E b \in BOOLEAN, p \in Pids : BgFgPid(b, p)
         \/ BgFgReadPid \/ BgFgUnknown \/ FgCheck \/ FgCall \/ Exit
  PROVE  IInv'
<1>1. /\ UNCHANGED <<jobVars, handlerVars, pending, childVars>>
      /\ pc' \in PCs \ {"add", "waitfg"}
  BY DEF BgFgJid, BgFgPid, BgFgReadPid, BgFgUnknown, FgCheck, FgCall, Exit, Goto,
         BackToPrompt, PCs
<1>2. TypeOK' /\ SlotInUse'
  <2>0. jobs \in [Slots -> Job]
    BY DEF IInv, TypeOK
  <2>1. ASSUME NEW b \in BOOLEAN, NEW i \in Slots, BgFgJid(b, i)
        PROVE  slot' \in Slots /\ pid' = pid /\ prev' \in SUBSET Sigs /\ bg' \in BOOLEAN
    <3>1. jobs[i].jid \in Nat /\ jobs[i].jid > 0
      BY <2>0, <2>1 DEF BgFgJid, Job
    <3> QED
      BY <2>0, <2>1, <3>1, GetjobjidFinds, TshAssumption DEF BgFgJid
  <2>2. ASSUME NEW b \in BOOLEAN, NEW p \in Pids, BgFgPid(b, p)
        PROVE  slot' \in Slots /\ pid' = p /\ prev' \in SUBSET Sigs /\ bg' \in BOOLEAN
    BY <2>0, <2>2, GetjobpidFinds, TshAssumption DEF BgFgPid
  <2>3. ASSUME BgFgReadPid
        PROVE  slot' \in Slots /\ pid' \in Pids \cup {NoPid} /\ prev' \in SUBSET Sigs
               /\ bg' \in BOOLEAN
    BY <2>3, <2>0 DEF BgFgReadPid, IInv, TypeOK, SlotInUse, Job
  <2>4. ASSUME BgFgUnknown \/ FgCheck \/ FgCall \/ Exit
        PROVE  /\ slot' \in 0..MAXJOBS /\ pid' \in Pids \cup {NoPid}
               /\ prev' \in SUBSET Sigs /\ bg' \in BOOLEAN
               /\ pc' \notin {"readpid", "setstate"}
    <3>1. PICK where \in PCs \ {"readpid", "setstate"} : Goto(where) \/ BackToPrompt
      BY <2>4 DEF BgFgUnknown, FgCheck, FgCall, Exit, PCs
    <3> QED
      BY <3>1, MainTypes DEF Goto, BackToPrompt
  <2>5. Slots \subseteq 0..MAXJOBS
    BY JobListAssumption DEF Slots
  <2>6. /\ slot' \in 0..MAXJOBS /\ pid' \in Pids \cup {NoPid}
        /\ prev' \in SUBSET Sigs /\ bg' \in BOOLEAN
        /\ pc' \in {"readpid", "setstate"} => slot' \in Slots
    BY <2>1, <2>2, <2>3, <2>4, <2>5 DEF IInv, TypeOK
  <2>7. /\ jobs' = jobs /\ nextjid' = nextjid /\ depth' = depth /\ hpid' = hpid
        /\ hstat' = hstat /\ pending' = pending /\ proc' = proc /\ csig' = csig
    BY <1>1 DEF jobVars, handlerVars, childVars
  <2> QED
    BY <1>1, <2>6, <2>7 DEF IInv, TypeOK, SlotInUse
<1>3. (HandlersNest /\ AddIsNew /\ KeyTargets)'
  BY <1>1 DEF IInv, HandlersNest, AddIsNew, KeyTargets, jobVars, handlerVars
<1>4. (ListedAreChildren /\ OneSlotPerPid)'
  BY <1>1 DEF IInv, ListedAreChildren, OneSlotPerPid, Collecting, jobVars, handlerVars,
     childVars
<1> QED
  BY <1>2, <1>3, <1>4 DEF IInv

\* exec_bgfg's write of the state keeps the invariant: no keyboard handler runs then.
LEMMA BgFgSetStateInv ==
  ASSUME IInv, BgFgSetState
  PROVE  IInv'
<1> USE DEF BgFgSetState, handlerVars, childVars, Goto
<1>1. \A t \in Sigs : depth[t] = 0 /\ hpid[t] = NoPid
  BY MainAlone
<1>2. jobs \in [Slots -> Job] /\ slot \in Slots
  BY DEF IInv, TypeOK, SlotInUse
<1>3. (IF bg THEN "BG" ELSE "FG") \in JobStates
  BY DEF JobStates
<1>4. jobs' \in [Slots -> Job] /\ \A j \in Slots : jobs'[j].pid = jobs[j].pid
  BY <1>2, <1>3, WithStateSets
<1>5. TypeOK'
  BY <1>4 DEF IInv, TypeOK, PCs
<1>6. (HandlersNest /\ AddIsNew /\ SlotInUse /\ KeyTargets)'
  BY <1>1 DEF IInv, HandlersNest, AddIsNew, SlotInUse, KeyTargets, Sigs
<1>7. (ListedAreChildren /\ OneSlotPerPid)'
  BY <1>4 DEF IInv, ListedAreChildren, OneSlotPerPid, Collecting
<1> QED
  BY <1>5, <1>6, <1>7 DEF IInv

\* SIGCONT to the job keeps the invariant: it only wakes a child.
LEMMA BgFgSendContInv ==
  ASSUME IInv, BgFgSendCont
  PROVE  IInv'
<1> USE DEF BgFgSendCont, jobVars, handlerVars, Goto, BackToPrompt
<1>1. /\ proc' \in [Pids -> ProcStates] /\ csig' \in [Pids -> SUBSET {"INT", "TSTP"}]
      /\ pending' \in SUBSET Sigs
      /\ \A q \in Pids : proc[q] # "none" => proc'[q] # "none"
  <2>1. CASE pid \notin Pids
    BY <2>1 DEF IInv, TypeOK
  <2>2. CASE pid \in Pids
    <3>1. csig' \in [Pids -> SUBSET {"INT", "TSTP"}]
      BY <2>2 DEF IInv, TypeOK
    <3>2. CASE proc[pid] \in {"stopping", "stopped"}
      BY <2>2, <3>1, <3>2 DEF IInv, TypeOK, ProcStates, Sigs
    <3>3. CASE proc[pid] \notin {"stopping", "stopped"}
      BY <2>2, <3>1, <3>3 DEF IInv, TypeOK
    <3> QED
      BY <3>2, <3>3
  <2> QED
    BY <2>1, <2>2
<1>2. TypeOK'
  <2>1. Goto("fgcheck") \/ BackToPrompt
    BY DEF BgFgSendCont
  <2>2. "fgcheck" \in PCs
    BY DEF PCs
  <2> HIDE DEF Goto, BackToPrompt
  <2>3. /\ pc' \in PCs /\ pid' \in Pids \cup {NoPid} /\ slot' \in 0..MAXJOBS
        /\ bg' \in BOOLEAN /\ prev' \in SUBSET Sigs
    BY <2>1, <2>2, MainTypes
  <2> QED
    BY <1>1, <2>3 DEF IInv, TypeOK
<1>3. (HandlersNest /\ AddIsNew /\ SlotInUse /\ KeyTargets)'
  BY DEF IInv, HandlersNest, AddIsNew, SlotInUse, KeyTargets
<1>4. ListedAreChildren'
  BY <1>1 DEF IInv, TypeOK, Job, ListedAreChildren, Collecting
<1>5. OneSlotPerPid'
  BY DEF IInv, OneSlotPerPid
<1> QED
  BY <1>2, <1>3, <1>4, <1>5 DEF IInv
-----------------------------------------------------------------------------
(* Every step of a signal handler preserves the invariant.                   *)

\* What Return leaves of the handlers and of the main loop.
LEMMA ReturnMoves ==
  ASSUME IInv, NEW s \in Sigs, Return(s)
  PROVE  /\ depth' \in [Sigs -> 0..3] /\ depth'[s] = 0
         /\ \A t \in Sigs \ {s} : depth'[t] = depth[t]
         /\ UNCHANGED <<pid, slot, bg, prev>> /\ pc' \in PCs
         /\ pc' # pc => pc' \in {"waitfg", "fgcheck"} /\ \A t \in Sigs : depth'[t] = 0
<1>1. depth' \in [Sigs -> 0..3] /\ depth'[s] = 0 /\ \A t \in Sigs \ {s} : depth'[t] = depth[t]
  BY DEF Return, IInv, TypeOK
<1>2. /\ UNCHANGED <<pid, slot, bg, prev>> /\ pc' \in PCs
      /\ pc' # pc => pc' \in {"waitfg", "fgcheck"} /\ \A t \in Sigs \ {s} : depth[t] = 0
  BY DEF Return, Goto, mainVars, IInv, TypeOK, PCs
<1> QED
  BY <1>1, <1>2

\* A keystroke keeps the invariant: it only makes a signal pending.
LEMMA TypeInv ==
  ASSUME IInv, NEW s \in Sigs, Type(s)
  PROVE  IInv'
<1> USE DEF Type, jobVars, mainVars, handlerVars, childVars
<1>1. TypeOK'
  BY DEF IInv, TypeOK
<1>2. (HandlersNest /\ AddIsNew /\ SlotInUse /\ KeyTargets)'
  BY DEF IInv, HandlersNest, AddIsNew, SlotInUse, KeyTargets
<1>3. (ListedAreChildren /\ OneSlotPerPid)'
  BY DEF IInv, ListedAreChildren, OneSlotPerPid, Collecting
<1> QED
  BY <1>1, <1>2, <1>3 DEF IInv

\* Starting a handler keeps the invariant: it holds no pid yet.
LEMMA DeliverInv ==
  ASSUME IInv, NEW s \in Sigs, Deliver(s)
  PROVE  IInv'
<1> USE DEF Deliver, jobVars, mainVars, childVars
<1>1. Cardinality({t \in Sigs : depth[t] > 0}) \in 0..2
  <2>1. {t \in Sigs : depth[t] > 0} \in SUBSET (Sigs \ {s})
    OBVIOUS
  <2> QED
    BY <2>1, NestingBound
<1>2. depth' \in [Sigs -> 0..3] /\ \A t \in Sigs : depth'[t] = 0 => depth[t] = 0
  BY <1>1 DEF IInv, TypeOK
<1>3. pc \notin {"add", "waitfg"}
  BY DEF MainMask
<1>4. TypeOK'
  BY <1>2 DEF IInv, TypeOK
<1>5. HandlersNest'
  BY <1>2, <1>3 DEF IInv, HandlersNest
<1>6. (AddIsNew /\ SlotInUse /\ KeyTargets)'
  BY DEF IInv, AddIsNew, SlotInUse, KeyTargets
<1>7. (ListedAreChildren /\ OneSlotPerPid)'
  BY DEF IInv, ListedAreChildren, OneSlotPerPid, Collecting
<1> QED
  BY <1>4, <1>5, <1>6, <1>7 DEF IInv

\* While a handler runs the main loop is not inside its critical section.
LEMMA HandlerRuns ==
  ASSUME IInv, NEW s \in Sigs, Runs(s)
  PROVE  depth[s] # 0 /\ pc \in PCs \ {"add", "waitfg", "exited", "crashed"}
BY DEF IInv, TypeOK, HandlersNest, Runs, Alive

\* waitpid keeps the invariant: the child it takes is marked as being collected.
LEMMA ChldWaitInv ==
  ASSUME IInv, NEW p \in Pids, ChldWait(p)
  PROVE  IInv'
<1> USE DEF ChldWait, jobVars, mainVars
<1>1. pc \notin {"add", "waitfg"} /\ depth["CHLD"] # 0
  BY HandlerRuns DEF Sigs
<1>2. TypeOK'
  BY DEF IInv, TypeOK, ProcStates, Sigs
<1>3. (HandlersNest /\ AddIsNew /\ SlotInUse /\ KeyTargets)'
  BY <1>1 DEF IInv, TypeOK, HandlersNest, AddIsNew, SlotInUse, KeyTargets, Sigs
<1>4. hpid'["CHLD"] = p
  BY DEF IInv, TypeOK, Sigs
<1>5. \A i \in Slots : jobs[i].pid # NoPid => jobs[i].pid \in Pids /\ proc[jobs[i].pid] # "none"
  BY DEF IInv, TypeOK, Job, ListedAreChildren, Collecting
<1>6. ListedAreChildren'
  <2>1. \A q \in Pids : proc[q] # "none" => proc'[q] # "none" \/ (q = p /\ hstat' = "dead")
    BY DEF IInv, TypeOK
  <2> QED
    BY <1>4, <1>5, <2>1 DEF ListedAreChildren, Collecting
<1>7. OneSlotPerPid'
  BY DEF IInv, OneSlotPerPid
<1> QED
  BY <1>2, <1>3, <1>6, <1>7 DEF IInv

\* The end of the SIGCHLD handler keeps the invariant.
LEMMA ChldDoneInv ==
  ASSUME IInv, ChldDone
  PROVE  IInv'
<1> USE DEF ChldDone, jobVars, childVars
<1>1. /\ depth' \in [Sigs -> 0..3] /\ depth'["CHLD"] = 0
      /\ \A t \in Sigs \ {"CHLD"} : depth'[t] = depth[t]
      /\ UNCHANGED <<pid, slot, bg, prev>> /\ pc' \in PCs
      /\ pc' # pc => pc' \in {"waitfg", "fgcheck"} /\ \A t \in Sigs : depth'[t] = 0
  BY ReturnMoves DEF Sigs
<1>2. pc \notin {"add", "waitfg"}
  BY HandlerRuns DEF Sigs
<1>3. TypeOK'
  BY <1>1 DEF IInv, TypeOK
<1>4. (HandlersNest /\ AddIsNew /\ SlotInUse /\ KeyTargets)'
  BY <1>1, <1>2 DEF IInv, HandlersNest, AddIsNew, SlotInUse, KeyTargets
<1>5. (ListedAreChildren /\ OneSlotPerPid)'
  BY DEF IInv, ListedAreChildren, OneSlotPerPid, Collecting
<1> QED
  BY <1>3, <1>4, <1>5 DEF IInv

\* deletejob keeps the invariant: the pid collected leaves the list for good.
LEMMA ChldDeleteInv ==
  ASSUME IInv, ChldDelete
  PROVE  IInv'
<1> DEFINE p == hpid["CHLD"]
<1>0. /\ jobs' = deletejob(jobs, p) /\ nextjid' = nextjidAfterDelete(jobs, nextjid, p)
      /\ p # NoPid /\ hpid' = [hpid EXCEPT !["CHLD"] = NoPid]
      /\ UNCHANGED <<depth, hstat, mainVars, pending, childVars>> /\ hstat = "dead"
  BY DEF ChldDelete
<1>1. pc \notin {"add", "waitfg"} /\ jobs \in [Slots -> Job] /\ nextjid \in Nat
  BY HandlerRuns DEF ChldDelete, IInv, TypeOK, Sigs
<1>2. clearjob.pid = NoPid /\ clearjob.state = "UNDEF"
  BY DEF clearjob
<1> HIDE DEF p
<1>3. /\ jobs' \in [Slots -> Job] /\ nextjid' \in Nat
      /\ \/ jobs' = jobs /\ \A i \in Slots : jobs[i].pid # p
         \/ \E i \in Slots : /\ jobs[i].pid = p /\ jobs'[i] = clearjob
                             /\ \A j \in Slots \ {i} : jobs'[j] = jobs[j]
  BY <1>0, <1>1, DeletejobClears
<1>4. \A i \in Slots : jobs'[i] = clearjob \/ (jobs'[i] = jobs[i] /\ jobs[i].pid # p)
  <2>1. CASE jobs' = jobs /\ \A i \in Slots : jobs[i].pid # p
    BY <2>1
  <2>2. ASSUME NEW i \in Slots, jobs[i].pid = p, jobs'[i] = clearjob,
               \A j \in Slots \ {i} : jobs'[j] = jobs[j]
        PROVE  \A j \in Slots : jobs'[j] = clearjob \/ (jobs'[j] = jobs[j] /\ jobs[j].pid # p)
    BY <1>0, <2>2 DEF IInv, OneSlotPerPid
  <2> QED
    BY <1>3, <2>1, <2>2
<1>5. TypeOK'
  BY <1>0, <1>3 DEF IInv, TypeOK, mainVars, childVars, Sigs
<1>6. (HandlersNest /\ AddIsNew /\ SlotInUse)'
  BY <1>0, <1>1 DEF IInv, TypeOK, HandlersNest, AddIsNew, SlotInUse, mainVars, Sigs
<1>7. KeyTargets'
  BY <1>0, <1>2, <1>4 DEF IInv, TypeOK, KeyTargets, Sigs
<1>8. ListedAreChildren'
  BY <1>0, <1>2, <1>4 DEF IInv, ListedAreChildren, Collecting, childVars, p
<1>9. OneSlotPerPid'
  BY <1>2, <1>4 DEF IInv, OneSlotPerPid
<1> QED
  BY <1>5, <1>6, <1>7, <1>8, <1>9 DEF IInv

\* Setting state ST keeps the invariant: a stopped job is no background job.
LEMMA ChldStopInv ==
  ASSUME IInv, ChldStop
  PROVE  IInv'
<1> DEFINE p == hpid["CHLD"]
<1>0. /\ p # NoPid /\ hpid' = [hpid EXCEPT !["CHLD"] = NoPid] /\ hstat = "stopped" /\ hstat' = "dead"
      /\ UNCHANGED <<depth, nextjid, pending, childVars, pid, slot, bg, prev>>
      /\ pc' = pc \/ pc' = "crashed"
  BY DEF ChldStop, Goto, mainVars
<1>1. pc \notin {"add", "waitfg"} /\ jobs \in [Slots -> Job]
  BY HandlerRuns DEF ChldStop, IInv, TypeOK, Sigs
<1>2. /\ jobs' \in [Slots -> Job]
      /\ \A i \in Slots : jobs'[i].pid = jobs[i].pid
                        /\ (jobs'[i] = jobs[i] \/ jobs'[i].state = "ST")
  <2>1. CASE Listed(jobs, p)
    <3>1. PICK i \in Slots : jobs' = WithState(jobs, i, "ST")
      BY <1>1, <2>1, GetjobpidFinds DEF ChldStop
    <3>2. "ST" \in JobStates
      BY DEF JobStates
    <3> DEFINE new == WithState(jobs, i, "ST")
    <3>3. /\ new \in [Slots -> Job] /\ new[i].state = "ST"
          /\ \A j \in Slots : new[j].pid = jobs[j].pid /\ (j # i => new[j] = jobs[j])
      BY <1>1, <3>2, WithStateSets
    <3> HIDE DEF new
    <3> QED
      BY <3>1, <3>3 DEF new
  <2>2. CASE ~Listed(jobs, p)
    BY <1>1, <2>2 DEF ChldStop
  <2> QED
    BY <2>1, <2>2
<1>3. TypeOK'
  BY <1>0, <1>2 DEF IInv, TypeOK, PCs, childVars, Sigs
<1>4. (HandlersNest /\ AddIsNew /\ SlotInUse)'
  BY <1>0, <1>1 DEF IInv, TypeOK, HandlersNest, AddIsNew, SlotInUse, Sigs
<1>5. KeyTargets'
  BY <1>0, <1>2 DEF IInv, TypeOK, KeyTargets, Sigs
<1>6. ListedAreChildren'
  BY <1>0, <1>2 DEF IInv, ListedAreChildren, Collecting, childVars
<1>7. OneSlotPerPid'
  BY <1>2 DEF IInv, OneSlotPerPid
<1> QED
  BY <1>3, <1>4, <1>5, <1>6, <1>7 DEF IInv

\* fgpid in a keyboard handler keeps the invariant: its result is no background job.
LEMMA KeyFgpidInv ==
  ASSUME IInv, NEW s \in Sigs, KeyFgpid(s)
  PROVE  IInv'
<1>0. /\ s \in {"INT", "TSTP"} /\ Runs(s) /\ hpid[s] = NoPid
      /\ UNCHANGED <<hstat, jobVars, pending, childVars>>
  BY DEF KeyFgpid
<1>1. pc \notin {"add", "waitfg"} /\ depth[s] # 0 /\ jobs \in [Slots -> Job]
  BY <1>0, HandlerRuns DEF IInv, TypeOK
<1>2. (ListedAreChildren /\ OneSlotPerPid)'
  <2>1. hpid'["CHLD"] = hpid["CHLD"]
    BY <1>0 DEF KeyFgpid, IInv, TypeOK, Sigs
  <2> QED
    BY <1>0, <2>1 DEF IInv, ListedAreChildren, OneSlotPerPid, Collecting, jobVars, childVars
<1>3. CASE fgpid(jobs) = NoPid
  <2>1. Return(s) /\ UNCHANGED hpid
    BY <1>3 DEF KeyFgpid
  <2>2. /\ depth' \in [Sigs -> 0..3] /\ depth'[s] = 0
        /\ \A t \in Sigs \ {s} : depth'[t] = depth[t]
        /\ UNCHANGED <<pid, slot, bg, prev>> /\ pc' \in PCs
        /\ pc' # pc => pc' \in {"waitfg", "fgcheck"} /\ \A t \in Sigs : depth'[t] = 0
    BY <2>1, ReturnMoves
  <2>3. TypeOK'
    BY <1>0, <2>1, <2>2 DEF IInv, TypeOK, jobVars, childVars
  <2>4. (HandlersNest /\ AddIsNew /\ SlotInUse /\ KeyTargets)'
    BY <1>0, <1>1, <2>1, <2>2
       DEF IInv, HandlersNest, AddIsNew, SlotInUse, KeyTargets, jobVars, childVars
  <2> QED
    BY <1>2, <2>3, <2>4 DEF IInv
<1>4. CASE fgpid(jobs) # NoPid
  <2>1. hpid' = [hpid EXCEPT ![s] = fgpid(jobs)] /\ UNCHANGED <<depth, mainVars>>
    BY <1>4 DEF KeyFgpid
  <2>2. fgpid(jobs) \in Pids
        /\ \E i \in Slots : jobs[i].pid = fgpid(jobs) /\ jobs[i].state = "FG"
    BY <1>1, <1>4, FgpidInForeground
  <2>3. TypeOK'
    BY <1>0, <2>1, <2>2 DEF IInv, TypeOK, jobVars, childVars, mainVars
  <2>4. (HandlersNest /\ AddIsNew /\ SlotInUse)'
    BY <1>0, <1>1, <2>1
       DEF IInv, TypeOK, HandlersNest, AddIsNew, SlotInUse, jobVars, childVars, mainVars
  <2>5. \A i \in Slots : jobs[i].pid = fgpid(jobs) => jobs[i].state # "BG"
    BY <1>4, <2>2 DEF IInv, OneSlotPerPid
  <2>6. KeyTargets'
    BY <1>0, <2>1, <2>5 DEF IInv, TypeOK, KeyTargets, Sigs, jobVars
  <2> QED
    BY <1>2, <2>3, <2>4, <2>6 DEF IInv
<1> QED
  BY <1>3, <1>4

\* kill in a keyboard handler keeps the invariant.
LEMMA KeyKillInv ==
  ASSUME IInv, NEW s \in Sigs, KeyKill(s)
  PROVE  IInv'
<1>0. /\ s \in {"INT", "TSTP"} /\ Runs(s) /\ Return(s)
      /\ hpid' = [hpid EXCEPT ![s] = NoPid]
      /\ UNCHANGED <<hstat, jobVars, pending, proc>>
  BY DEF KeyKill
<1>1. pc \notin {"add", "waitfg"}
  BY <1>0, HandlerRuns
<1>2. /\ depth' \in [Sigs -> 0..3] /\ depth'[s] = 0
      /\ \A t \in Sigs \ {s} : depth'[t] = depth[t]
      /\ UNCHANGED <<pid, slot, bg, prev>> /\ pc' \in PCs
      /\ pc' # pc => pc' \in {"waitfg", "fgcheck"} /\ \A t \in Sigs : depth'[t] = 0
  BY <1>0, ReturnMoves
<1>3. csig' \in [Pids -> SUBSET {"INT", "TSTP"}]
  BY <1>0 DEF KeyKill, IInv, TypeOK
<1>4. TypeOK'
  BY <1>0, <1>2, <1>3 DEF IInv, TypeOK, jobVars
<1>5. (HandlersNest /\ AddIsNew /\ SlotInUse)'
  BY <1>0, <1>1, <1>2 DEF IInv, TypeOK, HandlersNest, AddIsNew, SlotInUse, jobVars
<1>6. KeyTargets'
  BY <1>0 DEF IInv, TypeOK, KeyTargets, Sigs, jobVars
<1>7. ListedAreChildren'
  BY <1>0 DEF IInv, TypeOK, ListedAreChildren, Collecting, Sigs, jobVars
<1>8. OneSlotPerPid'
  BY <1>0 DEF IInv, OneSlotPerPid, jobVars
<1> QED
  BY <1>4, <1>5, <1>6, <1>7, <1>8 DEF IInv

-----------------------------------------------------------------------------
(* A child's step never makes it unknown to the kernel, nor gives it a       *)
(* keyboard signal.                                                          *)
LEMMA ChildMoves ==
  ASSUME IInv, NEW p \in Pids, Child(p)
  PROVE  /\ UNCHANGED <<jobVars, mainVars, handlerVars>>
         /\ proc' \in [Pids -> ProcStates] /\ csig' \in [Pids -> SUBSET {"INT", "TSTP"}]
         /\ pending' \in SUBSET Sigs
         /\ \A q \in Pids : proc[q] # "none" => proc'[q] # "none"
         /\ \A q \in Pids : csig'[q] \subseteq csig[q]
<1>1. CASE Starts(p)
  BY <1>1 DEF Starts, ChildSetpgid, ChildExec, IInv, TypeOK, ProcStates
<1>2. CASE TakesKey(p)
  <2>1. CASE ChildTakesInt(p)
    BY <2>1 DEF ChildTakesInt, News, IInv, TypeOK, ProcStates, Sigs
  <2>2. CASE ChildTakesTstp(p)
    BY <2>2 DEF ChildTakesTstp, News, IInv, TypeOK, ProcStates, Sigs
  <2> QED
    BY <1>2, <2>1, <2>2 DEF TakesKey
<1>3. CASE ChildExit(p)
  BY <1>3 DEF ChildExit, News, IInv, TypeOK, ProcStates, Sigs
<1>4. CASE OutsideStop(p)
  BY <1>4 DEF OutsideStop, News, IInv, TypeOK, ProcStates, Sigs
<1>5. CASE OutsideKill(p)
  BY <1>5 DEF OutsideKill, News, IInv, TypeOK, ProcStates, Sigs
<1> QED
  BY <1>1, <1>2, <1>3, <1>4, <1>5 DEF Child

\* What children do keeps the invariant: they change neither list nor handlers.
LEMMA ChildInv ==
  ASSUME IInv, NEW p \in Pids, Child(p)
  PROVE  IInv'
<1>1. /\ UNCHANGED <<jobVars, mainVars, handlerVars>>
      /\ proc' \in [Pids -> ProcStates] /\ csig' \in [Pids -> SUBSET {"INT", "TSTP"}]
      /\ pending' \in SUBSET Sigs
      /\ \A q \in Pids : proc[q] # "none" => proc'[q] # "none"
  BY ChildMoves
<1>2. TypeOK'
  BY <1>1 DEF IInv, TypeOK, jobVars, mainVars, handlerVars
<1>3. (HandlersNest /\ AddIsNew /\ SlotInUse /\ KeyTargets)'
  BY <1>1 DEF IInv, HandlersNest, AddIsNew, SlotInUse, KeyTargets, jobVars, mainVars,
     handlerVars
<1>4. ListedAreChildren'
  BY <1>1 DEF IInv, TypeOK, Job, ListedAreChildren, Collecting, jobVars, handlerVars
<1>5. OneSlotPerPid'
  BY <1>1 DEF IInv, OneSlotPerPid, jobVars
<1> QED
  BY <1>2, <1>3, <1>4, <1>5 DEF IInv

\* The invariant is about the variables of the specification only.
LEMMA StutterInv ==
  ASSUME IInv, UNCHANGED vars
  PROVE  IInv'
BY DEF IInv, vars, TypeOK, HandlersNest, AddIsNew, SlotInUse, KeyTargets, ListedAreChildren,
       OneSlotPerPid, Collecting

\* Every step of the shell, its handlers and its children keeps the invariant.
LEMMA NextInv ==
  ASSUME IInv, [Next]_vars
  PROVE  IInv'
<1>1. CASE Command
  BY <1>1, ForkInv, BgFgMoves DEF Command
<1>2. CASE MainWaits \/ MainResumes
  BY <1>2, RunAddInv, WaitFgInv, BgFgMoves, BgFgSetStateInv, BgFgSendContInv
     DEF MainWaits, MainResumes
<1>3. CASE ChldStep
  BY <1>3, ChldWaitInv, ChldDoneInv, ChldDeleteInv, ChldStopInv DEF ChldStep
<1>4. ASSUME NEW s \in Sigs, Type(s) \/ Deliver(s) \/ KeyStep(s)
      PROVE  IInv'
  BY <1>4, TypeInv, DeliverInv, KeyFgpidInv, KeyKillInv DEF KeyStep
<1>5. ASSUME NEW p \in Pids, Child(p)
      PROVE  IInv'
  BY <1>5, ChildInv
<1>6. CASE UNCHANGED vars
  BY <1>6, StutterInv
<1> QED
  BY <1>1, <1>2, <1>3, <1>4, <1>5, <1>6 DEF Next

-----------------------------------------------------------------------------
(* The inductive invariant holds throughout, for every instance of the shell *)
(* (its types are those of tsh.c's job_list and of the main loop's locals).  *)
THEOREM Invariance == Spec => []IInv
<1> QED
  BY InitInv, NextInv, PTL DEF Spec

\* The type invariant.
THEOREM TypeCorrect == Spec => []TypeOK
<1>1. IInv => TypeOK
  BY DEF IInv
<1> QED
  BY Invariance, <1>1, PTL

(* The job list names only children of the shell that the kernel still       *)
(* knows, except between waitpid and deletejob in sigchld_handler, and none  *)
(* of them twice: fg, bg and the keyboard handlers, which kill the pids they *)
(* find there, do not reach a pid that has been collected and unlisted.      *)
THEOREM JobListSound == Spec => [](ListedAreChildren /\ OneSlotPerPid)
<1>1. IInv => ListedAreChildren /\ OneSlotPerPid
  BY DEF IInv
<1> QED
  BY Invariance, <1>1, PTL

(* sigint_handler and sigtstp_handler never signal a background job, however *)
(* they nest with sigchld_handler between fgpid and kill.                    *)
THEOREM KeysSpareBackground == Spec => BackgroundSpared
<1> DEFINE Spared == \A p \in Pids : ~(csig'[p] \subseteq csig[p])
                       => \A i \in Slots : jobs[i].pid = p => jobs[i].state # "BG"
<1>1. ASSUME IInv, [Next]_vars
      PROVE  [Spared]_vars
  <2>1. CASE UNCHANGED csig
    BY <2>1
  <2>2. CASE BgFgSendCont
    <3>1. \A p \in Pids : csig'[p] \subseteq csig[p]
      BY <1>1, <2>2 DEF BgFgSendCont, IInv, TypeOK
    <3> QED
      BY <3>1
  <2>3. ASSUME NEW s \in Sigs, KeyKill(s)
        PROVE  Spared
    <3>1. s \in {"INT", "TSTP"} /\ hpid[s] # NoPid
      BY <2>3 DEF KeyKill
    <3>2. \A p \in Pids : p # hpid[s] => csig'[p] = csig[p]
      BY <1>1, <2>3 DEF KeyKill, IInv, TypeOK
    <3> QED
      BY <1>1, <3>1, <3>2 DEF IInv, KeyTargets
  <2>4. ASSUME NEW p \in Pids, Child(p)
        PROVE  Spared
    BY <1>1, <2>4, ChildMoves
  <2>5. \/ UNCHANGED csig \/ BgFgSendCont \/ (\E s \in Sigs : KeyKill(s))
        \/ (\E p \in Pids : Child(p))
    BY <1>1
       DEF Next, Command, MainWaits, MainResumes, ChldStep, KeyStep, Fork, RunAdd, WaitFg,
           BgFgJid, BgFgReadPid, BgFgPid, BgFgUnknown, BgFgSetState, FgCheck, FgCall, Exit,
           Type, Deliver, ChldWait, ChldDone, ChldDelete, ChldStop, KeyFgpid, childVars, vars
  <2> QED
    BY <2>1, <2>2, <2>3, <2>4, <2>5
<1> QED
  BY Invariance, <1>1, PTL DEF Spec, BackgroundSpared
------------------------------------------------------------------------------
(* The shell loses no child, provided its list has room for all of them: the *)
(* converse of ListedAreChildren.  The bound on the number of children is    *)
(* needed, since addjob's callers do not look whether it found a free slot.  *)

\* The list has a slot for every process id.
Room == IsFiniteSet(Pids) /\ Cardinality(Pids) <= MAXJOBS

\* What waitpid reported as dead the kernel does not know any more.
CollectedAreGone == \A p \in Pids : Collecting(p) => proc[p] = "none"

ChildrenInv == IInv /\ CollectedAreGone /\ ChildrenAreListed

\* The processes in a full list are as many as its slots, so one that is not
\* among them would be one too many.
LEMMA FreeSlotForNew ==
  ASSUME Room, TypeOK, OneSlotPerPid, NEW p \in Pids, \A i \in Slots : jobs[i].pid # p
  PROVE  FreeSlots(jobs) # {}
<1> SUFFICES ASSUME FreeSlots(jobs) = {} PROVE FALSE
  OBVIOUS
<1> DEFINE holder == [i \in Slots |-> jobs[i].pid]
           Others == Pids \ {p}
<1>1. \A i \in Slots : jobs[i].pid \in Others
  BY DEF FreeSlots, HoldingPid, TypeOK, Job
<1>2. holder \in [Slots -> Others]
  BY <1>1
<1>3. IsFiniteSet(Others) /\ Cardinality(Others) = Cardinality(Pids) - 1
  BY FS_RemoveElement DEF Room
<1>4. IsFiniteSet(Slots) /\ Cardinality(Slots) = MAXJOBS
  BY JobListAssumption, FS_Interval DEF Slots
<1>5. Cardinality(Others) < Cardinality(Slots)
  BY <1>3, <1>4, FS_CardinalityType, JobListAssumption DEF Room
<1>6. PICK i, j \in Slots : i # j /\ holder[i] = holder[j]
  <2> HIDE DEF holder, Others
  <2> QED
    BY <1>2, <1>3, <1>4, <1>5, FS_PigeonHole
<1> QED
  BY <1>1, <1>6, JobListAssumption DEF OneSlotPerPid

-----------------------------------------------------------------------------
\* At the start there are no children.
LEMMA InitChildren == Init => ChildrenInv
<1> SUFFICES ASSUME Init PROVE CollectedAreGone /\ ChildrenAreListed
  BY InitInv DEF ChildrenInv
<1> QED
  BY DEF Init, CollectedAreGone, ChildrenAreListed

\* A step that leaves the pids in their slots, brings no child to life and takes none
\* from the kernel disturbs nothing, unless it is addjob's.
LEMMA QuietStep ==
  ASSUME ChildrenInv,
         \A i \in Slots : jobs'[i].pid = jobs[i].pid,
         \A p \in Pids : proc[p] = "none" => proc'[p] = "none",
         pc # "add" \/ UNCHANGED <<pc, pid>>,
         UNCHANGED <<hpid["CHLD"], hstat>> \/ hpid'["CHLD"] = NoPid
  PROVE  CollectedAreGone' /\ ChildrenAreListed'
<1>1. CollectedAreGone'
  BY JobListAssumption DEF ChildrenInv, CollectedAreGone, Collecting
<1>2. ChildrenAreListed'
  BY JobListAssumption DEF ChildrenInv, ChildrenAreListed, Listed, HoldingPid
<1> QED
  BY <1>1, <1>2

\* fork: the new child is the one to be added.
LEMMA ForkChildren ==
  ASSUME ChildrenInv, NEW p \in Pids, NEW b \in BOOLEAN, Fork(p, b)
  PROVE  CollectedAreGone' /\ ChildrenAreListed'
<1>1. hpid["CHLD"] = NoPid
  BY MainAlone DEF ChildrenInv, Fork, Sigs
<1>2. CollectedAreGone'
  BY <1>1, JobListAssumption DEF Fork, handlerVars, CollectedAreGone, Collecting
<1>3. ChildrenAreListed'
  BY DEF Fork, jobVars, ChildrenInv, IInv, TypeOK, ChildrenAreListed, Listed, HoldingPid
<1> QED
  BY <1>2, <1>3

\* addjob puts it into a free slot, if there is one.
LEMMA RunAddChildren ==
  ASSUME ChildrenInv, RunAdd, FreeSlots(jobs) # {}
  PROVE  CollectedAreGone' /\ ChildrenAreListed'
<1> DEFINE s   == IF bg THEN "BG" ELSE "FG"
           job == [pid |-> pid, jid |-> nextjid, state |-> s]
           i   == First(FreeSlots(jobs))
<1>1. pid \in Pids /\ \A k \in Slots : jobs[k].pid # pid
  BY DEF RunAdd, ChildrenInv, IInv, AddIsNew
<1>3. i \in Slots /\ jobs[i].pid = NoPid
  BY FirstInSet DEF FreeSlots, HoldingPid
<1>4. jobs' = [jobs EXCEPT ![i] = job]
  BY DEF RunAdd, addjob
<1>5. jobs \in [Slots -> Job] /\ job.pid = pid
  BY DEF ChildrenInv, IInv, TypeOK
<1>6. jobs'[i].pid = pid /\ \A k \in Slots \ {i} : jobs'[k] = jobs[k]
  <2> HIDE DEF i, job
  <2> QED
    BY <1>3, <1>4, <1>5
<1>7. ChildrenAreListed'
  <2> SUFFICES ASSUME NEW p \in Pids, proc[p] # "none"
              PROVE  \E k \in Slots : jobs'[k].pid = p
    BY JobListAssumption DEF RunAdd, childVars, ChildrenAreListed, Listed, HoldingPid
  <2>1. CASE p = pid
    BY <1>3, <1>6, <2>1
  <2>2. CASE p # pid
    <3>1. PICK k \in Slots : jobs[k].pid = p
      BY <2>2 DEF ChildrenInv, ChildrenAreListed, Listed, HoldingPid
    <3>2. k # i
      BY <1>3, <3>1, JobListAssumption
    <3> QED
      BY <1>6, <3>1, <3>2
  <2> QED
    BY <2>1, <2>2
<1>8. CollectedAreGone'
  BY DEF RunAdd, ChildrenInv, CollectedAreGone, Collecting, handlerVars, childVars
<1> QED
  BY <1>7, <1>8

\* The other steps of the main loop leave all pids where they are.
LEMMA MainChildren ==
  ASSUME ChildrenInv,
         \/ WaitFg \/ MainResumes \/ BgFgUnknown \/ Exit
         \/ \E p \in Pids, b \in BOOLEAN : BgFgPid(b, p)
         \/ \E i \in Slots, b \in BOOLEAN : BgFgJid(b, i)
  PROVE  CollectedAreGone' /\ ChildrenAreListed'
<1>1. pc # "add" /\ UNCHANGED handlerVars
  BY DEF WaitFg, MainResumes, BgFgReadPid, BgFgSetState, BgFgSendCont, FgCheck, FgCall,
         BgFgUnknown, Exit, BgFgPid, BgFgJid
<1>2. \A i \in Slots : jobs'[i].pid = jobs[i].pid
  <2>1. CASE BgFgSetState
    <3>1. jobs \in [Slots -> Job] /\ slot \in Slots
      BY <2>1 DEF BgFgSetState, ChildrenInv, IInv, TypeOK, SlotInUse
    <3>2. (IF bg THEN "BG" ELSE "FG") \in JobStates
      BY DEF JobStates
    <3> QED
      BY <2>1, <3>1, <3>2, WithStateSets DEF BgFgSetState
  <2>2. CASE ~BgFgSetState
    BY <2>2 DEF WaitFg, MainResumes, BgFgReadPid, BgFgSendCont, FgCheck, FgCall, BgFgUnknown,
                Exit, BgFgPid, BgFgJid, jobVars
  <2> QED
    BY <2>1, <2>2
<1>3. \A p \in Pids : proc[p] = "none" => proc'[p] = "none"
  <2>1. CASE BgFgSendCont
    BY <2>1 DEF BgFgSendCont, ChildrenInv, IInv, TypeOK
  <2>2. CASE ~BgFgSendCont
    BY <2>2 DEF WaitFg, MainResumes, BgFgReadPid, BgFgSetState, FgCheck, FgCall, BgFgUnknown,
                Exit, BgFgPid, BgFgJid, childVars
  <2> QED
    BY <2>1, <2>2
<1> QED
  BY <1>1, <1>2, <1>3, QuietStep DEF handlerVars
-----------------------------------------------------------------------------
\* waitpid: a child taken as dead is none of the kernel's any more.
LEMMA ChldWaitChildren ==
  ASSUME ChildrenInv, NEW p \in Pids, ChldWait(p)
  PROVE  CollectedAreGone' /\ ChildrenAreListed'
<1>1. pc # "add"
  BY HandlerRuns DEF ChldWait, ChildrenInv, Sigs
<1>2. hpid'["CHLD"] = p /\ (hstat' = "dead" => proc'[p] = "none")
  BY DEF ChldWait, ChildrenInv, IInv, TypeOK, Sigs
<1>3. CollectedAreGone'
  BY <1>2 DEF CollectedAreGone, Collecting
<1>4. \A q \in Pids : proc[q] = "none" => proc'[q] = "none"
  BY DEF ChldWait, ChildrenInv, IInv, TypeOK
<1>5. ChildrenAreListed'
  BY <1>1, <1>4 DEF ChldWait, jobVars, mainVars, ChildrenInv, ChildrenAreListed, Listed,
                    HoldingPid
<1> QED
  BY <1>3, <1>5

\* deletejob: only the child collected leaves the list.
LEMMA ChldDeleteChildren ==
  ASSUME ChildrenInv, ChldDelete
  PROVE  CollectedAreGone' /\ ChildrenAreListed'
<1> DEFINE gone == hpid["CHLD"]
<1>1. pc # "add" /\ jobs \in [Slots -> Job] /\ nextjid \in Nat
  BY HandlerRuns DEF ChldDelete, ChildrenInv, IInv, TypeOK, Sigs
<1>2. gone \in Pids /\ proc[gone] = "none"
  BY DEF ChldDelete, ChildrenInv, IInv, TypeOK, CollectedAreGone, Collecting, Sigs
<1>3. hpid'["CHLD"] = NoPid
  BY DEF ChldDelete, ChildrenInv, IInv, TypeOK, Sigs
<1>4. CollectedAreGone'
  BY <1>3, JobListAssumption DEF CollectedAreGone, Collecting
<1>5. jobs' = deletejob(jobs, gone)
  BY DEF ChldDelete
<1>6. \A i \in Slots : jobs[i].pid # gone => jobs'[i] = jobs[i]
  <2> HIDE DEF gone
  <2> QED
    BY <1>1, <1>5, DeletejobClears
<1>7. ChildrenAreListed'
  <2> SUFFICES ASSUME NEW p \in Pids, proc[p] # "none"
              PROVE  \E k \in Slots : jobs'[k].pid = p
    BY JobListAssumption DEF ChldDelete, childVars, ChildrenAreListed, Listed, HoldingPid
  <2>1. PICK k \in Slots : jobs[k].pid = p
    BY <1>1 DEF ChildrenInv, ChildrenAreListed, Listed, HoldingPid
  <2>2. p # gone
    BY <1>2
  <2> QED
    BY <1>6, <2>1, <2>2
<1> QED
  BY <1>4, <1>7

\* The rest of the handlers, and the arrival of signals.
LEMMA HandlerChildren ==
  ASSUME ChildrenInv,
         \/ ChldDone \/ ChldStop
         \/ \E s \in Sigs : Type(s) \/ Deliver(s) \/ KeyStep(s)
  PROVE  CollectedAreGone' /\ ChildrenAreListed'
<1>1. UNCHANGED proc
  BY DEF ChldDone, ChldStop, Type, Deliver, KeyStep, KeyFgpid, KeyKill, childVars
<1>2. \A i \in Slots : jobs'[i].pid = jobs[i].pid
  <2>1. CASE ChldStop
    <3>1. jobs \in [Slots -> Job] /\ "ST" \in JobStates
      BY DEF ChildrenInv, IInv, TypeOK, JobStates
    <3>2. CASE Listed(jobs, hpid["CHLD"])
      BY <2>1, <3>1, <3>2, GetjobpidFinds, WithStateSets DEF ChldStop
    <3>3. CASE ~Listed(jobs, hpid["CHLD"])
      BY <2>1, <3>3 DEF ChldStop
    <3> QED
      BY <3>2, <3>3
  <2>2. CASE ~ChldStop
    BY <2>2 DEF ChldDone, Type, Deliver, KeyStep, KeyFgpid, KeyKill, jobVars
  <2> QED
    BY <2>1, <2>2
<1>3. pc # "add" \/ UNCHANGED <<pc, pid>>
  <2>1. CASE \E s \in Sigs : Type(s) \/ Deliver(s)
    BY <2>1 DEF Type, Deliver, mainVars
  <2>2. CASE ChldDone \/ ChldStop
    BY <2>2, HandlerRuns DEF ChldDone, ChldStop, ChildrenInv, Sigs
  <2>3. CASE \E s \in Sigs : KeyStep(s)
    BY <2>3, HandlerRuns DEF KeyStep, KeyFgpid, KeyKill, ChildrenInv
  <2> QED
    BY <2>1, <2>2, <2>3
<1>4. UNCHANGED <<hpid["CHLD"], hstat>> \/ hpid'["CHLD"] = NoPid
  <2>1. hpid \in [Sigs -> Pids \cup {NoPid}] /\ "CHLD" \in Sigs
    BY DEF ChildrenInv, IInv, TypeOK, Sigs
  <2>2. CASE ChldStop
    BY <2>1, <2>2 DEF ChldStop
  <2>3. CASE ChldDone \/ \E s \in Sigs : Type(s) \/ Deliver(s)
    <3>1. hpid' = hpid /\ hstat' = hstat
      BY <2>3 DEF ChldDone, Type, Deliver, handlerVars
    <3> QED
      BY <3>1
  <2>4. CASE \E s \in Sigs : KeyStep(s)
    BY <2>1, <2>4 DEF KeyStep, KeyFgpid, KeyKill
  <2> QED
    BY <2>2, <2>3, <2>4
<1> QED
  BY <1>1, <1>2, <1>3, <1>4, QuietStep

\* A child that the kernel does not know does nothing.
LEMMA ChildChildren ==
  ASSUME ChildrenInv, NEW p \in Pids, Child(p)
  PROVE  CollectedAreGone' /\ ChildrenAreListed'
<1>1. UNCHANGED <<jobVars, mainVars, handlerVars>>
  BY ChildMoves DEF ChildrenInv
<1>2. \A q \in Pids : proc[q] = "none" => proc'[q] = "none"
  BY DEF Child, Starts, TakesKey, ChildSetpgid, ChildExec, ChildTakesInt, ChildTakesTstp,
         ChildExit, OutsideStop, OutsideKill, ChildrenInv, IInv, TypeOK
<1> QED
  BY <1>1, <1>2, QuietStep DEF jobVars, mainVars, handlerVars
-----------------------------------------------------------------------------
\* Every step keeps the invariant, as long as addjob has a slot for the new child.
LEMMA NextChildren ==
  ASSUME ChildrenInv, pc = "add" => FreeSlots(jobs) # {}, [Next]_vars
  PROVE  ChildrenInv'
<1> SUFFICES CollectedAreGone' /\ ChildrenAreListed'
  BY NextInv DEF ChildrenInv
<1>1. CASE Command
  BY <1>1, ForkChildren, MainChildren DEF Command
<1>2. CASE MainWaits \/ MainResumes
  BY <1>2, RunAddChildren, MainChildren DEF MainWaits, RunAdd
<1>3. CASE ChldStep
  BY <1>3, ChldWaitChildren, ChldDeleteChildren, HandlerChildren DEF ChldStep
<1>4. CASE \E s \in Sigs : Type(s) \/ Deliver(s) \/ KeyStep(s)
  BY <1>4, HandlerChildren
<1>5. CASE \E p \in Pids : Child(p)
  BY <1>5, ChildChildren
<1>6. CASE UNCHANGED vars
  BY <1>6, QuietStep DEF vars
<1> QED
  BY <1>1, <1>2, <1>3, <1>4, <1>5, <1>6 DEF Next

(* With a slot for every process id, the shell knows each of its children:   *)
(* addjob finds a slot, deletejob clears that of the collected child only,   *)
(* and between fork and addjob the pid is in exec_others' hands.             *)
THEOREM EveryChildListed ==
  ASSUME Room
  PROVE  Spec => []ChildrenAreListed
<1>1. Init => ChildrenInv
  BY InitChildren
<1>2. ChildrenInv /\ [Next]_vars => ChildrenInv'
  <2>1. ASSUME ChildrenInv, pc = "add" PROVE FreeSlots(jobs) # {}
    BY <2>1, FreeSlotForNew DEF ChildrenInv, IInv, AddIsNew
  <2> QED
    BY <2>1, NextChildren
<1>3. ChildrenInv => ChildrenAreListed
  BY DEF ChildrenInv
<1> QED
  BY <1>1, <1>2, <1>3, PTL DEF Spec
=============================================================================
