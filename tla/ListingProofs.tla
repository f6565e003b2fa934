--------------------------- MODULE ListingProofs ---------------------------
(* The listing of jobs is right for any number of slots and children and any *)
(* lines, although children are collected between the writes of a row.       *)
EXTENDS CommandLine, JobListProofs, SequenceTheorems, FiniteSetTheorems

Busy(i) == jobs[i].pid # NoPid

Types ==
  /\ jobs \in [Slots -> Job] /\ nextjid \in Nat /\ slot \in 1..(MAXJOBS + 1)
  /\ lines = [i \in Slots |-> lines[i]] /\ started = [p \in Pids |-> started[p]]
  /\ child \in [Pids -> {"none", "forked", "zombie"}]

(* No process is listed twice; a listed one is a child whose line its slot   *)
(* stores; and only the job that eval waits for is in the foreground.        *)
SlotsAgree ==
  /\ \A i, j \in Slots : Busy(i) /\ jobs[i].pid = jobs[j].pid => i = j
  /\ \A i \in Slots : Busy(i) => child[jobs[i].pid] # "none" /\ lines[i] = started[jobs[i].pid]
  /\ \A i \in Slots : Busy(i) => jobs[i].state = "BG" \/ (jobs[i].state = "FG" /\ pc = "wait")
  /\ \A i \in Slots : jobs[i].state = "FG" => Busy(i)

IsRow(r) == r = [pid |-> r.pid, jid |-> r.jid, state |-> r.state, line |-> r.line] /\ r.pid \in Pids

RowsTyped ==
  /\ Len(rows) \in Nat /\ rows = [n \in 1..Len(rows) |-> rows[n]]
  /\ \A n \in 1..Len(rows) : IsRow(rows[n])
  /\ pc \notin Listing => rows = <<>> /\ slot = 1
  /\ pc \in {"list state", "list line"} => slot \in Slots /\ Len(rows) > 0

(* A full row whose job is still there names one in the slots passed over;   *)
(* the row being written names that of the present slot.                     *)
RowsPlaced ==
  /\ \A n \in Full : Listed(jobs, rows[n].pid) => \E i \in 1..(slot - 1) : RowOf(n, i)
  /\ pc \in {"list state", "list line"} =>
       /\ Busy(slot) => RowOf(Len(rows), slot)
       /\ Listed(jobs, rows[Len(rows)].pid) => RowOf(Len(rows), slot)
       /\ pc = "list line" /\ Listed(jobs, rows[Len(rows)].pid) => rows[Len(rows)].state = "Running"

ListingInv == Types /\ SlotsAgree /\ RowsTyped /\ RowsPlaced /\ ListingTellsJobs

\* Append on a sequence of any length.
LEMMA AppendRow ==
  ASSUME NEW s, NEW k \in Nat, s = [n \in 1..k |-> s[n]], NEW e
  PROVE  /\ Append(s, e) = [n \in 1..(k + 1) |-> IF n = k + 1 THEN e ELSE s[n]]
         /\ Len(Append(s, e)) = k + 1
<1> DEFINE S == {s[n] : n \in 1..k} \cup {e}
<1>1. s \in Seq(S) /\ Len(s) = k
  OBVIOUS
<1> QED
  BY <1>1

\* The length of a sequence given by its elements.
LEMMA LenRows ==
  ASSUME NEW s, NEW k \in Nat, s = [n \in 1..k |-> s[n]]
  PROVE  Len(s) = k
OBVIOUS

\* At the start nothing is listed.
LEMMA InitListing == Init => ListingInv
<1> SUFFICES ASSUME Init PROVE ListingInv
  OBVIOUS
<1>1. /\ initjobs \in [Slots -> Job]
      /\ \A i \in Slots : initjobs[i].pid = NoPid /\ initjobs[i].state = "UNDEF"
  BY DEF initjobs, clearjob, Job, JobStates
<1>2. 1 \in 1..(MAXJOBS + 1)
  BY JobListAssumption
<1>3. Types
  BY <1>1, <1>2 DEF Init, Types
<1>4. SlotsAgree
  BY <1>1 DEF Init, SlotsAgree, Busy
<1>5. RowsTyped /\ RowsPlaced /\ ListingTellsJobs
  BY DEF Init, RowsTyped, RowsPlaced, ListingTellsJobs, Listing, Full
<1> QED
  BY <1>3, <1>4, <1>5 DEF ListingInv

-----------------------------------------------------------------------------
(* Steps outside the listing that leave list and children alone.             *)

\* They keep the invariant, as long as nothing is in the foreground behind the wait.
LEMMA Elsewhere ==
  ASSUME ListingInv, UNCHANGED <<joblist, listing, world>>, pc \notin Listing,
         pc' \notin Listing \/ pc' = "list",
         pc = pc' \/ \A i \in Slots : jobs[i].state # "FG"
  PROVE  ListingInv'
<1>1. /\ jobs' = jobs /\ nextjid' = nextjid /\ lines' = lines /\ slot' = slot /\ rows' = rows
      /\ child' = child /\ started' = started
  BY DEF joblist, listing, world
<1>2. Types' /\ SlotsAgree'
  BY <1>1 DEF ListingInv, Types, SlotsAgree, Busy
<1>3. rows' = <<>> /\ slot' = 1
  BY <1>1 DEF ListingInv, RowsTyped
<1>4. Full' = {}
  <2>1. DOMAIN rows' = {} /\ 1..(Len(rows') - 1) = {}
    BY <1>3
  <2> QED
    BY <2>1 DEF Full
<1>5. RowsTyped'
  BY <1>1, <1>3 DEF ListingInv, RowsTyped, Listing
<1>6. RowsPlaced' /\ ListingTellsJobs'
  <2>1. 1..(slot' - 1) = {}
    BY <1>3
  <2> QED
    BY <1>4, <2>1 DEF RowsPlaced, ListingTellsJobs, Listing
<1> QED
  BY <1>2, <1>5, <1>6 DEF ListingInv

\* Nothing is in the foreground when fgpid says so.
LEMMA NoForeground ==
  ASSUME ListingInv, pc # "wait" \/ fgpid(jobs) = NoPid
  PROVE  \A i \in Slots : jobs[i].state # "FG"
<1>1. CASE pc # "wait"
  BY <1>1 DEF ListingInv, SlotsAgree
<1>2. CASE fgpid(jobs) = NoPid
  <2> SUFFICES ASSUME InForeground(jobs) # {} PROVE FALSE
    BY DEF InForeground
  <2>1. First(InForeground(jobs)) \in InForeground(jobs)
    BY FirstInSet DEF InForeground
  <2>2. jobs[First(InForeground(jobs))].pid = NoPid
    BY <1>2 DEF fgpid
  <2> QED
    BY <2>1, <2>2 DEF InForeground, ListingInv, SlotsAgree, Busy
<1> QED
  BY <1>1, <1>2

\* Reading and parsing a line, and what eval does without a child.
LEMMA ParseStep ==
  ASSUME ListingInv,
         ReadLine \/ EndOfInput \/ Redirection \/ Token \/ LineEnd \/ Ignore \/ Quit \/ Jobs \/ Waited
  PROVE  ListingInv'
<1>1. UNCHANGED <<joblist, listing, world>>
  BY DEF ReadLine, EndOfInput, Redirection, Token, LineEnd, Ignore, Quit, Jobs, Waited
<1>2. pc \notin Listing /\ (pc' \notin Listing \/ pc' = "list")
  BY DEF ReadLine, EndOfInput, Redirection, Token, LineEnd, Ignore, Quit, Jobs, Waited, Fgets,
         Return, Fail, Finish, Ready, Listing
<1>3. pc # "wait" \/ fgpid(jobs) = NoPid
  BY DEF ReadLine, EndOfInput, Redirection, Token, LineEnd, Ignore, Quit, Jobs, Waited, Ready
<1> QED
  BY <1>1, <1>2, <1>3, Elsewhere, NoForeground

-----------------------------------------------------------------------------
(* A child comes and goes.                                                   *)

\* addjob and the strcpy in it fill one free slot, if there is one.
LEMMA ExecuteFills ==
  ASSUME ListingInv, NEW p \in Pids, NEW s \in {"BG", "FG"}, jobs' = addjob(jobs, nextjid, p, s),
         lines' = Stored
  PROVE  /\ jobs' \in [Slots -> Job] /\ lines' = [i \in Slots |-> lines'[i]]
         /\ \/ jobs' = jobs /\ lines' = lines
            \/ \E i \in Slots :
                 /\ ~Busy(i) /\ jobs'[i].pid = p /\ jobs'[i].state = s /\ lines'[i] = cmdline
                 /\ \A j \in Slots \ {i} : jobs'[j] = jobs[j] /\ lines'[j] = lines[j]
<1> DEFINE i == First(FreeSlots(jobs))
           job == [pid |-> p, jid |-> nextjid, state |-> s]
<1>1. jobs \in [Slots -> Job] /\ nextjid \in Nat /\ lines = [j \in Slots |-> lines[j]]
  BY DEF ListingInv, Types
<1>2. CASE FreeSlots(jobs) = {}
  BY <1>1, <1>2 DEF addjob, Stored
<1>3. CASE FreeSlots(jobs) # {}
  <2>1. i \in Slots /\ ~Busy(i)
    BY <1>3, FirstInSet DEF FreeSlots, HoldingPid, Busy
  <2>2. jobs' = [jobs EXCEPT ![i] = job] /\ lines' = [lines EXCEPT ![i] = cmdline]
    BY <1>3 DEF addjob, Stored
  <2>3. job \in Job /\ job.pid = p /\ job.state = s
    BY <1>1 DEF Job, JobStates
  <2> HIDE DEF i, job
  <2> QED
    BY <1>1, <2>1, <2>2, <2>3
<1> QED
  BY <1>2, <1>3

\* exec_others: the new job, if there is room for it, is the only one of its process.
LEMMA ExecuteInv ==
  ASSUME ListingInv, Execute
  PROVE  ListingInv'
<1> DEFINE s == IF is_bg(tok) THEN "BG" ELSE "FG"
<1>1. PICK p \in Pids : /\ child[p] = "none" /\ child' = [child EXCEPT ![p] = "forked"]
                        /\ started' = [started EXCEPT ![p] = cmdline]
                        /\ jobs' = addjob(jobs, nextjid, p, s)
  BY DEF Execute
<1>2. /\ pc = "eval" /\ pc' = (IF s = "BG" THEN "prompt" ELSE "wait") /\ s \in {"BG", "FG"}
      /\ lines' = Stored /\ nextjid' = nextjidAfterAdd(jobs, nextjid)
      /\ slot' = slot /\ rows' = rows
  BY DEF Execute, Return, listing
<1>3. Types /\ SlotsAgree /\ RowsTyped
  BY DEF ListingInv
<1> HIDE DEF s
<1>4. /\ jobs' \in [Slots -> Job] /\ lines' = [i \in Slots |-> lines'[i]]
      /\ \/ jobs' = jobs /\ lines' = lines
         \/ \E i \in Slots :
              /\ ~Busy(i) /\ jobs'[i].pid = p /\ jobs'[i].state = s /\ lines'[i] = cmdline
              /\ \A j \in Slots \ {i} : jobs'[j] = jobs[j] /\ lines'[j] = lines[j]
  BY <1>1, <1>2, ExecuteFills
<1>5. nextjid' \in Nat
  BY <1>1, <1>2, <1>3, AddjobFills DEF Types
<1>6. /\ started' = [q \in Pids |-> started'[q]] /\ started'[p] = cmdline
      /\ child' \in [Pids -> {"none", "forked", "zombie"}] /\ child'[p] # "none"
      /\ \A q \in Pids \ {p} : started'[q] = started[q] /\ child'[q] = child[q]
  BY <1>1, <1>3 DEF Types
<1>7. Types'
  BY <1>2, <1>3, <1>4, <1>5, <1>6 DEF Types
<1>8. \A i \in Slots : jobs[i].pid # p
  BY <1>1, JobListAssumption DEF ListingInv, SlotsAgree, Busy
<1>9. \A i \in Slots : Busy(i) => jobs[i].pid \in Pids
  BY <1>3 DEF Types, Job, Busy
<1>10. SlotsAgree'
  <2>1. CASE jobs' = jobs /\ lines' = lines
    BY <1>2, <1>3, <1>6, <1>8, <1>9, <2>1 DEF SlotsAgree, Busy
  <2>2. ASSUME NEW i \in Slots, ~Busy(i), jobs'[i].pid = p, jobs'[i].state = s, lines'[i] = cmdline,
               \A j \in Slots \ {i} : jobs'[j] = jobs[j] /\ lines'[j] = lines[j]
        PROVE  SlotsAgree'
    <3>1. \A j \in Slots \ {i} : jobs'[j] = jobs[j] /\ lines'[j] = lines[j] /\ jobs'[j].pid # p
      BY <1>8, <2>2
    <3>2. p # NoPid
      BY JobListAssumption
    <3> QED
      BY <1>2, <1>3, <1>6, <1>9, <2>2, <3>1, <3>2 DEF SlotsAgree, Busy
  <2> QED
    BY <1>4, <2>1, <2>2
<1>11. pc' \notin Listing /\ pc \notin Listing
  BY <1>2 DEF Listing
<1>12. RowsTyped' /\ rows' = <<>> /\ slot' = 1
  BY <1>2, <1>3, <1>11 DEF RowsTyped, Listing
<1>13. RowsPlaced' /\ ListingTellsJobs'
  <2>1. Full' = {}
    <3>1. pc' # "list"
      BY <1>2
    <3>2. 1..(Len(rows') - 1) = {}
      BY <1>12
    <3> QED
      BY <3>1, <3>2 DEF Full
  <2> QED
    BY <1>11, <2>1 DEF RowsPlaced, ListingTellsJobs, Listing
<1> QED
  BY <1>7, <1>10, <1>12, <1>13 DEF ListingInv

\* The end of a child is of no consequence before it is collected.
LEMMA ChildRunsInv ==
  ASSUME ListingInv, NEW p \in Pids, ChildRuns(p)
  PROVE  ListingInv'
<1>1. /\ child' = [child EXCEPT ![p] = "zombie"]
      /\ jobs' = jobs /\ nextjid' = nextjid /\ lines' = lines /\ slot' = slot /\ rows' = rows
      /\ started' = started /\ pc' = pc
  BY DEF ChildRuns, joblist, listing
<1>2. Types'
  BY <1>1 DEF ListingInv, Types
<1>3. SlotsAgree'
  BY <1>1 DEF ListingInv, Types, SlotsAgree, Busy, Job
<1>4. RowsTyped'
  BY <1>1 DEF ListingInv, RowsTyped
<1>5. Full' = Full
  BY <1>1 DEF Full
<1>6. RowsPlaced'
  <2>1. RowsPlaced' <=> RowsPlaced
    BY <1>1, <1>5 DEF RowsPlaced, RowOf, Busy
  <2> QED
    BY <2>1 DEF ListingInv
<1>7. ListingTellsJobs'
  <2>1. ListingTellsJobs' <=> ListingTellsJobs
    BY <1>1, <1>5 DEF ListingTellsJobs, RowOf
  <2> QED
    BY <2>1 DEF ListingInv
<1> QED
  BY <1>2, <1>3, <1>4, <1>6, <1>7 DEF ListingInv

\* deletejob empties the slot of the child collected, its line included.
LEMMA CollectClears ==
  ASSUME ListingInv, NEW p \in Pids, Collect(p)
  PROVE  /\ jobs' \in [Slots -> Job] /\ nextjid' \in Nat /\ lines' = [i \in Slots |-> lines'[i]]
         /\ \A i \in Slots : jobs[i].pid = p => jobs'[i] = clearjob
         /\ \A i \in Slots : jobs[i].pid # p => jobs'[i] = jobs[i] /\ lines'[i] = lines[i]
<1>1. /\ jobs \in [Slots -> Job] /\ nextjid \in Nat /\ lines = [i \in Slots |-> lines[i]]
      /\ \A i, j \in Slots : Busy(i) /\ jobs[i].pid = jobs[j].pid => i = j
  BY DEF ListingInv, Types, SlotsAgree
<1>2. /\ jobs' = deletejob(jobs, p) /\ nextjid' = nextjidAfterDelete(jobs, nextjid, p)
      /\ lines' = Cleared(p)
  BY DEF Collect
<1>3. /\ jobs' \in [Slots -> Job] /\ nextjid' \in Nat
      /\ \/ jobs' = jobs /\ \A i \in Slots : jobs[i].pid # p
         \/ \E i \in Slots : /\ jobs[i].pid = p /\ jobs'[i] = clearjob
                             /\ \A j \in Slots \ {i} : jobs'[j] = jobs[j]
  BY <1>1, <1>2, DeletejobClears, JobListAssumption
<1>4. \A i \in Slots : IF jobs[i].pid = p THEN jobs'[i] = clearjob ELSE jobs'[i] = jobs[i]
  BY <1>1, <1>3, JobListAssumption DEF Busy
<1>5. lines' = [i \in Slots |-> lines'[i]] /\ \A i \in Slots : jobs[i].pid # p => lines'[i] = lines[i]
  <2>1. CASE Listed(jobs, p)
    <3>1. getjobpid(jobs, p) \in Slots /\ jobs[getjobpid(jobs, p)].pid = p
      BY <1>1, <2>1, GetjobpidFinds
    <3>2. lines' = [lines EXCEPT ![getjobpid(jobs, p)] = <<>>]
      BY <1>2, <2>1 DEF Cleared
    <3> QED
      BY <1>1, <3>1, <3>2
  <2>2. CASE ~Listed(jobs, p)
    BY <1>1, <1>2, <2>2 DEF Cleared
  <2> QED
    BY <2>1, <2>2
<1> QED
  BY <1>3, <1>4, <1>5

\* sigchld_handler: what it removes from under the listing is not missed in it.
LEMMA CollectInv ==
  ASSUME ListingInv, NEW p \in Pids, Collect(p)
  PROVE  ListingInv'
<1>1. /\ child' = [child EXCEPT ![p] = "none"] /\ started' = [started EXCEPT ![p] = <<>>]
      /\ pc' = pc /\ slot' = slot /\ rows' = rows
  BY DEF Collect, listing
<1>2. Types /\ SlotsAgree /\ RowsTyped /\ RowsPlaced /\ ListingTellsJobs
  BY DEF ListingInv
<1>3. /\ jobs' \in [Slots -> Job] /\ nextjid' \in Nat /\ lines' = [i \in Slots |-> lines'[i]]
      /\ \A i \in Slots : jobs[i].pid = p => jobs'[i] = clearjob
      /\ \A i \in Slots : jobs[i].pid # p => jobs'[i] = jobs[i] /\ lines'[i] = lines[i]
  BY CollectClears
<1>4. /\ child' \in [Pids -> {"none", "forked", "zombie"}]
      /\ started' = [q \in Pids |-> started'[q]]
      /\ \A q \in Pids \ {p} : child'[q] = child[q] /\ started'[q] = started[q]
  BY <1>1, <1>2 DEF Types
<1>5. Types'
  BY <1>1, <1>2, <1>3, <1>4 DEF Types
<1>6. clearjob.pid = NoPid /\ clearjob.state = "UNDEF"
  BY DEF clearjob
<1>7. \A i \in Slots : Busy(i)' => Busy(i) /\ jobs'[i] = jobs[i] /\ jobs[i].pid # p
                                 /\ jobs[i].pid \in Pids
  BY <1>2, <1>3, <1>6 DEF Busy, Types, Job
<1>8. SlotsAgree'
  <2>1. \A i \in Slots : jobs'[i].state = "FG" => Busy(i)'
    BY <1>2, <1>3, <1>6 DEF SlotsAgree, Busy
  <2> QED
    BY <1>1, <1>2, <1>3, <1>4, <1>7, <2>1 DEF SlotsAgree, Busy
<1>9. RowsTyped'
  BY <1>1, <1>2 DEF RowsTyped
<1>10. Full' = Full
  BY <1>1 DEF Full
<1>11. \A q \in Pids : Listed(jobs', q) => Listed(jobs, q) /\ q # p
  BY <1>3, <1>6, JobListAssumption DEF Listed, HoldingPid
<1>12. \A n \in 1..Len(rows) : rows[n].pid \in Pids
  BY <1>2 DEF RowsTyped, IsRow
<1>13. pc \in Listing => Full \subseteq 1..Len(rows)
  <2>1. Len(rows) \in Nat /\ rows = [n \in 1..Len(rows) |-> rows[n]]
    BY <1>2 DEF RowsTyped
  <2>2. DOMAIN rows = 1..Len(rows) /\ 1..(Len(rows) - 1) \subseteq 1..Len(rows)
    BY <2>1
  <2> QED
    BY <2>2 DEF Full
<1>14. \A i \in Slots, q \in Pids \ {p} : jobs[i].pid = q => jobs'[i].pid = q
  BY <1>3
<1>15. 1..(slot - 1) \subseteq Slots
  BY <1>2, JobListAssumption DEF Types, Slots
<1>16. RowsPlaced'
  <2>1. ASSUME NEW n \in Full, pc \in Listing, Listed(jobs', rows[n].pid)
        PROVE  \E i \in 1..(slot - 1) : rows[n].pid = jobs'[i].pid
    <3>1. rows[n].pid \in Pids \ {p} /\ Listed(jobs, rows[n].pid)
      BY <1>11, <1>12, <1>13, <2>1
    <3>2. PICK i \in 1..(slot - 1) : rows[n].pid = jobs[i].pid
      BY <1>2, <3>1 DEF RowsPlaced, RowOf
    <3> QED
      BY <1>14, <1>15, <3>1, <3>2
  <2>2. ASSUME pc \notin Listing
        PROVE  Full = {}
    <3>1. rows = <<>> /\ pc # "list"
      BY <1>2, <2>2 DEF RowsTyped, Listing
    <3>2. 1..(Len(rows) - 1) = {}
      BY <3>1
    <3> QED
      BY <3>1, <3>2 DEF Full
  <2>3. ASSUME pc \in {"list state", "list line"}
        PROVE  /\ Len(rows) \in 1..Len(rows) /\ slot \in Slots
               /\ Busy(slot)' => rows[Len(rows)].pid = jobs'[slot].pid
               /\ Listed(jobs', rows[Len(rows)].pid) => rows[Len(rows)].pid = jobs'[slot].pid
               /\ pc = "list line" /\ Listed(jobs', rows[Len(rows)].pid)
                    => rows[Len(rows)].state = "Running"
    <3>0. Len(rows) \in Nat /\ Len(rows) > 0 /\ slot \in Slots
      BY <1>2, <2>3 DEF RowsTyped
    <3>1. Len(rows) \in 1..Len(rows) /\ slot \in Slots
      BY <3>0
    <3> DEFINE q == rows[Len(rows)].pid
    <3>2. q \in Pids
      BY <1>12, <3>1
    <3>3. /\ Busy(slot) => q = jobs[slot].pid
          /\ Listed(jobs, q) => q = jobs[slot].pid
          /\ pc # "list line" \/ ~Listed(jobs, q) \/ rows[Len(rows)].state = "Running"
      BY <1>2, <2>3 DEF RowsPlaced, RowOf
    <3>4. Busy(slot)' => q = jobs'[slot].pid
      BY <1>1, <1>7, <3>1, <3>3
    <3>5. Listed(jobs', q) => q = jobs'[slot].pid /\ Listed(jobs, q)
      BY <1>11, <1>14, <3>1, <3>2, <3>3
    <3> QED
      BY <3>1, <3>3, <3>4, <3>5
  <2> QED
    BY <1>1, <1>10, <2>1, <2>2, <2>3 DEF RowsPlaced, RowOf, Listing
<1>17. ListingTellsJobs'
  <2> SUFFICES ASSUME pc \in Listing PROVE ListingTellsJobs'
    BY <1>1 DEF ListingTellsJobs
  <2>1. ASSUME NEW n \in Full, Listed(jobs', rows[n].pid)
        PROVE  rows[n].state = "Running" /\ rows[n].line = started'[rows[n].pid]
    <3>1. rows[n].pid \in Pids \ {p} /\ Listed(jobs, rows[n].pid)
      BY <1>11, <1>12, <1>13, <2>1
    <3> QED
      BY <1>2, <1>4, <3>1 DEF ListingTellsJobs
  <2>2. ASSUME NEW i \in 1..(slot - 1), jobs'[i].pid # NoPid
        PROVE  \E n \in Full : rows[n].pid = jobs'[i].pid
                              /\ \A k \in Full : rows[k].pid = jobs'[i].pid => k = n
    BY <1>2, <1>7, <1>15, <2>2 DEF ListingTellsJobs, RowOf, Busy
  <2> QED
    BY <1>1, <1>10, <2>1, <2>2 DEF ListingTellsJobs, RowOf
<1> QED
  BY <1>5, <1>8, <1>9, <1>16, <1>17 DEF ListingInv

-----------------------------------------------------------------------------
(* The listing itself.                                                       *)

\* What the writes of listjobs leave alone.
LEMMA ListLeaves ==
  ASSUME ListHead \/ ListState \/ ListLine
  PROVE  /\ jobs' = jobs /\ nextjid' = nextjid /\ lines' = lines /\ child' = child
         /\ started' = started /\ pc # "wait" /\ pc' # "wait"
BY DEF ListHead, ListState, ListLine, joblist, world

\* They keep the job list as it was.
LEMMA ListSlotsAgree ==
  ASSUME ListingInv, ListHead \/ ListState \/ ListLine
  PROVE  SlotsAgree' /\ \A i \in Slots : Busy(i) => jobs[i].pid \in Pids /\ jobs[i].state = "BG"
<1>1. /\ jobs' = jobs /\ lines' = lines /\ child' = child /\ started' = started
      /\ pc # "wait" /\ pc' # "wait"
  BY ListLeaves
<1>2. SlotsAgree'
  BY <1>1 DEF ListingInv, SlotsAgree, Busy
<1>3. \A i \in Slots : Busy(i) => jobs[i].pid \in Pids /\ jobs[i].state = "BG"
  BY <1>1 DEF ListingInv, Types, SlotsAgree, Busy, Job
<1> QED
  BY <1>2, <1>3

\* A free slot is passed over.
LEMMA PassOver ==
  ASSUME ListingInv, ListHead, ~Busy(slot)
  PROVE  ListingInv'
<1>1. /\ jobs' = jobs /\ nextjid' = nextjid /\ lines' = lines /\ child' = child
      /\ started' = started /\ SlotsAgree'
  BY ListLeaves, ListSlotsAgree
<1>2. pc = "list" /\ pc' = pc /\ rows' = rows /\ slot' = slot + 1 /\ slot <= MAXJOBS
  BY DEF ListHead, Busy
<1>3. Types /\ RowsTyped /\ RowsPlaced /\ ListingTellsJobs
  BY DEF ListingInv
<1>4. slot \in Nat /\ slot' \in 1..(MAXJOBS + 1) /\ 1..(slot' - 1) = 1..(slot - 1) \cup {slot}
  BY <1>2, <1>3, JobListAssumption DEF Types
<1>5. Types'
  BY <1>1, <1>3, <1>4 DEF Types
<1>6. RowsTyped'
  BY <1>2, <1>3 DEF RowsTyped, Listing
<1>7. Full' = Full
  BY <1>2 DEF Full
<1>8. RowsPlaced'
  BY <1>1, <1>2, <1>3, <1>4, <1>7 DEF RowsPlaced, RowOf
<1>9. ListingTellsJobs'
  BY <1>1, <1>2, <1>3, <1>4, <1>7 DEF ListingTellsJobs, RowOf, Listing, Busy
<1> QED
  BY <1>1, <1>5, <1>6, <1>8, <1>9 DEF ListingInv

\* A row is begun behind those written in full.
LEMMA BeginRow ==
  ASSUME ListingInv, ListHead, Busy(slot)
  PROVE  ListingInv'
<1> DEFINE k == Len(rows)
           row == [pid |-> jobs[slot].pid, jid |-> jobs[slot].jid, state |-> Unwritten, line |-> <<>>]
<1>1. /\ jobs' = jobs /\ nextjid' = nextjid /\ lines' = lines /\ child' = child
      /\ started' = started /\ SlotsAgree'
      /\ \A i \in Slots : Busy(i) => jobs[i].pid \in Pids
  BY ListLeaves, ListSlotsAgree
<1>2. /\ pc = "list" /\ pc' = "list state" /\ slot' = slot /\ slot <= MAXJOBS
      /\ rows' = Append(rows, row)
  BY DEF ListHead, Busy
<1>3. Types /\ RowsTyped /\ RowsPlaced /\ ListingTellsJobs
  BY DEF ListingInv
<1>4. slot \in Slots
  <2>1. slot \in 1..(MAXJOBS + 1)
    BY <1>3 DEF Types
  <2>2. slot <= MAXJOBS
    BY <1>2
  <2> QED
    BY <2>1, <2>2, JobListAssumption DEF Slots
<1>5. row.pid = jobs[slot].pid /\ IsRow(row)
  BY <1>1, <1>4 DEF IsRow
<1> HIDE DEF row
<1>6. k \in Nat /\ rows = [n \in 1..k |-> rows[n]] /\ \A n \in 1..k : IsRow(rows[n])
  BY <1>3 DEF RowsTyped
<1> HIDE DEF k
<1>7. rows' = [n \in 1..(k + 1) |-> IF n = k + 1 THEN row ELSE rows[n]] /\ Len(rows') = k + 1
  <2>1. /\ Append(rows, row) = [n \in 1..(k + 1) |-> IF n = k + 1 THEN row ELSE rows[n]]
        /\ Len(Append(rows, row)) = k + 1
    BY <1>6, AppendRow
  <2> QED
    BY <1>2, <2>1
<1>8. Full = 1..k /\ Full' = 1..k
  <2>1. DOMAIN rows = 1..k
    BY <1>6
  <2>2. Len(rows') - 1 = k
    BY <1>6, <1>7
  <2> QED
    BY <1>2, <2>1, <2>2 DEF Full
<1>9. \A n \in 1..k : rows'[n] = rows[n] /\ n \in 1..(k + 1)
  BY <1>6, <1>7
<1>10. rows'[k + 1] = row /\ k + 1 \in Nat /\ k + 1 > 0 /\ k + 1 \in 1..(k + 1)
  BY <1>6, <1>7
<1>11. Types'
  BY <1>1, <1>2, <1>3 DEF Types
<1>12. RowsTyped'
  <2>1. \A n \in 1..(k + 1) : IsRow(rows'[n])
    BY <1>5, <1>6, <1>7, <1>9
  <2>2. rows' = [n \in 1..(k + 1) |-> rows'[n]]
    BY <1>7
  <2>3. \A n \in 1..Len(rows') : IsRow(rows[n])'
    BY <2>1, <1>7 DEF IsRow
  <2>4. Len(rows') \in Nat /\ rows' = [n \in 1..Len(rows') |-> rows'[n]] /\ Len(rows') > 0
    BY <2>2, <1>7, <1>10
  <2>5. slot' \in Slots /\ pc' \in Listing
    BY <1>2, <1>4 DEF Listing
  <2> QED
    BY <2>3, <2>4, <2>5 DEF RowsTyped
<1>13. RowsPlaced'
  <2>1. \A n \in Full' : Listed(jobs', rows'[n].pid)
                           => \E i \in 1..(slot' - 1) : rows'[n].pid = jobs'[i].pid
    <3>1. \A n \in Full : Listed(jobs, rows[n].pid) => \E i \in 1..(slot - 1) : rows[n].pid = jobs[i].pid
      <4>1. RowsPlaced
        BY <1>3
      <4> QED
        BY <4>1 DEF RowsPlaced, RowOf
    <3>2. Full' = Full /\ \A n \in Full : rows'[n] = rows[n]
      BY <1>8, <1>9
    <3>3. jobs' = jobs /\ slot' = slot
      BY <1>1, <1>2
    <3>4. ASSUME NEW n \in Full, Listed(jobs, rows'[n].pid)
          PROVE  \E i \in 1..(slot - 1) : rows'[n].pid = jobs[i].pid
      <4>1. rows'[n] = rows[n]
        BY <3>2
      <4> QED
        BY <3>1, <3>4, <4>1, Zenon
    <3> QED
      BY <3>2, <3>3, <3>4, Zenon
  <2>2. rows'[Len(rows')].pid = jobs'[slot'].pid
    BY <1>1, <1>2, <1>5, <1>7, <1>10
  <2> QED
    BY <1>2, <2>1, <2>2 DEF RowsPlaced, RowOf
<1>14. ListingTellsJobs'
  <2>1. \A n \in Full' : Listed(jobs', rows'[n].pid) =>
          rows'[n].state = "Running" /\ rows'[n].line = started'[rows'[n].pid]
    BY <1>1, <1>2, <1>3, <1>8, <1>9 DEF ListingTellsJobs, Listing
  <2>2. \A i \in 1..(slot' - 1) : jobs'[i].pid # NoPid =>
          \E n \in Full' : /\ rows'[n].pid = jobs'[i].pid
                           /\ \A j \in Full' : rows'[j].pid = jobs'[i].pid => j = n
    <3>1. \A i \in 1..(slot - 1) : jobs[i].pid # NoPid =>
            \E n \in Full : rows[n].pid = jobs[i].pid /\ \A j \in Full : rows[j].pid = jobs[i].pid => j = n
      BY <1>2, <1>3 DEF ListingTellsJobs, RowOf, Listing
    <3>2. Full' = Full /\ \A n \in Full : rows'[n] = rows[n]
      BY <1>8, <1>9
    <3> SUFFICES ASSUME NEW i \in 1..(slot - 1), jobs[i].pid # NoPid
                 PROVE  \E n \in Full : /\ rows'[n].pid = jobs[i].pid
                                        /\ \A j \in Full : rows'[j].pid = jobs[i].pid => j = n
      BY <1>1, <1>2, <3>2
    <3>3. PICK n \in Full : rows[n].pid = jobs[i].pid /\ \A j \in Full : rows[j].pid = jobs[i].pid => j = n
      BY <3>1
    <3>4. rows'[n].pid = jobs[i].pid /\ \A j \in Full : rows'[j].pid = jobs[i].pid => j = n
      BY <3>2, <3>3
    <3> QED
      BY <3>4
  <2> QED
    BY <2>1, <2>2 DEF ListingTellsJobs, RowOf
<1> QED
  BY <1>1, <1>11, <1>12, <1>13, <1>14 DEF ListingInv

\* The state of the last row is written: that of a job nobody waits for.
LEMMA WriteState ==
  ASSUME ListingInv, ListState
  PROVE  ListingInv'
<1> DEFINE k == Len(rows)
           row == [rows[k] EXCEPT !.state = StateName(jobs[slot].state)]
<1>1. /\ jobs' = jobs /\ nextjid' = nextjid /\ lines' = lines /\ child' = child
      /\ started' = started /\ SlotsAgree'
      /\ \A i \in Slots : Busy(i) => jobs[i].pid \in Pids /\ jobs[i].state = "BG"
  BY ListLeaves, ListSlotsAgree
<1>2. pc = "list state" /\ pc' = "list line" /\ slot' = slot /\ rows' = [rows EXCEPT ![k] = row]
  BY DEF ListState
<1>3. Types /\ RowsTyped /\ RowsPlaced /\ ListingTellsJobs
  BY DEF ListingInv
<1>4. /\ k \in Nat /\ k > 0 /\ rows = [n \in 1..k |-> rows[n]] /\ slot \in Slots
      /\ \A n \in 1..k : IsRow(rows[n])
  BY <1>2, <1>3 DEF RowsTyped
<1>5. k \in 1..k /\ \A n \in 1..(k - 1) : n \in 1..k /\ n # k
  BY <1>4
<1>6. IsRow(row) /\ row.pid = rows[k].pid /\ row.state = StateName(jobs[slot].state)
  BY <1>4, <1>5 DEF IsRow
<1> HIDE DEF row
<1>7. rows' = [n \in 1..k |-> rows'[n]] /\ rows'[k] = row /\ \A n \in 1..k : n # k => rows'[n] = rows[n]
  BY <1>2, <1>4, <1>5
<1>8. Len(rows') = k
  BY <1>4, <1>7, LenRows
<1>9. Full = 1..(k - 1) /\ Full' = 1..(k - 1)
  BY <1>2, <1>8 DEF Full
<1>10. Types'
  BY <1>1, <1>2, <1>3 DEF Types
<1> HIDE DEF k
<1>11. RowsTyped'
  <2>1. \A n \in 1..k : IsRow(rows'[n])
    BY <1>4, <1>6, <1>7
  <2>2. \A n \in 1..Len(rows') : IsRow(rows[n])'
    BY <2>1, <1>8 DEF IsRow
  <2>3. Len(rows') \in Nat /\ rows' = [n \in 1..Len(rows') |-> rows'[n]] /\ Len(rows') > 0
    BY <1>4, <1>7, <1>8
  <2> QED
    BY <1>2, <1>4, <2>2, <2>3 DEF RowsTyped, Listing
<1>12. RowsPlaced'
  <2>1. \A n \in Full' : Listed(jobs', rows'[n].pid)
                           => \E i \in 1..(slot' - 1) : rows'[n].pid = jobs'[i].pid
    <3>1. \A n \in Full : Listed(jobs, rows[n].pid) => \E i \in 1..(slot - 1) : rows[n].pid = jobs[i].pid
      <4>1. RowsPlaced
        BY <1>3
      <4> QED
        BY <4>1 DEF RowsPlaced, RowOf
    <3>2. Full' = Full /\ \A n \in Full : rows'[n] = rows[n]
      BY <1>5, <1>7, <1>9
    <3>3. jobs' = jobs /\ slot' = slot
      BY <1>1, <1>2
    <3>4. ASSUME NEW n \in Full, Listed(jobs, rows'[n].pid)
          PROVE  \E i \in 1..(slot - 1) : rows'[n].pid = jobs[i].pid
      <4>1. rows'[n] = rows[n]
        BY <3>2
      <4> QED
        BY <3>1, <3>4, <4>1, Zenon
    <3> QED
      BY <3>2, <3>3, <3>4, Zenon
  <2>2. /\ Busy(slot) => row.pid = jobs[slot].pid
        /\ Listed(jobs, row.pid) => row.pid = jobs[slot].pid
    BY <1>2, <1>3, <1>6 DEF RowsPlaced, RowOf, k
  <2>3. ASSUME Listed(jobs, row.pid) PROVE row.state = "Running"
    <3>1. row.pid \in Pids
      BY <1>6 DEF IsRow
    <3>2. Busy(slot)
      BY <2>2, <2>3, <3>1, JobListAssumption DEF Busy
    <3>3. jobs[slot].state = "BG"
      BY <1>1, <1>4, <3>2
    <3> QED
      BY <1>6, <3>3 DEF StateName
  <2> QED
    BY <1>1, <1>2, <1>7, <1>8, <2>1, <2>2, <2>3 DEF RowsPlaced, RowOf, Busy
<1>13. ListingTellsJobs'
  <2>1. \A n \in Full' : Listed(jobs', rows'[n].pid) =>
          rows'[n].state = "Running" /\ rows'[n].line = started'[rows'[n].pid]
    <3>1. \A n \in Full : Listed(jobs, rows[n].pid) =>
            rows[n].state = "Running" /\ rows[n].line = started[rows[n].pid]
      <4>1. ListingTellsJobs /\ pc \in Listing
        BY <1>2, <1>3 DEF Listing
      <4> QED
        BY <4>1 DEF ListingTellsJobs
    <3>2. Full' = Full /\ \A n \in Full : rows'[n] = rows[n]
      BY <1>5, <1>7, <1>9
    <3>3. jobs' = jobs /\ started' = started
      BY <1>1
    <3> QED
      BY <3>1, <3>2, <3>3
  <2>2. \A i \in 1..(slot' - 1) : jobs'[i].pid # NoPid =>
          \E n \in Full' : /\ rows'[n].pid = jobs'[i].pid
                           /\ \A j \in Full' : rows'[j].pid = jobs'[i].pid => j = n
    <3>0. jobs' = jobs /\ slot' = slot
      BY <1>1, <1>2
    <3>1. \A i \in 1..(slot - 1) : jobs[i].pid # NoPid =>
            \E n \in Full : rows[n].pid = jobs[i].pid /\ \A j \in Full : rows[j].pid = jobs[i].pid => j = n
      BY <1>2, <1>3 DEF ListingTellsJobs, RowOf, Listing
    <3>2. Full' = Full /\ \A n \in Full : rows'[n] = rows[n]
      BY <1>5, <1>7, <1>9
    <3> SUFFICES ASSUME NEW i \in 1..(slot - 1), jobs[i].pid # NoPid
                 PROVE  \E n \in Full : /\ rows'[n].pid = jobs[i].pid
                                        /\ \A j \in Full : rows'[j].pid = jobs[i].pid => j = n
      BY <3>0, <3>2
    <3>3. PICK n \in Full : rows[n].pid = jobs[i].pid /\ \A j \in Full : rows[j].pid = jobs[i].pid => j = n
      BY <3>1
    <3>4. rows'[n].pid = jobs[i].pid /\ \A j \in Full : rows'[j].pid = jobs[i].pid => j = n
      BY <3>2, <3>3
    <3> QED
      BY <3>4
  <2> QED
    BY <2>1, <2>2 DEF ListingTellsJobs, RowOf
<1> QED
  BY <1>1, <1>10, <1>11, <1>12, <1>13 DEF ListingInv

\* The line of the last row is written, which is the row of this slot if its job is there.
LEMMA WriteLine ==
  ASSUME ListingInv, ListLine
  PROVE  ListingInv'
<1> DEFINE k == Len(rows)
           row == [rows[k] EXCEPT !.line = lines[slot]]
<1>1. /\ jobs' = jobs /\ nextjid' = nextjid /\ lines' = lines /\ child' = child
      /\ started' = started /\ SlotsAgree'
      /\ \A i \in Slots : Busy(i) => jobs[i].pid \in Pids /\ jobs[i].state = "BG"
  BY ListLeaves, ListSlotsAgree
<1>2. pc = "list line" /\ pc' = "list" /\ slot' = slot + 1 /\ rows' = [rows EXCEPT ![k] = row]
  BY DEF ListLine
<1>3. Types /\ SlotsAgree /\ RowsTyped /\ RowsPlaced /\ ListingTellsJobs
  BY DEF ListingInv
<1>4. /\ k \in Nat /\ k > 0 /\ rows = [n \in 1..k |-> rows[n]] /\ slot \in Slots
      /\ \A n \in 1..k : IsRow(rows[n])
  BY <1>2, <1>3 DEF RowsTyped
<1>5. k \in 1..k /\ \A n \in 1..k : n \in 1..(k - 1) \/ n = k
  BY <1>4
<1>6. IsRow(row) /\ row.pid = rows[k].pid /\ row.state = rows[k].state /\ row.line = lines[slot]
  BY <1>4, <1>5 DEF IsRow
<1> HIDE DEF row
<1>7. rows' = [n \in 1..k |-> rows'[n]] /\ rows'[k] = row /\ \A n \in 1..k : n # k => rows'[n] = rows[n]
  BY <1>2, <1>4, <1>5
<1>8. Len(rows') = k
  BY <1>4, <1>7, LenRows
<1>9. Full = 1..(k - 1) /\ Full' = 1..k /\ \A n \in Full : n # k /\ n \in 1..k
  <2>1. DOMAIN rows' = 1..k
    BY <1>7
  <2>2. Full = 1..(k - 1) /\ Full' = 1..k
    BY <1>2, <2>1 DEF Full
  <2>3. \A n \in 1..(k - 1) : n # k /\ n \in 1..k
    BY <1>4
  <2> QED
    BY <2>2, <2>3
<1> HIDE DEF k
<1>10. slot' \in 1..(MAXJOBS + 1) /\ \A i \in 1..(slot' - 1) : i = slot \/ i \in 1..(slot - 1)
  <2>1. slot' = slot + 1
    BY <1>2
  <2> QED
    BY <1>4, <2>1, JobListAssumption DEF Slots
<1>11. slot \in 1..(slot' - 1) /\ \A i \in 1..(slot - 1) : i # slot /\ i \in 1..(slot' - 1) /\ i \in Slots
  <2>1. slot' = slot + 1
    BY <1>2
  <2> QED
    BY <1>4, <2>1, JobListAssumption DEF Slots
<1>12. Types'
  BY <1>1, <1>3, <1>10 DEF Types
<1>13. RowsTyped'
  <2>1. \A n \in 1..k : IsRow(rows'[n])
    BY <1>4, <1>6, <1>7
  <2>2. \A n \in 1..Len(rows') : IsRow(rows[n])'
    BY <2>1, <1>8 DEF IsRow
  <2>3. Len(rows') \in Nat /\ rows' = [n \in 1..Len(rows') |-> rows'[n]]
    BY <1>4, <1>7, <1>8
  <2> QED
    BY <1>2, <2>2, <2>3 DEF RowsTyped, Listing
<1>14. /\ Busy(slot) => row.pid = jobs[slot].pid
       /\ Listed(jobs, row.pid) => row.pid = jobs[slot].pid /\ row.state = "Running"
       /\ \A n \in Full : Listed(jobs, rows[n].pid) => \E i \in 1..(slot - 1) : rows[n].pid = jobs[i].pid
  BY <1>2, <1>3, <1>6 DEF RowsPlaced, RowOf, k
<1>15. \A n \in Full' : n = k \/ (n \in Full /\ rows'[n] = rows[n])
  BY <1>5, <1>7, <1>9
<1>16. \A i, j \in Slots : Busy(i) /\ jobs[i].pid = jobs[j].pid => i = j
  BY <1>3 DEF SlotsAgree
<1>a. \A i \in Slots : jobs[i].pid # NoPid => Listed(jobs, jobs[i].pid)
  BY DEF Listed, HoldingPid
<1>17. RowsPlaced'
  <2> SUFFICES ASSUME NEW n \in Full', Listed(jobs, rows'[n].pid)
               PROVE  \E i \in 1..(slot' - 1) : rows'[n].pid = jobs[i].pid
    <3>1. jobs' = jobs /\ pc' = "list"
      BY <1>1, <1>2
    <3> QED
      BY <3>1, Zenon DEF RowsPlaced, RowOf
  <2>1. CASE n = k
    BY <1>7, <1>11, <1>14, <2>1
  <2>2. CASE n \in Full /\ rows'[n] = rows[n]
    BY <1>11, <1>14, <2>2
  <2> QED
    BY <1>15, <2>1, <2>2
<1>18. ListingTellsJobs'
  <2>0. /\ \A n \in Full : Listed(jobs, rows[n].pid) =>
              rows[n].state = "Running" /\ rows[n].line = started[rows[n].pid]
        /\ \A i \in 1..(slot - 1) : jobs[i].pid # NoPid =>
              \E n \in Full : rows[n].pid = jobs[i].pid
                              /\ \A j \in Full : rows[j].pid = jobs[i].pid => j = n
    BY <1>2, <1>3 DEF ListingTellsJobs, RowOf, Listing
  <2>1. ASSUME NEW n \in Full', Listed(jobs, rows'[n].pid)
        PROVE  rows'[n].state = "Running" /\ rows'[n].line = started[rows'[n].pid]
    <3>1. CASE n = k
      <4>1. row.pid \in Pids /\ row.pid = jobs[slot].pid /\ row.state = "Running"
        BY <1>6, <1>7, <1>14, <2>1, <3>1 DEF IsRow
      <4>2. Busy(slot)
        BY <4>1, JobListAssumption DEF Busy
      <4>3. lines[slot] = started[jobs[slot].pid]
        BY <1>3, <1>4, <4>2 DEF SlotsAgree
      <4> QED
        BY <1>6, <1>7, <3>1, <4>1, <4>3
    <3>2. CASE n \in Full /\ rows'[n] = rows[n]
      BY <2>0, <2>1, <3>2
    <3> QED
      BY <1>15, <3>1, <3>2
  <2>2. ASSUME NEW i \in 1..(slot' - 1), jobs[i].pid # NoPid
        PROVE  \E n \in Full' : /\ rows'[n].pid = jobs[i].pid
                                /\ \A j \in Full' : rows'[j].pid = jobs[i].pid => j = n
    <3>1. CASE i = slot
      <4>1. rows'[k].pid = jobs[i].pid /\ Busy(slot) /\ k \in Full'
        BY <1>5, <1>7, <1>9, <1>14, <2>2, <3>1 DEF Busy
      <4>2. ASSUME NEW j \in Full, rows[j].pid = jobs[i].pid
            PROVE  FALSE
        <5>1. Listed(jobs, rows[j].pid)
          BY <1>4, <1>a, <2>2, <3>1, <4>2
        <5>2. PICK h \in 1..(slot - 1) : rows[j].pid = jobs[h].pid
          BY <1>14, <5>1
        <5> QED
          BY <1>4, <1>11, <1>16, <3>1, <4>1, <4>2, <5>2
      <4>3. \A j \in Full' : rows'[j].pid = jobs[i].pid => j = k
        BY <1>15, <4>2
      <4> QED
        BY <4>1, <4>3
    <3>2. CASE i \in 1..(slot - 1)
      <4>1. i \in Slots /\ i # slot
        BY <1>11, <3>2
      <4>2. PICK n \in Full : rows[n].pid = jobs[i].pid
                              /\ \A j \in Full : rows[j].pid = jobs[i].pid => j = n
        BY <2>0, <2>2, <3>2
      <4>3. row.pid # jobs[i].pid
        <5> SUFFICES ASSUME row.pid = jobs[i].pid PROVE FALSE
          OBVIOUS
        <5>1. Listed(jobs, row.pid)
          BY <1>a, <2>2, <4>1
        <5>2. jobs[slot].pid = jobs[i].pid /\ Busy(i)
          BY <1>14, <2>2, <5>1 DEF Busy
        <5> QED
          BY <1>4, <1>16, <4>1, <5>2
      <4>4. n \in Full' /\ rows'[n].pid = jobs[i].pid
        BY <1>7, <1>9, <4>2
      <4>5. \A j \in Full' : rows'[j].pid = jobs[i].pid => j = n
        BY <1>7, <1>15, <4>2, <4>3
      <4> QED
        BY <4>4, <4>5
    <3> QED
      BY <1>10, <2>2, <3>1, <3>2
  <2> QED
    BY <1>1, <2>1, <2>2 DEF ListingTellsJobs, RowOf
<1> QED
  BY <1>1, <1>12, <1>13, <1>17, <1>18 DEF ListingInv

\* Behind the last slot the listing is over, and with a write that fails the shell.
LEMMA EndListing ==
  ASSUME ListingInv, ListEnd \/ WriteFails
  PROVE  ListingInv'
<1>1. /\ jobs' = jobs /\ nextjid' = nextjid /\ lines' = lines /\ child' = child
      /\ started' = started /\ slot' = 1 /\ rows' = <<>>
  BY DEF ListEnd, WriteFails, joblist, world
<1>2. pc # "wait" /\ pc' # "list" /\ pc' \notin Listing
  BY DEF ListEnd, WriteFails, Return, Listing
<1>3. SlotsAgree'
  BY <1>1, <1>2 DEF ListingInv, SlotsAgree, Busy
<1>4. Types'
  <2>1. slot' \in 1..(MAXJOBS + 1)
    BY <1>1, JobListAssumption
  <2> QED
    BY <1>1, <2>1 DEF ListingInv, Types
<1>5. RowsTyped'
  <2>1. Len(rows') = 0 /\ rows' = [n \in 1..Len(rows') |-> rows'[n]]
    BY <1>1
  <2>2. pc' \notin {"list state", "list line"}
    BY <1>2 DEF Listing
  <2>3. \A n \in 1..Len(rows') : IsRow(rows'[n])
    BY <2>1
  <2>4. Len(rows') \in Nat /\ rows' = <<>> /\ slot' = 1
    BY <1>1, <2>1
  <2> QED
    BY <2>1, <2>2, <2>3, <2>4, Zenon DEF RowsTyped
<1>6. Full' = {}
  <2>1. 1..(Len(rows') - 1) = {}
    BY <1>1
  <2> QED
    BY <1>2, <2>1 DEF Full
<1>7. RowsPlaced' /\ ListingTellsJobs'
  BY <1>2, <1>6 DEF RowsPlaced, ListingTellsJobs, Listing
<1> QED
  BY <1>3, <1>4, <1>5, <1>7 DEF ListingInv

-----------------------------------------------------------------------------
\* No step breaks the invariant.
LEMMA NextListing ==
  ASSUME ListingInv, [Next]_vars
  PROVE  ListingInv'
<1>1. CASE \/ ReadLine \/ EndOfInput \/ Redirection \/ Token \/ LineEnd \/ Ignore \/ Quit
           \/ Jobs \/ Waited
  BY <1>1, ParseStep
<1>2. CASE Execute
  BY <1>2, ExecuteInv
<1>3. CASE ListHead
  BY <1>3, PassOver, BeginRow
<1>4. CASE ListState
  BY <1>4, WriteState
<1>5. CASE ListLine
  BY <1>5, WriteLine
<1>6. CASE ListEnd \/ WriteFails
  BY <1>6, EndListing
<1>7. CASE \E p \in Pids : ChildRuns(p) \/ Collect(p)
  BY <1>7, ChildRunsInv, CollectInv
<1>8. CASE UNCHANGED vars
  <2>1. /\ jobs' = jobs /\ nextjid' = nextjid /\ lines' = lines /\ slot' = slot /\ rows' = rows
        /\ child' = child /\ started' = started /\ pc' = pc
    BY <1>8 DEF vars, joblist, listing, world
  <2>2. Full' = Full
    BY <2>1 DEF Full
  <2>3. Types' /\ SlotsAgree'
    BY <2>1 DEF ListingInv, Types, SlotsAgree, Busy
  <2>4. RowsTyped' /\ RowsPlaced'
    BY <2>1, <2>2 DEF ListingInv, RowsTyped, RowsPlaced, RowOf, Busy
  <2>5. ListingTellsJobs'
    BY <2>1, <2>2 DEF ListingInv, ListingTellsJobs, RowOf
  <2> QED
    BY <2>3, <2>4, <2>5 DEF ListingInv
<1> QED
  BY <1>1, <1>2, <1>3, <1>4, <1>5, <1>6, <1>7, <1>8 DEF Next, Main

(* jobs tells the truth whatever is collected under it: each row written in  *)
(* full has the state and the line of the job it names, unless that job was  *)
(* collected while the row was written, and each job in the slots that       *)
(* listjobs (tsh.c) has passed over is listed once.                          *)
THEOREM ListingSound == Spec => []ListingTellsJobs
<1>1. Init => ListingInv
  BY InitListing
<1>2. ListingInv /\ [Next]_vars => ListingInv'
  BY NextListing
<1>3. ListingInv => ListingTellsJobs
  BY DEF ListingInv
<1> QED
  BY <1>1, <1>2, <1>3, PTL DEF Spec

-----------------------------------------------------------------------------
(* The buffers of fgets and parseline.                                       *)

Tokens == [argv : Seq(Seq(Symbols)), infile : Seq(Seq(Symbols)), outfile : Seq(Seq(Symbols))]

(* Of argv's MAXARGS entries the last is kept for the NULL; while parseline  *)
(* runs there is room for another token.                                     *)
ParseInv ==
  /\ pc \in {"prompt", "parse", "failed", "eval", "list", "list state", "list line", "wait", "exited"}
  /\ cmdline \in Seq(Symbols) /\ Len(cmdline) < MAXLINE /\ input \in Seq(Symbols)
  /\ at \in 1..(MAXLINE + 1) /\ pending \subseteq {"<", ">"}
  /\ tok \in Tokens /\ Len(tok.argv) < MAXARGS
  /\ pc = "parse" => ~ArgvFull(tok)

\* The least element of a set of numbers.
LEMMA LeastIs ==
  ASSUME NEW S \in SUBSET Nat, S # {}
  PROVE  Min(S) \in S /\ \A i \in S : Min(S) <= i
BY LeastNatural DEF Min

\* A piece of a sequence.
LEMMA PieceOf ==
  ASSUME NEW S, NEW s \in Seq(S), NEW a \in 1..(Len(s) + 1), NEW b \in 0..Len(s)
  PROVE  SubSeq(s, a, b) \in Seq(S) /\ Len(SubSeq(s, a, b)) = IF a <= b THEN b - a + 1 ELSE 0
<1>1. Len(s) \in Nat /\ \A i \in 1..Len(s) : s[i] \in S
  BY LenProperties, ElementOfSeq
<1>2. \A i \in a..b : s[i] \in S
  BY <1>1
<1> QED
  BY <1>1, <1>2, SubSeqProperties

\* An empty record of tokens.
LEMMA NoTokensType == NoTokens \in Tokens /\ Len(NoTokens.argv) = 0
<1>1. <<>> \in Seq(Seq(Symbols)) /\ Len(<<>>) = 0
  OBVIOUS
<1> QED
  BY <1>1 DEF NoTokens, Tokens

\* fgets leaves a line within its buffer, and the rest for the next call.
LEMMA FgetsFits ==
  ASSUME NEW available \in Seq(Symbols), available # <<>>, Fgets(available)
  PROVE  ParseInv'
<1>1. Len(available) \in Nat /\ Len(available) > 0
  BY LenProperties, EmptySeq
<1>2. MAXLINE \in Nat /\ MAXLINE > 1 /\ MAXARGS \in Nat /\ MAXARGS > 1
  BY CommandLineAssumption
<1> DEFINE n == Min({Len(available), MAXLINE - 1})
<1>3. n \in Nat /\ n >= 1 /\ n <= Len(available) /\ n <= MAXLINE - 1
  <2>1. {Len(available), MAXLINE - 1} \in SUBSET Nat /\ {Len(available), MAXLINE - 1} # {}
    BY <1>1, <1>2
  <2>2. n \in {Len(available), MAXLINE - 1} /\ \A i \in {Len(available), MAXLINE - 1} : n <= i
    BY <2>1, LeastIs
  <2> QED
    BY <1>1, <1>2, <2>2
<1>4. /\ cmdline' = SubSeq(available, 1, n - 1) /\ input' = SubSeq(available, n + 1, Len(available))
      /\ at' = 1 /\ pending' = {} /\ tok' = NoTokens /\ pc' = "parse"
  BY DEF Fgets
<1> HIDE DEF n
<1>5. cmdline' \in Seq(Symbols) /\ Len(cmdline') < MAXLINE
  <2>1. 1 \in 1..(Len(available) + 1) /\ n - 1 \in 0..Len(available)
    BY <1>1, <1>3
  <2>2. /\ SubSeq(available, 1, n - 1) \in Seq(Symbols)
        /\ Len(SubSeq(available, 1, n - 1)) = IF 1 <= n - 1 THEN n - 1 - 1 + 1 ELSE 0
    BY <2>1, PieceOf
  <2> QED
    BY <1>2, <1>3, <1>4, <2>2
<1>6. input' \in Seq(Symbols)
  <2>1. n + 1 \in 1..(Len(available) + 1) /\ Len(available) \in 0..Len(available)
    BY <1>1, <1>3
  <2> QED
    BY <1>4, <2>1, PieceOf
<1>7. at' \in 1..(MAXLINE + 1) /\ pending' \subseteq {"<", ">"}
  BY <1>2, <1>4
<1>8. tok' \in Tokens /\ Len(tok'.argv) < MAXARGS /\ ~ArgvFull(tok')
  BY <1>2, <1>4, NoTokensType DEF ArgvFull
<1> QED
  BY <1>4, <1>5, <1>6, <1>7, <1>8 DEF ParseInv

\* A line is read, or the rest of one that was too long.
LEMMA ReadLineFits ==
  ASSUME ParseInv, ReadLine
  PROVE  ParseInv'
<1>1. CASE input # <<>> /\ Fgets(input)
  BY <1>1, FgetsFits DEF ParseInv
<1>2. CASE \E line \in Lines : Fgets(Append(line.text, Newline))
  <2>1. PICK line \in Lines : Fgets(Append(line.text, Newline))
    BY <1>2
  <2>2. line.text \in Seq(Symbols) /\ Newline \in Symbols
    BY CommandLineAssumption
  <2>3. Append(line.text, Newline) \in Seq(Symbols) /\ Append(line.text, Newline) # <<>>
    BY <2>2, AppendProperties
  <2> QED
    BY <2>1, <2>3, FgetsFits
<1> QED
  BY <1>1, <1>2 DEF ReadLine

\* Where parseline goes on lies within the line or right behind it.
LEMMA HereInLine ==
  ASSUME ParseInv
  PROVE  Here \in Nat /\ Here >= 1 /\ Here <= Len(cmdline) + 1
<1>1. Len(cmdline) \in Nat /\ at \in Nat /\ at >= 1
  <2>1. cmdline \in Seq(Symbols) /\ at \in 1..(MAXLINE + 1) /\ MAXLINE \in Nat
    BY CommandLineAssumption DEF ParseInv
  <2> QED
    BY <2>1, LenProperties
<1> DEFINE S == {i \in at..Len(cmdline) : cmdline[i] # Blank} \cup {Len(cmdline) + 1}
<1>2. S \in SUBSET Nat /\ Len(cmdline) + 1 \in S
  BY <1>1
<1>3. Min(S) \in S /\ Min(S) <= Len(cmdline) + 1
  BY <1>2, LeastIs
<1>4. \A i \in S : i >= 1
  BY <1>1
<1>5. Here = Min(S)
  BY DEF Here, Start
<1> QED
  BY <1>2, <1>3, <1>4, <1>5

\* A token ends within the line or right behind it, and is a piece of the line.
LEMMA TokenInLine ==
  ASSUME ParseInv, Here <= Len(cmdline), Ends(cmdline, Here) # {}
  PROVE  /\ TokenAt(cmdline, Here) \in Seq(Symbols)
         /\ Min(Ends(cmdline, Here)) \in 1..(Len(cmdline) + 1)
<1>1. Len(cmdline) \in Nat /\ Here \in Nat /\ Here >= 1 /\ cmdline \in Seq(Symbols)
  BY LenProperties, HereInLine DEF ParseInv
<1> DEFINE from == IF Quoted(cmdline, Here) THEN Here + 1 ELSE Here
           to == Min(Ends(cmdline, Here))
<1>2. /\ Ends(cmdline, Here) \in SUBSET Nat
      /\ \A i \in Ends(cmdline, Here) : i >= 1 /\ i <= Len(cmdline) + 1
  BY <1>1 DEF Ends
<1>3. to \in Nat /\ to >= 1 /\ to <= Len(cmdline) + 1
  BY <1>2, LeastIs
<1>4. from \in 1..(Len(cmdline) + 1)
  BY <1>1
<1>5. TokenAt(cmdline, Here) = SubSeq(cmdline, from, to - 1)
  BY DEF TokenAt
<1> HIDE DEF from, to
<1>6. to - 1 \in 0..Len(cmdline)
  BY <1>1, <1>3
<1>7. TokenAt(cmdline, Here) \in Seq(Symbols)
  BY <1>1, <1>4, <1>5, <1>6, PieceOf
<1> QED
  BY <1>1, <1>3, <1>7 DEF to

\* parsing_state holds no sign, one or both.
LEMMA SignsPending ==
  ASSUME pending \subseteq {"<", ">"}
  PROVE  pending = {} \/ pending = {"<"} \/ pending = {">"} \/ Cardinality(pending) = 2
<1>1. CASE "<" \in pending /\ ">" \in pending
  <2>1. pending = {"<"} \cup {">"}
    BY <1>1
  <2>2. IsFiniteSet({"<"}) /\ Cardinality({"<"}) = 1 /\ ">" \notin {"<"}
    BY FS_Singleton
  <2>3. Cardinality({"<"} \cup {">"}) = 1 + 1
    BY <2>2, FS_AddElement
  <2> QED
    BY <2>1, <2>3
<1>2. CASE ~("<" \in pending /\ ">" \in pending)
  BY <1>2
<1> QED
  BY <1>1, <1>2

\* A token finds room in argv, or becomes a file name.
LEMMA RecordedFits ==
  ASSUME NEW t \in Tokens, NEW text \in Seq(Symbols), NEW signs, ~ArgvFull(t),
         signs = {} \/ signs = {"<"} \/ signs = {">"}
  PROVE  Recorded(t, signs, text) \in Tokens /\ Len(Recorded(t, signs, text).argv) < MAXARGS
<1>1. /\ t.argv \in Seq(Seq(Symbols)) /\ t.infile \in Seq(Seq(Symbols))
      /\ t.outfile \in Seq(Seq(Symbols)) /\ Len(t.argv) \in Nat
      /\ t = [argv |-> t.argv, infile |-> t.infile, outfile |-> t.outfile]
  BY LenProperties DEF Tokens
<1>2. Len(t.argv) + 1 < MAXARGS /\ MAXARGS \in Nat
  BY <1>1, CommandLineAssumption DEF ArgvFull
<1>3. /\ Append(t.argv, text) \in Seq(Seq(Symbols)) /\ Len(Append(t.argv, text)) = Len(t.argv) + 1
      /\ <<text>> \in Seq(Seq(Symbols))
  BY <1>1, AppendProperties
<1>4. CASE signs = {}
  <2>1. Recorded(t, signs, text)
          = [argv |-> Append(t.argv, text), infile |-> t.infile, outfile |-> t.outfile]
    BY <1>1, <1>4 DEF Recorded
  <2> QED
    BY <1>1, <1>2, <1>3, <2>1 DEF Tokens
<1>5. CASE signs = {"<"}
  <2>1. Recorded(t, signs, text) = [argv |-> t.argv, infile |-> <<text>>, outfile |-> t.outfile]
    BY <1>1, <1>5 DEF Recorded
  <2> QED
    BY <1>1, <1>2, <1>3, <2>1 DEF Tokens
<1>6. CASE signs = {">"}
  <2>1. Recorded(t, signs, text) = [argv |-> t.argv, infile |-> t.infile, outfile |-> <<text>>]
    BY <1>1, <1>6 DEF Recorded
  <2> QED
    BY <1>1, <1>2, <1>3, <2>1 DEF Tokens
<1> QED
  BY <1>4, <1>5, <1>6

\* A turn of parseline's loop.
LEMMA ParseFits ==
  ASSUME ParseInv, Redirection \/ Token \/ LineEnd
  PROVE  ParseInv'
<1>1. /\ Len(cmdline) \in Nat /\ Here \in Nat /\ Here >= 1 /\ MAXLINE \in Nat
      /\ Len(cmdline) < MAXLINE /\ pc = "parse" /\ ~ArgvFull(tok)
  BY LenProperties, HereInLine, CommandLineAssumption
     DEF ParseInv, Redirection, Token, LineEnd
<1>2. CASE Fail
  BY <1>2 DEF Fail, ParseInv
<1>3. CASE Finish(tok) /\ pending' \subseteq {"<", ">"}
  BY <1>3 DEF Finish, ParseInv
<1>4. CASE Redirection /\ ~Fail
  <2>1. /\ Here <= Len(cmdline) /\ at' = Here + 1 /\ pending' = pending \cup {cmdline[Here]}
        /\ cmdline[Here] \in {"<", ">"} /\ UNCHANGED <<pc, typed, input, cmdline, tok>>
    BY <1>4 DEF Redirection
  <2>2. at' \in 1..(MAXLINE + 1)
    BY <1>1, <2>1
  <2>3. pending' \subseteq {"<", ">"}
    BY <2>1 DEF ParseInv
  <2> QED
    BY <2>1, <2>2, <2>3 DEF ParseInv, ArgvFull
<1>5. CASE Token /\ ~Fail
  <2> DEFINE after == Recorded(tok, pending, TokenAt(cmdline, Here))
  <2>1. /\ Here <= Len(cmdline) /\ Ends(cmdline, Here) # {} /\ Cardinality(pending) # 2
        /\ pending' = {}
        /\ IF ArgvFull(after) THEN Finish(after)
           ELSE /\ tok' = after /\ at' = Min(Ends(cmdline, Here)) + 1
                /\ UNCHANGED <<pc, typed, input, cmdline>>
    BY <1>5 DEF Token
  <2>2. /\ TokenAt(cmdline, Here) \in Seq(Symbols)
        /\ Min(Ends(cmdline, Here)) \in 1..(Len(cmdline) + 1)
    BY <2>1, TokenInLine
  <2>3. after \in Tokens /\ Len(after.argv) < MAXARGS
    BY <1>1, <2>1, <2>2, SignsPending, RecordedFits DEF ParseInv
  <2> HIDE DEF after
  <2>4. CASE ArgvFull(after)
    BY <2>1, <2>3, <2>4 DEF Finish, ParseInv
  <2>5. CASE ~ArgvFull(after)
    <3>1. at' \in 1..(MAXLINE + 1)
      BY <1>1, <2>1, <2>2, <2>5
    <3> QED
      BY <2>1, <2>3, <2>5, <3>1 DEF ParseInv
  <2> QED
    BY <2>4, <2>5
<1> QED
  BY <1>2, <1>3, <1>4, <1>5 DEF LineEnd, ParseInv

\* What is left of the line at the prompt is empty.
LEMMA ReturnFits ==
  ASSUME ParseInv, Return
  PROVE  ParseInv'
<1>1. <<>> \in Seq(Symbols) /\ Len(<<>>) = 0
  OBVIOUS
<1>2. MAXLINE \in Nat /\ MAXLINE > 1 /\ MAXARGS \in Nat /\ MAXARGS > 1
  BY CommandLineAssumption
<1>3. /\ pc' = "prompt" /\ cmdline' = <<>> /\ at' = 1 /\ pending' = {} /\ tok' = NoTokens
      /\ input' = input
  BY DEF Return
<1>4. at' \in 1..(MAXLINE + 1) /\ Len(cmdline') < MAXLINE /\ Len(tok'.argv) < MAXARGS
  BY <1>1, <1>2, <1>3, NoTokensType
<1> QED
  BY <1>1, <1>3, <1>4, NoTokensType DEF ParseInv

\* A step that only goes to another place behind the parser, or nowhere.
LEMMA PlaceFits ==
  ASSUME ParseInv, UNCHANGED parsing,
         pc' = pc \/ pc' \in {"list", "list state", "list line", "wait", "exited"}
  PROVE  ParseInv'
BY DEF parsing, ParseInv, ArgvFull

\* The invariant holds at the start.
LEMMA InitParse == Init => ParseInv
<1> SUFFICES ASSUME Init PROVE ParseInv
  OBVIOUS
<1>1. <<>> \in Seq(Symbols) /\ Len(<<>>) = 0
  OBVIOUS
<1>2. MAXLINE \in Nat /\ MAXLINE > 1 /\ MAXARGS \in Nat /\ MAXARGS > 1
  BY CommandLineAssumption
<1>3. /\ pc = "prompt" /\ cmdline = <<>> /\ at = 1 /\ pending = {} /\ tok = NoTokens
      /\ input = <<>>
  BY DEF Init
<1>4. at \in 1..(MAXLINE + 1) /\ Len(cmdline) < MAXLINE /\ Len(tok.argv) < MAXARGS
  BY <1>1, <1>2, <1>3, NoTokensType
<1> QED
  BY <1>1, <1>3, <1>4, NoTokensType DEF ParseInv

\* No step breaks it.
LEMMA NextParse ==
  ASSUME ParseInv, [Next]_vars
  PROVE  ParseInv'
<1>1. CASE ReadLine
  BY <1>1, ReadLineFits
<1>2. CASE Redirection \/ Token \/ LineEnd
  BY <1>2, ParseFits
<1>3. CASE Return
  BY <1>3, ReturnFits
<1>4. CASE UNCHANGED parsing
           /\ (pc' = pc \/ pc' \in {"list", "list state", "list line", "wait", "exited"})
  BY <1>4, PlaceFits
<1>5. CASE EndOfInput \/ Ignore \/ Quit \/ Jobs \/ Execute \/ Waited
  BY <1>3, <1>4, <1>5 DEF EndOfInput, Ignore, Quit, Jobs, Execute, Waited, Ready
<1>6. CASE ListHead \/ ListState \/ ListLine \/ WriteFails \/ ListEnd
  BY <1>3, <1>4, <1>6 DEF ListHead, ListState, ListLine, WriteFails, ListEnd
<1>7. CASE (\E p \in Pids : ChildRuns(p) \/ Collect(p)) \/ UNCHANGED vars
  BY <1>4, <1>7 DEF ChildRuns, Collect, vars
<1> QED
  BY <1>1, <1>2, <1>5, <1>6, <1>7 DEF Next, Main

(* Whatever is typed: the line read by fgets fits cmdline with its end, the  *)
(* place where parseline goes on lies within cmdline or right behind it,     *)
(* argv has room for its NULL, and its entries are made of what was typed.   *)
THEOREM ParserInBounds == Spec => []TypeOK
<1>1. Spec => []ListingInv
  BY InitListing, NextListing, PTL DEF Spec
<1>2. Spec => []ParseInv
  BY InitParse, NextParse, PTL DEF Spec
<1>3. ListingInv /\ ParseInv => TypeOK
  <2> SUFFICES ASSUME ListingInv, ParseInv PROVE TypeOK
    OBVIOUS
  <2>1. tok.argv \in Seq(Seq(Symbols))
    BY DEF ParseInv, Tokens
  <2>2. \A i \in DOMAIN tok.argv : tok.argv[i] \in Seq(Symbols)
    BY <2>1, ElementOfSeq, LenProperties
  <2> QED
    BY <2>2 DEF ListingInv, Types, ParseInv, TypeOK
<1> QED
  BY <1>1, <1>2, <1>3, PTL
=============================================================================
