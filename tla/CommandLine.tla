----------------------------- MODULE CommandLine -----------------------------
(* The shell from a line of input to what it does about it (tsh.c): fgets,    *)
(* parseline turn by turn, eval, the jobs command with listjobs piece by      *)
(* piece.  Children end when they like, and the SIGCHLD handler, one step     *)
(* here, interrupts all but exec_others.  Stops, fg, bg and the keyboard are  *)
(* in Tsh; what is in the files of a redirection is left out.                 *)
EXTENDS Parseline, JobList, FiniteSets

CONSTANTS Symbols,     \* what a line is made of
          Lines,       \* what users type: [text, means]; means is the command, or Malformed
          Malformed,
          MAXLINE,
          LineBound    \* bound of this model: how many lines are typed

Newline == "newline"

ASSUME CommandLineAssumption ==
  /\ MAXARGS \in Nat \ {0, 1} /\ MAXLINE \in Nat \ {0, 1} /\ LineBound \in Nat
  /\ Newline \in Symbols /\ \A line \in Lines : line.text \in Seq(Symbols)

VARIABLES
  pc, typed,            \* the line typed, and how many were
  input,                \* what stdin still holds of it
  cmdline,
  at, pending, tok,     \* buf of parseline as an index, parsing_state, *tok
  jobs, nextjid,
  lines,                \* the command line each slot stores
  slot, rows,           \* listjobs: its i, what it has written
  child, started        \* the state of each child, and the line it was started with

parsing  == <<typed, input, cmdline, at, pending, tok>>
joblist  == <<jobs, nextjid, lines>>
listing  == <<slot, rows>>
world    == <<child, started>>
vars == <<pc, parsing, joblist, listing, world>>

\* What is left of a line too long for the buffer was not typed as a line.
NoLine == [text |-> <<>>, means |-> Malformed]

Init ==
  /\ pc = "prompt" /\ typed = [count |-> 0, line |-> NoLine]
  /\ input = <<>> /\ cmdline = <<>> /\ at = 1 /\ pending = {} /\ tok = NoTokens
  /\ jobs = initjobs /\ nextjid = 1 /\ lines = [i \in Slots |-> <<>>]
  /\ slot = 1 /\ rows = <<>>
  /\ child = [p \in Pids |-> "none"] /\ started = [p \in Pids |-> <<>>]
-----------------------------------------------------------------------------
(* main.                                                                     *)

\* fgets returns at most MAXLINE - 1 characters; the last of them is cut off.
Fgets(available) ==
  LET n == Min({Len(available), MAXLINE - 1})
  IN  /\ cmdline' = SubSeq(available, 1, n - 1) /\ input' = SubSeq(available, n + 1, Len(available))
      /\ at' = 1 /\ pending' = {} /\ tok' = NoTokens /\ pc' = "parse"

\* Bound of this model: a line is read only while a process is left to run it.
ReadLine ==
  /\ pc = "prompt" /\ \E p \in Pids : child[p] = "none"
  /\ \/ input # <<>> /\ Fgets(input) /\ UNCHANGED typed
     \/ /\ input = <<>> /\ typed.count < LineBound
        /\ \E line \in Lines :
             /\ typed' = [count |-> typed.count + 1, line |-> line]
             /\ Fgets(Append(line.text, Newline))
  /\ UNCHANGED <<joblist, listing, world>>

\* Back to the prompt; the line, and what was made of it, is of no use any more.
Return ==
  /\ pc' = "prompt" /\ typed' = [typed EXCEPT !.line = NoLine]
  /\ cmdline' = <<>> /\ at' = 1 /\ pending' = {} /\ tok' = NoTokens /\ UNCHANGED input

EndOfInput ==
  /\ pc = "prompt" /\ input = <<>> /\ pc' = "exited"
  /\ UNCHANGED <<parsing, joblist, listing, world>>
-----------------------------------------------------------------------------
(* parseline.                                                                *)

Here == Start(cmdline, at)

\* parseline returns -1, and eval with it.
Fail == pc' = "failed" /\ UNCHANGED <<typed, input, cmdline, at, pending, tok>>

\* Behind the loop.
Finish(tokens) ==
  /\ pc' = "eval" /\ tok' = tokens /\ UNCHANGED <<typed, input, cmdline, at>>

\* Mutant: the sign is not passed over.
Redirection_stays ==
  /\ pc = "parse" /\ Here <= Len(cmdline) /\ cmdline[Here] \in {"<", ">"}
  /\ at' = Here /\ pending' = pending \cup {cmdline[Here]}
  /\ UNCHANGED <<pc, typed, input, cmdline, tok, joblist, listing, world>>

\* A redirection sign.
Redirection ==
  /\ pc = "parse" /\ Here <= Len(cmdline) /\ cmdline[Here] \in {"<", ">"}
  /\ IF Repeated(tok, cmdline[Here]) THEN Fail
     ELSE /\ at' = Here + 1 /\ pending' = pending \cup {cmdline[Here]}
          /\ UNCHANGED <<pc, typed, input, cmdline, tok>>
  /\ UNCHANGED <<joblist, listing, world>>

\* A token, quoted or not; with argv full the rest of the line is dropped.
Token ==
  /\ pc = "parse" /\ Here <= Len(cmdline) /\ cmdline[Here] \notin {"<", ">"}
  /\ IF Ends(cmdline, Here) = {} \/ Cardinality(pending) = 2 THEN Fail
     ELSE LET after == Recorded(tok, pending, TokenAt(cmdline, Here))
          IN  /\ pending' = {}
              /\ IF ArgvFull(after) THEN Finish(after)
                 ELSE /\ tok' = after /\ at' = Min(Ends(cmdline, Here)) + 1
                      /\ UNCHANGED <<pc, typed, input, cmdline>>
  /\ UNCHANGED <<joblist, listing, world>>

\* The end of the line.
LineEnd ==
  /\ pc = "parse" /\ Here > Len(cmdline)
  /\ IF pending # {} THEN Fail ELSE Finish(tok) /\ UNCHANGED pending
  /\ UNCHANGED <<joblist, listing, world>>
-----------------------------------------------------------------------------
(* eval.                                                                     *)

command == Finished(tok)

Builtin == command.argv # <<>> /\ Head(tok.argv) \in {<<"quit">>, <<"jobs">>, <<"bg">>, <<"fg">>}

Ready(which) == pc = "eval" /\ command.argv # <<>> /\ Head(tok.argv) = which

\* A parsing error, or nothing to do.
Ignore ==
  /\ pc = "failed" \/ (pc = "eval" /\ command.argv = <<>>)
  /\ Return /\ UNCHANGED <<joblist, listing, world>>

Quit ==
  /\ Ready(<<"quit">>) /\ pc' = "exited"
  /\ UNCHANGED <<parsing, joblist, listing, world>>

\* jobs: with an outfile the input file is opened for it, and nothing is listed if that
\* fails, as it does without an infile.
Jobs ==
  /\ Ready(<<"jobs">>)
  /\ \/ command.outfile # <<>> /\ Return
     \/ /\ command.outfile = <<>> \/ command.infile # <<>>
        /\ pc' = "list" /\ UNCHANGED parsing
  /\ UNCHANGED <<joblist, listing, world>>

\* Mutant: the line goes to the last free slot, the job to the first.
Stored_last == [lines EXCEPT ![Max(FreeSlots(jobs))] = cmdline]

\* strcpy in addjob.
Stored == IF FreeSlots(jobs) = {} THEN lines ELSE [lines EXCEPT ![First(FreeSlots(jobs))] = cmdline]

\* exec_others: fork and addjob, all signals blocked.
Execute ==
  /\ pc = "eval" /\ command.argv # <<>> /\ ~Builtin
  /\ \E p \in Pids :
       /\ child[p] = "none" /\ child' = [child EXCEPT ![p] = "forked"]
       /\ started' = [started EXCEPT ![p] = cmdline]
       /\ jobs' = addjob(jobs, nextjid, p, IF is_bg(tok) THEN "BG" ELSE "FG")
  /\ nextjid' = nextjidAfterAdd(jobs, nextjid) /\ lines' = Stored
  /\ IF is_bg(tok) THEN Return ELSE pc' = "wait" /\ UNCHANGED parsing
  /\ UNCHANGED listing

\* The wait for the foreground job is over.
Waited ==
  /\ pc = "wait" /\ fgpid(jobs) = NoPid
  /\ Return /\ UNCHANGED <<joblist, listing, world>>
-----------------------------------------------------------------------------
(* listjobs: three writes for each job.                                      *)

StateName(state) ==
  CASE state = "BG" -> "Running" [] state = "FG" -> "Foreground" [] state = "ST" -> "Stopped"
    [] OTHER -> "Internal error"

\* The state column of a row that is not there yet.
Unwritten == ""

ListHead ==
  /\ pc = "list" /\ slot <= MAXJOBS
  /\ IF jobs[slot].pid # NoPid
     THEN /\ rows' = Append(rows, [pid |-> jobs[slot].pid, jid |-> jobs[slot].jid,
                                    state |-> Unwritten, line |-> <<>>])
          /\ pc' = "list state" /\ UNCHANGED slot
     ELSE slot' = slot + 1 /\ UNCHANGED <<rows, pc>>
  /\ UNCHANGED <<parsing, joblist, world>>

ListState ==
  /\ pc = "list state" /\ pc' = "list line"
  /\ rows' = [rows EXCEPT ![Len(rows)].state = StateName(jobs[slot].state)]
  /\ UNCHANGED <<parsing, joblist, slot, world>>

ListLine ==
  /\ pc = "list line" /\ pc' = "list" /\ slot' = slot + 1
  /\ rows' = [rows EXCEPT ![Len(rows)].line = lines[slot]]
  /\ UNCHANGED <<parsing, joblist, world>>

\* A write that fails ends the shell.
WriteFails ==
  /\ \/ pc = "list" /\ slot <= MAXJOBS /\ jobs[slot].pid # NoPid
     \/ pc \in {"list state", "list line"}
  /\ pc' = "exited" /\ slot' = 1 /\ rows' = <<>>
  /\ UNCHANGED <<parsing, joblist, world>>

ListEnd ==
  /\ pc = "list" /\ slot > MAXJOBS /\ Return
  /\ slot' = 1 /\ rows' = <<>>
  /\ UNCHANGED <<joblist, world>>
-----------------------------------------------------------------------------
(* The children.                                                             *)

\* redirect, execve and the program; the child may end in any of them.
ChildRuns(p) ==
  /\ child[p] = "forked" /\ child' = [child EXCEPT ![p] = "zombie"]
  /\ UNCHANGED <<pc, parsing, joblist, listing, started>>

\* clearjob also empties the line.
Cleared(p) == IF Listed(jobs, p) THEN [lines EXCEPT ![getjobpid(jobs, p)] = <<>>] ELSE lines

\* sigchld_handler, for a child that has ended.
Collect(p) ==
  /\ pc # "exited" /\ child[p] = "zombie" /\ child' = [child EXCEPT ![p] = "none"]
  /\ jobs' = deletejob(jobs, p) /\ nextjid' = nextjidAfterDelete(jobs, nextjid, p)
  /\ lines' = Cleared(p) /\ started' = [started EXCEPT ![p] = <<>>]
  /\ UNCHANGED <<pc, parsing, listing>>
-----------------------------------------------------------------------------
Main ==
  \/ Redirection \/ Token \/ LineEnd \/ Ignore \/ Quit \/ Jobs \/ Execute \/ Waited
  \/ ListHead \/ ListState \/ ListLine \/ WriteFails \/ ListEnd

Next ==
  \/ ReadLine \/ EndOfInput \/ Main
  \/ \E p \in Pids : ChildRuns(p) \/ Collect(p)

Spec == Init /\ [][Next]_vars

(* The shell runs, and so does a handler; a program may run for ever.        *)
FairSpec == Spec /\ WF_vars(Main) /\ \A p \in Pids : WF_vars(Collect(p))
-----------------------------------------------------------------------------
(* Correctness.                                                              *)

\* Types, and the buffers: cmdline with its end, and argv with its NULL.
TypeOK ==
  /\ pc \in {"prompt", "parse", "failed", "eval", "list", "list state", "list line", "wait", "exited"}
  /\ at \in 1..(MAXLINE + 1) /\ Len(cmdline) < MAXLINE
  /\ pending \subseteq {"<", ">"} /\ Len(tok.argv) < MAXARGS
  /\ \A i \in DOMAIN tok.argv : tok.argv[i] \in Seq(Symbols)
  /\ jobs \in [Slots -> Job] /\ nextjid \in Nat /\ slot \in 1..(MAXJOBS + 1)
  /\ child \in [Pids -> {"none", "forked", "zombie"}]

\* A last argument that starts with "&", in quotes or not, passes for the "&".
Ambiguous(means) ==
  /\ ~means.bg /\ means.argv # <<>>
  /\ means.argv[Len(means.argv)] # <<>> /\ Head(means.argv[Len(means.argv)]) = "&"

\* The line fits the buffer of fgets with its newline, and argv.
Fits(line) ==
  /\ Len(line.text) + 1 < MAXLINE
  /\ line.means # Malformed =>
       LET more == Len(line.means.infile) + Len(line.means.outfile) + (IF line.means.bg THEN 1 ELSE 0)
       IN  Len(line.means.argv) < MAXARGS - (IF more > 0 THEN 1 ELSE 0)

\* parseline finds the command, arguments, files and "&" that a line of the documented
\* form holds, whatever the spacing and the quotes, and reports the other lines.
ParsedAsTyped ==
  typed.line # NoLine /\ Fits(typed.line) /\ pc \in {"failed", "eval"}
  /\ (typed.line.means # Malformed => ~Ambiguous(typed.line.means)) =>
    /\ pc = "failed" <=> typed.line.means = Malformed
    /\ pc = "eval" =>
         [argv |-> command.argv, infile |-> command.infile, outfile |-> command.outfile,
          bg |-> is_bg(tok)] = typed.line.means

Listing == {"list", "list state", "list line"}

\* The rows of the listing that are written in full.
Full == IF pc = "list" THEN DOMAIN rows ELSE 1..(Len(rows) - 1)

RowOf(n, i) == rows[n].pid = jobs[i].pid

\* Each row of a listing that is written in full has the state and the command line of
\* the job it names, unless that job was collected while the row was written; and no
\* job in the slots passed over is missing or listed twice.
ListingTellsJobs ==
  pc \in Listing =>
    /\ \A n \in Full :
         Listed(jobs, rows[n].pid) =>
           rows[n].state = "Running" /\ rows[n].line = started[rows[n].pid]
    /\ \A i \in 1..(slot - 1) :
         jobs[i].pid # NoPid => \E n \in Full : RowOf(n, i) /\ \A k \in Full : RowOf(k, i) => k = n

\* Every line gives the prompt back, or waits for its foreground child.
Prompted == pc \notin {"prompt", "wait", "exited"} ~> pc \in {"prompt", "wait", "exited"}
=============================================================================
