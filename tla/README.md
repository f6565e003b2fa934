# The labs in TLA+

The repository holds solutions to the CS:APP labs: a job-control shell, a
caching web proxy, a memory allocator, a cache simulator, matrix transposes, bit
puzzles and the remains of two reverse-engineering labs. This directory models
the shell, the proxy, the allocator, the cache simulator, the transposes and the
puzzles, checks the models with TLC and proves with TLAPS the main safety results
about the shell's job control and its parser, the proxy's cache and answers, the
allocator, the cache simulator and the transposes.

## The system

| component | state | operations | where it is hard |
|---|---|---|---|
| shell: job list (`shell lab/tsh.c`) | `job_list`, `nextjid` | `addjob`, `deletejob`, `fgpid`, `getjobpid`, `getjobjid`, `pid2jid`, `maxjid` | job ids wrap and are recomputed on every delete; the list can be full |
| shell: control (`tsh.c`) | position in `eval`, the signal mask, running handlers | `exec_others`, `exec_builtin`, `exec_bgfg`, `sigchld_handler`, `sigint_handler`, `sigtstp_handler`, `sigquit_handler` | handlers interrupt the main loop and each other; SIGCHLD does not queue; test-then-suspend |
| shell: parser (`tsh.c`) | `buf`, the parsing state, `tok`; a listing half written | `parseline`, `redirect`, `listjobs` | tokens, quotes and signs in any spacing, a full `argv`, long lines; the SIGCHLD handler between the writes of a row |
| proxy: cache (`proxylab-handout/cache.c`) | doubly linked list of lines, `remain_size`, two rwlocks | `get_object`, `add_object`, `evict_cache_line`, `insert_cache_line`, `remove_cache_line`, `free_cache` | a lock given up and taken again for writing, moves and evictions under other threads, shutdown |
| proxy: requests (`proxy.c`) | a connection per thread, what was read, forwarded and sent on it | `thread_job`, `handle_request`, `forward_request`, `parse_uri` | short reads, buffer limits, process-wide `exit` in the wrappers |
| csapp (`csapp.c`) | Rio read buffers | `rio_*`, wrappers | short counts |
| allocator (`malloc lab/mm.c`) | the heap: tags, free lists in it | `mm_init`, `malloc`, `free`, `realloc`, `calloc`, `mm_checkheap` | splitting and merging keep two structures in agreement, exhaustion |
| cache simulator (`csim.c`) | sets of lines with stamps | one access at a time | one pass that must get four things right |
| transpose (`trans.c`) | two matrices | blocked loops | every element once |
| bit puzzles (`bits.c`) | none, a loop in `float_i2f` | pure functions | extreme values, sums that overflow, rounding |
| bomb, attack lab | none | - | - |

Interaction: the shell's main loop and its handlers share `job_list`; children reach the
shell only through SIGCHLD and `waitpid`, the shell reaches children through `kill`. The
proxy's threads share the cache and the process: a wrapper that calls `exit` in one of
them ends all. Its main thread frees the cache on SIGINT. csapp's Rio functions stand
between a thread and its client or server. The allocator is single-threaded and is called
by whoever links it. `test-trans` runs a transpose under valgrind and feeds the trace to a
simulator; `driver.py` scores the misses.

## Modules

| module | models |
|---|---|
| `JobList` | the functions on the job list, as operators |
| `JobControl` | abstract: the job states and transitions of the comment at tsh.c:32-40 |
| `Tsh` | the shell: main loop, handlers, mask, children; implements `JobControl` |
| `Parseline` | the tokens of a command line, as operators |
| `CommandLine` | a line from `fgets` through `parseline` to what is done about it; the listing of jobs; uses `JobList` |
| `CacheList` | the cache's linked list, as operators on a record |
| `LRUCache` | abstract: a least-recently-used cache of bounded size |
| `ProxyCache` | the proxy's threads on the cache and its locks; implements `LRUCache` |
| `Rio` | what `rio_readlineb` and `rio_readnb` take from the read buffer, as operators |
| `ProxyRequest` | the proxy's threads on their connections, over `Rio`; the cache is a function here |
| `Allocator` | abstract: aligned blocks that do not overlap |
| `MmHeap` | the allocator, word by word; implements `Allocator` |
| `SetAssociative` | abstract: a set-associative cache that parts with a block of lowest rank |
| `CsimCache` | the simulator's access, as operators |
| `Csim` | the simulator on any trace |
| `Trans` | the transpose functions, each access run through `CsimCache` |
| `CacheLab` | a system that runs either `Csim`, implementing `SetAssociative`, or `Trans` |
| `Words` | C's operators on words of any width, a word as the set of its bits |
| `Bits` | the puzzles of `bits.c`, and what their comments promise |
| `MCTsh`, `MCTshLive`, `MCProxyCache`, `MCCommandLine`, `MCProxyRequest`, `MCCacheLab`, `MCBits` | symmetry, sizes, lines to type, requests and sites, cache shapes, arguments for TLC |
| `JobListProofs`, `TshProofs`, `TshForegroundProofs`, `ListingProofs`, `ProxyCacheProofs`, `ProxyRequestProofs`, `MmHeapProofs`, `CacheLabProofs` | theorems |

### The shell

A slot of `jobs` is a `struct job_t` without its command line; `0` stands for a
null `job_t *`, `NoPid` for pid 0. `Tsh` has one action for each piece of code
between two points where a signal may be handled:

- `pc` is the place in the main loop. `Fork` covers `sigprocmask` and `fork`,
  `RunAdd` is `addjob` and what follows up to the wait, `WaitFg` the test of
  `while (pid == fgpid(job_list))`, `"suspend"` the sleep in `sigsuspend`. In
  `exec_bgfg` nothing is blocked, so the lookup, the read of `job->pid`, the
  write of `job->state`, the `kill`, the test and the call of `sigsuspend` are
  actions of their own.
- `MainMask` gives the blocked signals: everything from `sigfillset` to the wait
  loop, and in `exec_bgfg`'s `sigsuspend` the contents of a `sigset_t` that is
  never initialized (`prev`, any member of `GarbageMasks`).
- `depth` records the nesting of running handlers. `Signal` leaves `sa_mask`
  empty, so a handler blocks its own signal only. A handler's steps are
  `waitpid`, then `deletejob` or the write of `ST`; or `fgpid`, then `kill`. The
  handlers act between any two steps of what they interrupt, but one call of
  `addjob`, `deletejob` or a lookup is one step.
- A child goes `none -> forked -> setup -> running -> zombie -> none`, with
  `stopping` (stopped, not reported) and `stopped` (reported) on the side. A
  `kill` before the child's `setpgid` finds no group and is lost, as the code has
  it. Programs below the child in its group are not distinguished from it.
- A null dereference (`fg` of an unknown job, a stopped child that is not
  listed) leads to `pc = "crashed"`.

### The command line

A character is a symbol; a name of several characters that nothing tells apart (`run`,
`jobs`) is one symbol, blanks, quotes, signs and `&` are themselves. `Redirection`,
`Token` and `LineEnd` are the turns of `parseline`'s loop, `at` is its `buf`, `pending`
its `parsing_state` (both bits may be set, as in `< > f`: an error). `MCCommandLine` has
the commands that users mean and writes each in two ways - with as few blanks as the form
allows and single quotes, and with blanks everywhere and double quotes - so that
`ParsedAsTyped` compares what was parsed with what was meant, not with a second parser.
`fgets`, its buffer and the character that `main` cuts off are part of it: a line too long
comes back in pieces. `Symbols` are the symbols a line may have. `listjobs` writes a row
in three steps; children end and are collected between any two of them, and everywhere
else but in `exec_others`, which blocks signals. A write that fails ends the shell
(`WriteFails`). `jobs > f` opens the input file for it: `Jobs` has a listing only if there
is one that can be opened. Here a handler is one step, and there are no stops, `fg`, `bg`
and keys: `Tsh` has all that, with the command line as one of six kinds.

### The proxy's cache

Each thread runs `get_object` and, on a miss, `add_object`, one action per lock
operation, per turn of the search, per list operation and per eviction. The lock
variables are the sets of their holders. `malloc` may hand out any line that is
not allocated, a freed one included; the first use of a line that is not
allocated sets `ub` and ends the behaviour, since what the program does from
there is undefined. `main` is the main thread: accepting, freeing the cache in
`sigint_handler`, exited. `Interrupted` says when ctrl-c may come. `LRUCache` knows the
object that is to come in (`Bring`; `incomingOf` in the refinement): entries may leave
only while there is no room for that one.

### The proxy's requests

A thread reads from one descriptor at a time, so it has one `wire` (what is still to
come) and one `buf` (Rio's buffer); `got` is the line or block read so far. `Refill` is
`rio_read`'s call of `read`, which returns any part of what is there up to the buffer's
size; `ReadLine`, `ReadReply` take from the buffer what `rio_readlineb` and `rio_readnb`
do, and go on with the request line, the header or the answer once they have it all. A
uri is a name with a text in `Text`; `parse_uri` works on the text. `Named` says, apart
from `parse_uri`, which host, port and path the uri means, and `Site` what servers offer;
`Symbols` are the symbols of all these. A line of HTTP ends in two symbols, `CRLF`, and
`rio_readlineb` stops at the second, so a line may be cut between them.
`Faults` selects who may fail; a failed call of a wrapper ends the process. A line that
goes to a null pointer (`crashed`) or a copy past its buffer (`undefined`) ends the
behaviour. `Store` may forget any other object, as eviction does.

### The allocator

The heap is an array of words with addresses and sizes counted in words, so the allocated
bit is the parity of a tag. The free-list table, prologue, epilogue, headers, footers and
links are words of that array, written by `PUT` in the order of the code where the order
matters. Words nothing may rely on are `Junk`: free memory keeps its old words in the
program, in the model `coalesce` forgets them, which loses nothing because nothing reads
them. The caller fills a new block with a different value in each word, so that a lost or
moved word shows; `Filled`, which is that and the copy of `realloc`, goes as far as it is
told, over the end of the block too. `SizeMax` is the modulus of `size_t`; `mem_sbrk`
grants `MaxHeap` words in all.

### The cache lab

`executeInst` makes one pass over the lines of a set and leaves with the matching
line, the first empty one, the least and the largest stamp; these are the operators
of `CsimCache`, and an action of `Csim` is one line of the trace. A hit adds one to
the stamp, a block that comes in gets the largest stamp plus one, and the first
line with the least stamp goes. That is neither least recently used nor least
often used: with two lines in a set the block used last can be the next to go.
`SetAssociative` has blocks, not lines: a hit raises its block by one rank, a block that
comes in gets a rank above all of its set, and one of the lowest rank leaves a full set.
The refinement gives each block the stamp of the line it is in (`Csim!Stamps`), wherever
that line is.

`Trans` has the loop variables of `trans.c` as `loop` and the loop it is in as
`phase`; an action runs one innermost body - reads, then writes, as `Moves` lists
them - changes `B` and sends the accesses through the simulator. `A` and `B` lie as
`tracegen.c` declares them, one after the other; `A`'s elements are all different,
so that `B` tells where each one went. The harness runs the reference simulator,
of which only the binary is there; with one line in a set there is nothing to
choose, so `csim.c`'s operators stand for it. `CacheLab` runs the one or the other of
them, so that one run covers both. Accesses to the stack are filtered out by
`test-trans`; the two accesses that mark the trace's ends are counted as misses.

### The bit puzzles

`Words` has C's integer operators at width `W`, a word being the set of the numbers of its
bits, so that `~`, `&`, `|` and `^` are set operators; `Plus` and `Int2s` wrap. `Bits` has
each puzzle as an operator with the constants of the code (`0xAA`, doubled twice to fill
the word, is every second bit, and so on) and floats with `E` bits of exponent and `F` of
fraction; `float_i2f` is a small state machine because of its loop. `Means` says in terms
of numbers what the header comments promise. A sum of ints that overflows is undefined in
C; the model wraps, as the code gcc 12 makes of these functions does at each of -O0 to -O3
(`isTmax`, bits.c:182, is two plain additions at all of them). The negation of the least
int in `float_i2f` is modelled with both outcomes that builds have: it wraps (gcc without
optimisation), or the loop that waits for a sign bit has no end (`Overflow`, gcc with
-O1).

## Runs

| run | bounds | shows |
|---|---|---|
| `Tsh_any` | 2 children, 2 slots, all commands, both keys, outside stops and kills, garbage masks with and without SIGCHLD | types and nesting; `ListedAreChildren`, `ChildrenAreListed`; `BackgroundSpared` |
| `Tsh_orderly` | 2 children, 3 slots, job ids up to 2, `fg`/`bg` on stopped jobs, both keys, no outside signals | `AtMostOneFG`, `JobIdsDistinct`, `QuietListing`, `ForegroundWaited`, `ImplementsJobControl` |
| `Tsh_live` | 2 children, fair scheduling; ctrl-c and ctrl-z on foreground jobs, or ctrl-c with jobs of both kinds | `ZombiesCollected`, `ForegroundEnds`, `KeysWork` |
| `Tsh_fg_lost` | 1 child, `fg` on it | violation of `FgEnds` |
| `CommandLine_small` | 3 lines out of 88 (28 of them longer than the buffer), `argv` of 4, `fgets` buffer of 14, 2 children, 2 slots | `ParsedAsTyped`; `ListingTellsJobs`; `Prompted`; `argv` and the line stay in their buffers (`TypeOK`) |
| `ProxyCache_small` | 2 threads, 4 objects of sizes 2, 2, 1 and 3 (too large to keep) in a cache of 4, 3 lines, two of the objects asked for twice, ctrl-c at the end | `FoundStays`, `SpaceAccounted`, `TraversalFrozen`, the proofs' `IInv`; `ListShape`, `ImplementsLRU`, `RequestsComplete`, `FreesAll` |
| `ProxyCache_walk` | 2 threads, 3 objects of one size in a cache of 2, each asked for twice, no ctrl-c | violation of `WalkSafe` |
| `ProxyCache_cycle` | 1 thread, 2 objects, 3 requests each | violation of `ListShape` |
| `ProxyRequest_small` | 2 connections, 11 requests, 5 uris, lines of 6, objects of 4, reads of up to 3 symbols, all faults | `AnswersTheObject`; `ForwardsTheRequest`; `Answered`; buffers (`TypeOK`) |
| `MmHeap_small` | 3 free lists, best fit in the last, 24 words of blocks in all, requests of 0, 8, 24 and 72 bytes | `CheckheapSilent`, `BlocksHeld`, `ContentsKept`, `NoNeedlessGrowth`, `ImplementsAllocator` |
| `CacheLab` | traces: 2 sets of 1, 2 or 3 lines, 6 addresses, 7 counted accesses; transposes: the sizes of `driver.py` in full, 8 by 8, `trans` on 9 by 5 | `ImplementsSetAssociative`; bounds of all accesses (`TypesOK`), `Transposed`, `FewMisses` |
| `Bits_small` | words of 8 bits, floats of 1 + 4 + 3 bits, all first arguments, four second and third ones | `AnswersRight`, `Returns` |

Why these bounds. Two children are what the shell's races need: one in the foreground and
one competing for SIGCHLD, `waitpid` and the keyboard; pids are reused, so two stand for a
sequence of any length. `Tsh_live` has both keys or both kinds of jobs, not all at once
(`MCTshLive`), to keep within what a check of liveness can do; a job stopped by the first
ctrl-z is there beside the second. `JidBound` stops new jobs once `nextjid` has passed it,
which keeps the job ids finite. `Tsh_orderly` has a slot more than it gives out job ids,
so that `nextjid` never wraps: an instance of what `TshForegroundProofs` assumes. Two
threads are what the locks distinguish (a reader or writer and another), three objects in
a cache that holds two force evictions, and a third line lets the allocator reuse a line
or not. Three lines typed are two background jobs and the listing of both, every line is
parsed in every state of the list, and the longest commands fill `argv` and the buffer.
Reads of one to three symbols cut a line or a block anywhere; two connections let a second
thread be served from what the first one cached, and see it exit. Eight bits with four of
exponent have everything the full width has: subnormal numbers, all roundings of
`float_i2f`, integers beyond the floats and floats beyond the integers; the puzzles use
the width through the same constants. Twenty-four words are six smallest blocks: enough
for a free block between two held ones, all four cases of `coalesce`, a split and no
split, a block that crosses the old end of the heap, and exhaustion. Seven accesses to six
addresses fill and overflow a set of three lines with hits in between. `Trans` has no
bound: the functions depend on nothing but the size, and these are all the sizes that do
anything (the 284, 1168 and 1810 misses it counts are what the harness would, less the
markers).

`CHECK_DEADLOCK FALSE` stands where the system may stop: the requests of the
proxy are finite, a shell whose `fg` lost its wakeup or that has exited does
nothing more, a `calloc` that wrote through NULL ends the program,
and a trace or a transpose comes to its end.

Every property of a passing run has a seeded mistake that breaks it: an operator
marked "Mutant" next to the definition it would replace. They are not used by the
specifications.

### What the violations say

1. `Tsh_fg_lost`: `fg` tests `fgpid` and suspends with SIGCHLD unblocked; the
   child that ends in between is reaped first and the shell sleeps for ever.
2. `ProxyCache_walk`: `cursor = c_head` comes before the locks; the line may be
   freed by the time the thread holds them.
3. `ProxyCache_cycle`: `insert_cache_line` leaves the target's `prev` as it was,
   and `remove_cache_line` follows it. The third use of a line can lose lines or
   close a cycle. The passing runs on the list therefore ask for each object at
   most twice: `ListShape`, `ImplementsLRU` and `RequestsComplete` hold up to
   there and not beyond.

### Deviations the models reach that have no run

Of the shell:

- `exec_bgfg` writes `job->state = FG` into a slot that the SIGCHLD handler has just
  cleared (tsh.c:719). The empty slot is then "in the foreground" with pid 0, `fgpid`
  answers "none" whatever stands behind it, the next `fg` does not wait and a second job
  becomes FG, against "At most 1 job can be in the FG state" (tsh.c:39). `AtMostOneFG`
  with `Commands = {"run", "run&", "fg"}` and `Resumable = {"BG"}` shows it: two jobs in
  the background, `fg` of the first while it ends, `fg` of the second, a third command.
  `Tsh_orderly` has `fg` for stopped jobs only, which do not end on their own.
- `addjob` wraps `nextjid` to 1 without looking whether id 1 is taken (tsh.c:490). With
  four slots: add four jobs, delete the second, add another: it gets jid 1 too, and
  `%1` means the first of the two. `JobIdsDistinct` holds as long as no job has had the
  last id, and `DistinctJobIds` proves it.
- `redirect` and `jobs` open `tok.infile` for the output (tsh.c:742, 639): `run < f > g`
  empties `f` and writes there, `run > f` makes the child end before `execve`, `jobs > f`
  lists nothing. The files themselves are not modelled.
- With `argv` full, `parseline` drops the rest of the line without a word, `&` and
  redirections included; a last argument that only starts with "&", even in quotes, makes
  a background job; the character that `main` cuts off (tsh.c:178) is one of the command's
  when the line is longer than the buffer. `Fits` and `Ambiguous` state these exceptions.
- A row of `jobs` is torn when the job is collected while it is written.
- With the list full, a foreground command is not waited for and a stop of the
  unlisted child crashes the handler. `ChildrenAreListed` and `ForegroundWaited`
  need a slot for every child, which the instances have and `EveryChildListed` assumes.
- `fg %jid` of a job that is collected between the lookup and the read of its pid
  (tsh.c:704) waits for pid 0, which is what `fgpid` returns for none: it sleeps for ever.
- A ctrl-c before the child's `setpgid` (tsh.c:669) reaches nobody; one between `setpgid`
  and `execve` ends in the child's copy of the handler.
- An uninitialized mask that holds SIGCHLD keeps `fg` asleep.
- A job stopped from outside between `job->state = ...` and SIGCONT stays listed
  as stopped while it runs.
- SIGCONT goes to the leader of a stopped job only, not to its group (tsh.c:714).

Of the proxy:

- A found line is sent after the locks are released and may be freed first; two
  threads that miss the same uri add it twice; ctrl-c frees the list under the
  threads that search it.
- One client that closes early, one server that does not answer or one name that is not
  found ends the whole process (csapp.c:29): `Answered` has to allow for it.
- A colon in the path is taken for that of a port (proxy.c:230): another server is asked
  than the one the uri names, or none is found and the process ends.
- A header line without colon, or a request that ends among its headers, makes
  `add_request_header` subtract from a null pointer (proxy.c:253).
- An object with a zero byte is relayed whole, but cached up to that byte and padded with
  zeros (proxy.c:337, cache.c:82): the second client gets a different object. Without a
  zero byte, an object as large as the buffer overruns it, as `strncat` adds the final
  zero.
- Of a header line longer than the buffer the rest comes as a line of its own
  (proxy.c:192). If the buffer just holds what stands before the CRLF, that rest is taken for
  the end of the headers, and those that follow are lost; if the rest looks like a header the
  proxy replaces, it is left out; of a line that the proxy drops, the rest is forwarded as a
  header. `ForwardsTheRequest` asks, as its premise, that the pieces of each line are
  read as meant (`ReadWhole`); `ProxyRequest_small` has long lines that meet it and long
  lines that do not. (`size < 0` after the reads never happens: the wrappers exit first.)

Of the others:

- `calloc` clears what `malloc` returned without looking at it: at the end of memory
  it writes through NULL (`crashed` in `MmHeap`).
- `transpose_submit` does nothing for a size it was not written for, the one of
  `test-trans`'s usage example (8 by 8) included, although its ENSURES asks for the
  transpose of any; `Transposed` is about the graded sizes.
- `float_i2f` of the least int: -O0 gives the right answer, -O1 does not return
  (bits.c:416).

## Fairness

`Tsh!FairSpec`: the code that handlers interrupt, the handlers and the delivery of a
pending unblocked signal are strongly fair. Keystrokes can interrupt the shell again and
again, but leave it time between two of them, and `sigsuspend` returns only after all
pending unblocked signals have been handled. Children are weakly fair in starting and in
taking a signal; none needs ever exit, and nobody needs ever type. `ProxyCache!FairSpec`:
each thread is weakly fair - the scheduler runs it whenever it can go on. Weak fairness
suffices for the locks because the requests are finite: with an endless stream of readers
a writer of a reader-preferring rwlock may starve, and `RequestsComplete` does not claim
otherwise. `CommandLine!FairSpec`: the main loop and the collecting of each child are
weakly fair, a program need not end and a user need not type; that nothing interrupts a
handler's step is right because it is one. `ProxyRequest!FairSpec`: each thread is weakly
fair, and clients and servers send what they have or fail. `Bits!FairSpec`: the program
runs on.

## Proofs

All theorems hold for every value of the constants that satisfies the named assumptions
(`JobListAssumption`, `TshAssumption`, `CommandLineAssumption`, `CacheListAssumption`,
`ProxyCacheAssumption`, `ProxyRequestAssumption`, `MmHeapAssumption`, `TransAssumption`,
`TraceAssumption`), and under the hypotheses given below.

- `TshProofs`: `Invariance` is `Spec => []IInv`. `ListedAreChildren` is not
  inductive: that a freshly forked child cannot be reaped before it is listed
  needs that no handler runs while all signals are blocked (`HandlersNest`); that
  `addjob` makes no second slot for a pid needs that a child about to be added is
  new to the list (`AddIsNew`); the write of a state through a stale slot needs
  the slot to be one (`SlotInUse`); and `BackgroundSpared` needs that a pid in a
  keyboard handler's hands is never a background job (`KeyTargets`) - which holds
  because only the main loop makes a job BG, and it does not run then. There is
  one lemma per action. `TypeCorrect`, `JobListSound` and
  `KeysSpareBackground` follow. They hold with any number of slots, so with a full list too.
  `EveryChildListed` is `Spec => []ChildrenAreListed` under
  `Room`: finitely many process ids, and no more of them than slots. A child that
  `addjob` is about to list is in no slot, so the processes in a full list would be too
  many for their slots (`FreeSlotForNew`, by the pigeonhole principle); and what
  `deletejob` clears belongs to a child that `waitpid` has taken from the kernel already
  (`CollectedAreGone`). Without `Room` it is false: `addjob` fails and nobody looks.
- `TshForegroundProofs` has the shell under `Orderly`: `fg` and `bg` name stopped jobs,
  nobody outside stops or kills a child, and fewer job ids are given out than there are
  slots. Each of the three is needed: `fg` of a running job races with its end
  (tsh.c:719), an outside stop with the write of the state, and `addjob` wraps `nextjid`
  (tsh.c:490); see the deviations below the runs. `OrderlyInvariance` is the inductive
  invariant. Job ids are distinct and below `nextjid` (`JobsWell`), so by the pigeonhole
  principle there is a slot for every new job, with no assumption on the number of
  processes. While the shell runs, a job in the foreground is one that the main loop
  waits for (`WaitsForFg`), is about to restart or has just restarted (`Resumed`); a stop
  that nobody has reported leaves SIGCHLD pending or a handler running (`NewsPending`),
  and a listed stop is that of a stopped child (`StopsListed`). `OneForegroundJob`,
  `DistinctJobIds`, `ListingTrue` and `EvalWaits` follow, and so does
  `JobControlImplemented`: the shell implements `JobControl`. There `addjob` is
  `StartFg` or `StartBg`, the write of `exec_bgfg` is `Fg` or `Bg`, a reported stop is
  `CtrlZ`, a `deletejob` is `End`, and every other step leaves the jobs as they are.
- `ListingProofs`: `ListingSound` is `Spec => []ListingTellsJobs` for `CommandLine`. The
  listing is written while children are collected, so the invariant says of the job list
  that no process is in it twice, that a slot has the line its child was started with,
  and that nothing but the job `eval` waits for is in the foreground (`SlotsAgree`); and
  of the listing that a full row whose job is still there names one in the slots passed
  over, and the row being written that of the present slot (`RowsPlaced`). A slot freed
  behind `listjobs` stays free while it lists, because only `exec_others` fills one.
  `ParserInBounds` is `Spec => []TypeOK`: the line stays in `cmdline`, the place where
  `parseline` goes on within it or right behind it, and `argv` keeps room for its NULL.
  While the loop runs `argv` is not full, because the token that fills it ends the loop
  (`ParseInv`), and a token ends within the line, which a newline or a quote says.
- `JobListProofs`: what `maxjid`, `getjobpid`, `getjobjid`, `fgpid`, `addjob`,
  `deletejob` and `WithState` return and preserve.
- `ProxyCacheProofs`: `Locking` is `Spec => []IInv` for `Interrupted # "any time"`: which
  lock a thread holds at each `pc` (`LocksHeld`), that writers are alone (`WritersAlone`),
  and that the found line stays (`FoundStays`), which rests on the insert lock held for
  reading across the change of the update lock. `AtRest` says that shutdown meets no open
  request. `FoundLineStays` and `SearchUndisturbed` follow. Without the assumption they
  are false, for the reason given above under ctrl-c. The list, the space and the shutdown
  come under one more hypothesis, `TwoUses`: no object that is small enough to be kept is
  asked for a third time. It is about what clients do, and `ProxyCache_cycle` shows that
  two is as far as the code goes: a third use follows the stale `prev` that the second has
  left. What the hypothesis buys is an invariant of its own (`FreshInv`). Of two requests
  for an object one brings the line, so one at most finds it (`FewAsk`, `OneMore`); the
  front with a `prev` that is not NULL has been found already, and no request is left to
  take it out again (`FrontSpent`); lines outside the list have no `prev` (`OutsideBare`).
  So no hit takes a stale line out of the front (`Fronts`), which is what the list needs.
  `CacheSound` is `[](CacheInv /\ FreshInv)`. While the proxy serves (`ServingInv`) there
  is a sequence of distinct lines that `c_head`, `next`, `prev` and `c_tail` spell
  (`Queue`), which are the resident lines without one being moved (`Linked`);
  `remain_size` is what they leave (`Accounted`), and two facts are needed that no
  property mentions: a line outside the cache leads nowhere, because `insert_cache_line`
  does not write `next` of a line that comes into an empty list (`LinesKept`, `InHand`),
  and two objects fit into the cache, so an eviction never takes the front, whose `prev`
  may be stale (`TwoFit`, from `MAX_OBJECT_SIZE`). Each action on the list has a predicate
  that says what it does to the sequence (`TakenOut`, `PutBack`, `Allotted`, `Evicted`,
  `Placed`) and a lemma that the action is that; so moving, adding and evicting use no
  freed line. During a shutdown `next` alone leads through what is left (`ClosingInv`).
  `TypesHold`, `SpaceIsAccounted`, `ShutdownFreesAll` and, for finitely many lines
  (`Chain` counts them), `ListHasShape` follow, and so does `CacheImplementsLRU`:
  `TakenOut` is the abstract cache's `Hit`, `Evicted` its `Evict`, `Placed` its `Add`, the
  allocation of a line its `Bring`, ctrl-c its `Close`, and every other step leaves the
  entries as they are. The sums (`SpaceOf`, and `Used` of the abstract cache, which goes
  over positions) are folds; what a fold over a finite set adds up to is shown by a least
  counterexample (`TotalsAgree`), as no induction rule can be cited.
- `ProxyRequestProofs`: `BuffersHold` is `Spec => []TypeOK`, from `RequestInv`: what each
  buffer that Rio reads to holds at each point of a connection, and which are empty
  (`Buffers`; nothing is claimed of `cache_buffer`, which an object can overrun);
  `TakesFit` says that `rio_readlineb` and `rio_readnb` take what there is room for.
  `ClientsGetTheirObjects` is `Spec => []AnswersTheObject`, with the invariant
  `AnswerInv`. The client is not sent an object but blocks, so the invariant says that
  what the client has, what the thread holds, what is in Rio's buffer and what is still to
  come make up the object (`OnItsWay`); that a block which is not the last is a full one,
  so an object that is small enough for the cache comes in one block and `cache_buffer`
  has all of it or nothing; and that what is cached for a uri is its object up to the
  first zero, padded (`CacheHoldsObjects`), whichever thread put it there. The hypothesis
  is `UrisSpelled`: the text of each uri spells the host, port and path it names, or leads
  to nobody. A uri with a colon in its path is spelled otherwise for `parse_uri`
  (proxy.c:230).
- `MmHeapProofs`: `HeapIsWellFormed` is `Spec => []HeapInv`. The blocks and their sizes
  are not in the state, only the words are, so `HeapInv` says that there are a set of
  blocks, their sizes and the free ones among them that the words encode (`Work`): the
  blocks lie one behind the other from the prologue to the epilogue (`Tiled`), each has
  its tag at both ends (`Tagged`), and the free ones and the heads of the lists point to
  each other in rings, each within one list and through its head, and no two of them
  touch (`Linked`); the blocks that are not free are those the caller holds, with room for
  what was asked for (`Owns`). Inside a call this
  is broken: between `del_free_blk` and `ins_free_blk` a free block is in no list, so
  `Work` names the linked ones apart from the free ones, and each function has a lemma
  that takes it from one form to the other: `coalesce` in its four cases (`Coalesces`),
  `place` with and without a split (`Places`), `extend_heap` (`Grows`), `free` (`Frees`),
  `malloc` (`Mallocs`), and the caller's writes (`Fills`). What `find_fit` returns is free
  and large enough (`FindsFree`), because a walk along a list meets only free blocks
  (`ListsAreWhole`). `KeepsThePromise` is `Spec => ImplementsAllocator`,
  `KeepsTheContents` is `Spec => ContentsKept`, and `BlocksAreHeld` is
  `Spec => []BlocksHeld`: the walk by headers arrives at the epilogue, since a block takes
  at least four words (`WalkFindsAll`). A list is walked no further than to its head, so
  that it shows every free block of its sizes is a proof of its own: were one not met,
  those not met would point to each other in a ring without a head (`WholeList`), which
  `NoLoops` excludes; and the walk comes back to the head before its bound, since it meets
  no block twice and there are fewer blocks than steps (`TrailEnds`, `FewBlocks`). From
  that follow `ChecksFindNothing`, `Spec => []CheckheapSilent`: the lists together hold
  as many blocks as are free, each once and in the list of its size, and
  `GrowsForNeed`, `Spec => NoNeedlessGrowth`: `find_fit` begins with the list of the
  request, and a block in an earlier list is too small, because `list_index` does not
  fall when the size rises (`LaterLists`; that powers of two grow is proved by counting
  subsets, `Powers`). The hypothesis is `NoWrap`: no request is within 15 bytes
  of the largest `size_t`. Without it `malloc` makes a block of size 0 of such a request
  (mm.c:455), and what it leaves is no heap.
- `CacheLabProofs`: `SimulatesSetAssociative` is `LabSpec => ImplementsSetAssociative`.
  The tag and the set index of an address make up the number of its block
  (`BlockParts`), two blocks are in one set if their numbers differ by a multiple of the
  number of sets (`SetOfBlock`), and no block is in two lines of a set (`TagsDiffer`, kept
  by the invariant `SimInv`): so a set has as many blocks as lines in use
  (`BlocksCounted`), which is why the cache evicts only when the set is full. The
  stamp of the line a block is in is its rank: a hit changes that of its block only
  (`HitRanks`), a block that comes in gets the largest of its set plus one, which is one
  above all ranks there (`FillRanks`, `AboveIs`; an unused line has stamp 0), and what
  `evictIdx` finds has the least. `fillIdx` finds an empty line if there is one
  (`FillPlace`). `ExecuteServes` has all this for one access; that shifts are divisions by
  powers of two is proved from the recursive function `pow2` through the least
  number it would be wrong for. A transpose leaves the abstract cache as it is.
  `EndsTransposed` is `LabSpec => []Transposed`: `trans` ends with the transpose of any
  matrix of up to 256 by 256, the submission with that of the graded ones. What a loop
  body moves is a fold over its accesses, so a body of `n` accesses is unrolled into `n + 1`
  stages, of which each follows from the one before (`Folding`, `MovesInTurn`); a lemma for
  each body says which elements it leaves right (`Plan`). The invariant `LoopInv` says, for
  each loop and its counters, which elements are right so far (`Right`), and for 64 by 64
  also which lie in sub block 2 of B, where the first loop parks them (`Parked`) until the
  second has read them into its variables, brings them to sub block 3 and fills their place.
  `StaysInside` is `LabSpec => []TypesOK` under `SizesFit`: no body goes behind the end of a
  row of A or B, or reads a cell of B that none has written. The hypothesis is needed, as the
  submission chooses its loops by `N` alone (trans.c:36) and would leave a matrix with 32
  rows that is not square.

Only model-checked: how many misses the transposes have (`FewMisses`), which is a number
to be computed; that the parser finds what was meant (`ParsedAsTyped`) and that the proxy
forwards what was asked (`ForwardsTheRequest`), which need induction over sequences; the
puzzles (`AnswersRight`), over all words of eight bits; and all liveness properties, which
are outside what the prover can do.

## Not modelled

- What is in files: `redirect`'s effect on them is described above, and is one of the
  reasons why a child may end (`ChildRuns`).
- A failing `fork` (no state changes) and the output of the shell but for listings.
  Processes below a child in its group.
- The size of the proxy's `req_header` and of its host, path and port buffers; how the
  request is written to the server, but for its failure; `main`'s arguments.
- The wrappers of csapp that the proxy does not use.
- The simulator with `s = 0` (a shift by the width of the word, undefined) and its
  verbose output; options and files of `test-trans` and `tracegen`.
- The bomb and the attack lab: drivers around binaries, and functions that serve as
  bytes. They have no behaviour of their own to check.

## Plan

1. Done: all modules above; proofs about the shell, its parser and listing, the
   proxy's locks, list, buffers and answers, the allocator, the simulator and the
   transposes. What `Only model-checked` lists is out of the prover's reach.
