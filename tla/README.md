# A verification of SECT

SECT explores interleavings of concurrent system calls. An LLVM pass puts
preemption points into the kernel. A fork of syzkaller runs the calls of a
program in temporary threads. `scx_serialise`, a sched_ext scheduler in BPF,
decides which of these threads runs next. This project models the scheduler and
the stateful parts of the fuzzer around it, checks the models with TLC and
proves the safety properties that hold with TLAPS.

## 1. The system

| Part | Source (under `src/`) | Modules |
|---|---|---|
| Dispatch gate, cycles, watchdog | `scheduler/scx_serialise.bpf.{c,h}` | `SchedCycle`, `Serialise`, `SerialiseRace` |
| Algorithms PCT, POS, RW, RP | `scheduler/*.bpf.h` | `SerialiseAlgo` |
| Gate of the procs, executor environments, leak checker | `syzkaller/pkg/ipc`, `syz-fuzzer` | `Gate`, `GateAbs`, `Executor` |
| Fuzzing engine: queue, jobs, poll loop | `syzkaller/pkg/fuzzer`, `syz-fuzzer` | `Fuzzer` |
| RPC server, corpus, database | `syz-manager/{rpc,manager}.go`, `pkg/db` | `Corpus`, `DB` |
| Exchange between managers | `syz-hub`, `syz-manager/hub.go` | `Hub` |
| Division of the VMs | `syz-manager/manager.go` (`vmLoop`) | `VmLoop` |
| Reproduction of crashes | `pkg/repro`, `pkg/bisect/minimize`, `prog/minimization.go` | `Repro`, `Slice` |

**How they interact.** A manager runs VMs, each with a `syz-fuzzer`. The fuzzer
polls the manager for candidates, signal and inputs, and sends it the inputs it
finds. Its procs run programs in executors, through a gate that bounds how many
run at once. The executor starts the calls of a program in threads; the threads
of process N form the group with eid N of the scheduler. The manager keeps its
corpus in a file, exchanges programs and reproducers with a hub, and takes VMs
from fuzzing to reproduce crashes.

**Inside the scheduler.** A thread sets its policy to SCHED_EXT and yields; its
first yield makes it a *participant* of the group's current cycle. A participant
that gives up the CPU is *parked* in GROUP_DSQ. When every participant that is
awake is parked the *gate* opens: the eid goes into `cycle_dispatch_queue` as a
*token*. The CPU that pops the token moves the parked thread with the highest
priority to its local queue. `pending_dispatch` keeps a cycle to one token. The
exit of the last participant resets the cycle. A thread parked for more than
60 ms is marked by the timer, which forces the gate open; the cycle is then
TIMEOUT and drains without the gate.

`PROJECT.json` lists every part with its status, the map from definitions to
lines, and the hazards line by line with the properties that would catch them.

## 2. The modules

**Scheduler.** `SchedCycle` has one operator per critical section on `struct
sched_cycle`. `Serialise` takes every `ops` callback as one step, for several
groups. `SerialiseRace` splits the callbacks at every unlock, for one group and
several CPUs: `pc[p]` is the section a thread's callback, a CPU's `ops.dispatch`
or the timer is at, `reg[p]` what it carries along. `SerialiseAlgo` adds the
priorities and the order of GROUP_DSQ. `SerialiseInv` is the inductive
invariant. `cycle`, `tctx` and `gateq` are the BPF maps. `where[t]` is the
kernel's side of a thread and the only state taken from sched_ext. `leftover[g]`
is auxiliary: the last reset left a token of g behind. Time is abstract: the
budget of a parked thread may be found used up whenever the timer looks.
Callbacks of one task do not overlap, since sched_ext calls them under the run
queue's lock. A pid is reused only after `ops.exit_task`.

**Gate and executors.** In `Gate` a step is a section of the mutex; `at[p]` says
whether a goroutine waits for the lock or sleeps in `cv.Wait`. `GateAbs` is what
the gate promises: a running activity is among the last `Size` started, and
with a callback nobody starts between the end of the first of every `Size` and
the callback. `Executor` composes the gate with `executeRaw` and its retries,
`Env.Exec` with every way an executor fails, and the leak checker. The mutex and
the condition variable are external.

**Fuzzer.** A program is what its runs return. `job` holds the triage, smash and
hints goroutines by the place where they wait; a request is in `queue`, with a
process, or answered in `resultC`. Counters and queue are updated in separate
steps, as in the code. The poll loop is `PollStart`, `PollReply`, `PollPush`.
Modelled as written: `NeedCandidates` is sent when the compare-and-swap *fails*
(`fuzzer.go:193-199`); an unsuccessful first run of deflake ends the job; fault
injection executes `job.p` and not the program it built.

**Corpus and DB.** `DB` is a library of operators on a database record: file,
pending entries, records; a file is a sequence of entries and the last one of a
key decides. `Corpus` has the handlers `Connect` (two steps, because it reads
the corpus before it locks the server), `Check`, `NewInput`, `Poll`,
`shutdownInstance`, and the manager's loading, candidates, phases and
minimization, all with any order of Go's maps. `Restart` crashes the manager
between handlers or inside a flush. `missed` is auxiliary. A call of a dead VM
is handled late (`LateInput`), but not after a new fuzzer of the same name has
connected. `Splits(s, 0)` takes everything, as `Split` does, so the 10 % that a
rotation means to drop is all signal when there are fewer than ten elements.

**Hub.** The hub is one record. A handler is the sequence of the records its
writes go through; a crash leaves one of them without what is only in memory.
Calls of managers fail before or after the hub has handled them. `passed` and
`given` are auxiliary.

**VmLoop.** `vmLoop` with its select, the two pools of VMs, `runInstance`,
`runRepro` and what is on disk about crashes. A channel on which goroutines
send is the set of those ready to. Pending crashes of one title are one entry.
The dashboard answers anything.

**Slice and Repro.** `Slice` is the chunked minimization, one predicate call per
step. `Repro` uses it for the bisection of a log and has every phase from the
first single program to the final rerun. A test crashes, does not, or fails. A
program has one call; the minimization of its arguments is one attempt per call.

## 3. The runs

| Run | Instance | Checks | Result |
|---|---|---|---|
| `serialise` | 3 threads, 1 group, cycles of 2, 2 contexts, queue of 3, idle placement, fair | `Accounting`, `Serialised`, `StartBarrier`, `TimeoutUntilReset`, `ParkedLeaves` | hold |
| `algo_pct` | PCT, 2 threads, depth 3, 4 events | `DsqInPriorityOrder`, `DemotedRankBelow`, `NewStratumIsLowest` | hold |
| `race_safety` | 2 threads, 2 CPUs, timer, queue of 1 | `PendingHasToken`, `WatchdogSeesParked` | hold |
| `race_dispatch` | 2 threads, 2 CPUs, timer, queue of 2 | `OneDispatched` | violated |
| `executor` | 3 procs, gate of 3, one flaky executor, 1 retry, fair | `GateSound`, `LeakReportedAfterFlush`, `InfoFresh`, `GateRefines`, `SleepersWoken`, `WorldStops` | hold |
| `fuzzer` | 2 procs, 1 signal, 2 candidates | `CandidatesCounted`, `OneAnswer`, `SignalReported`, `CorpusIsStable` | hold |
| `corpus` | 2 VMs, 4 programs (1 disabled, 1 broken), 2 signals, a hub | `CorpusCovers`, `Durable`, `MaxSignalDistributed`, `InputsDistributed`, `OnlyRedundantDeleted` | hold |
| `corpus_loss` | the same | `DeletedAfterTriage` | violated |
| `hub` | 2 managers, 2 programs, 2 repros, one of which one manager cannot run, 1 fault | `Mirrored`, `HubExact`, `NothingSkipped`, `ReproOnce`, `ReproKept` | hold |
| `vm_loop` | 2 VMs, 1 title and repros of the hub, 1 attempt, strace, fair | `VMUsedOnce`, `FuzzingGoesOn`, `OneReproPerTitle`, `WorthTrying`, `VMsUsed`, `ReprosStart` | hold |
| `vm_shutdown` | the same | `ShutdownEnds` | violated |
| `repro` | logs of up to 7 programs, 2 timeouts, 2 chunks, fair | `ReportOfResult`, `GuiltyFound`, `OptionsLegal`, `ReproEnds` | hold |

**What the passing runs say.**

- *Scheduler.* The counters never drift, not even when a context is refused, a
  thread wakes on an idle CPU past `ops.enqueue`, or a thread exits asleep or
  before the start. Participants run one at a time unless the last reset left a
  token behind (`leftover`). Nobody stays parked for ever. Between critical
  sections, whatever the races do to a schedule, the gate does not jam and the
  watchdog sees every parked thread.
- *Gate.* The ticket window implements its abstract specification, no wake-up is
  lost although one condition variable serves both kinds of waiter, and a result
  never comes from an earlier run. Who enters first is not promised: a
  goroutine that is woken may find the slot taken again.
- *Fuzzer.* The candidate counter is exact although it is changed apart from the
  queue, a job gets one answer, and signal found during a poll goes with the
  next one.
- *Corpus.* An accepted input survives a crash at any point; minimization in any
  order keeps the signal; every live fuzzer that is not rotated has or is owed
  all signal, and all inputs but those accepted between the halves of its
  `Connect`.
- *Hub.* What a manager believes the hub to have is right after every failed
  call. Programs are neither skipped nor numbered below what was passed. A
  program counts as passed when it is sent: the hub gets no acknowledgement, so
  a lost reply loses the batch. `ReproKept` leaves out managers whose number is
  0, which `createManager` takes for a missing file (`state.go:155`).
- *VM loop.* A VM has one user, reproductions leave the fuzzing VMs alone, and a
  dropped notice of the pool does not strand a VM.
- *Repro.* The report is of the program and options that are returned, and the
  programs a crash needs are found unless they are more than `MaxChunks`.

**What the violated properties say.**

1. `race_dispatch`. Two enqueues count, both find the gate open; the second
   claims after the first one's token has been consumed and releases a second
   thread. The comment of `enqueue_cycle_for_dispatch` rules this out.
2. `corpus_loss`. The phase turns to Triaged when the last candidate is handed
   out. The next minimization deletes programs that no fuzzer has executed yet,
   against the comment in `minimizeCorpus`.
3. `vm_shutdown`. A shutdown while a reproduction waits for a VM does not end:
   nobody closes the channel that `runOnInstance` waits on. The handling of
   `ErrNoVMs` expects that it does.

**Also met, without a run of its own.** In the scheduler: a reset that leaves a
token lets the next cycle release two participants; a timeout claimed after a
reset leaves a fresh cycle in TIMEOUT with nobody alive; more threads than
expected can join; a new priority of a parked thread has no effect in POS and
RW, because vtime is fixed at insertion; two participants can share a det id; a
change point at the last expected event never fires. In the manager: `Poll`
answers rotated fuzzers with nothing; phases and `stopPending` are read late by
`vmLoop`. In the hub: own repros are in memory only.

**Bounds.** Threads, VMs, procs and requests are never used up, so a run covers
any number of cycles, restarts and polls. Cycles of two are the loader's default,
and the third thread is the late joiner without a context. With a queue of one
place a push often meets a full queue. `EventMax` and `DetMax` (algo_pct) stop
threads, so that run does not check for deadlock; `vm_loop` may really stop. A
gate of three tickets has a first, a middle and a last slot, and three procs let
one drain while one runs and one waits. One signal makes both procs chase the
same thing; the theorems cover any number. In `corpus` program b covers what a
covers, so minimization has something to delete; `CompactUnit` is scaled so that
both appending and compacting happen; one VM finds signal and dies, the other is
served. `MaxRecords` 0 cuts every batch of the hub, and the repro that only one
manager can run is skipped for the other. Seven programs give two
rounds of splitting with rounding. Symmetry permutes threads, CPUs, procs or
programs, in runs without liveness only.

**Fairness.** *Serialise:* weak for dispatch, since sched_ext calls it on an
idle CPU; strong for the timer per thread, since it fires every 30 ms
independently of the gate. Threads are not fair at all. *Executor:* every
goroutine runs on; strong for taking the lock, because `sync.Mutex` has a
starvation mode. *VmLoop:* strong for each case of the select, which Go picks at
random; instances end after `VMRunningTime`; VMs boot and tests end. *Repro:*
the search takes steps while it can. Between sections of the scheduler no
liveness is claimed: there a timer can lose every race.

## 4. The theorems

They hold for every value of the constants under the named assumptions of the
modules: finite sets where the code has finite ones, positive sizes, signal and
files of the right types. Two assumptions say more. `NoOverflow`
(`SerialiseAlgo`): within the bound on events the 32-bit bases of the strata do
not overflow. `StartOptsLegal` (`Repro`): the options a reproduction starts with
are legal; `DefaultOpts` panics if they are not. Each theorem follows from an
inductive invariant.

*Serialise* (`SerialiseProofs`). `Invariance`: `Spec => []IInv`. `Accounting`
needs `ContextSound`: a guarded decrement is right only if the context says
where the kernel keeps the thread. `Serialised` needs `GateSoundOf`: at most one
token per group, only while `pending_dispatch`, and nobody released while a
RUNNING cycle has one. Exact counts turn the gate's test `num_queued = num_alive
- num_asleep` into "every participant awake is parked", so opening the gate
releases nobody else. `TypeCorrect`, `CountersExact`, `StatesSound`,
`Serialisation`, `Barrier` and the action property `TimeoutLasts` follow.

*Algorithms* (`SerialiseAlgoProofs`). `AlgoImplementsGate` is `AlgoSpec => Spec`
for every algorithm; `AlgoKeepsGate` carries the safety theorems over.
`AlgoInvariant` adds what the priorities rely on. `RankSound`: a thread that PCT
has ranked has the priority it started with, or one in the strata in use.
`DsqSound`: the vtime of a parked thread is its priority. `LapSound`: a lap takes
at least one event, and nobody is parked before a cycle of known length is
initialised. `DemotionsWork` and the action property `NewStratum` follow, and
`DispatchFollowsPriority` for PCT and RP; POS and RW change priorities of threads
that are parked, and do not have it.

*Critical sections* (`SectionProofs`). `RaceInv` says for each section what
its callback relies on. `RaceTypes`, `GateNeverJams`, `WatchdogComplete` follow.

*Gate* (`SectionProofs`, which has the two models whose steps are critical
sections). `GateInv` relates the busy slots to the tickets held
(`TicketInv`) and a stopped world to the one that drains (`StopInv`). It gives
`GateIsSound`, `CallbackRunsAlone`, and the refinement `GateImplements`:
`Spec => Abs!AbsSpec` with the ages of the busy slots, `pos`, `stop` and `hasF`
for the variables of `GateAbs`. `LeaksAreFlushed` and `ResultsAreFresh` are about
the leak checker and the retries that run on top of it.

*Fuzzer* (`FuzzerProofs`). `JobsInv` ties the stages of a triage job to the
signal it has (`CorpusStable`, `NewSignalChasedOnce`), `PollInv` says what a poll
carries (`NoSignalForgotten`), `AnswerInv` says where the request of a waiting
job is (`AnsweredOnce`); `CounterInSync` is inductive with the types.

*Corpus* (`CorpusProofs`). `DiskInv`: the file followed by the pending entries
reads back as the records (`Replays`), pending deletions are of broken programs
only, and the inputs are both in the records and on disk. The lemmas below it
say what each operation of `DB` does to that, compaction in any order and a
crash inside a flush included. It gives `FileIsTheRecords`, `InputsAreDurable`
and the action property `DeletionsAreJustified`. `OwedInv` adds that a fuzzer
is in `serv.fuzzers` only in certain states and extends the two distribution
properties to fuzzers between the halves of `Connect`; it gives
`CorpusHasTheSignal`, `MaxSignalReachesAll` and `InputsReachAll`.

*Slice and Repro* (`ReproProofs`). The chunks always are disjoint, ordered parts
of the original slice. `SliceKeeps`: whatever the predicate answers, what is left
is what it held of last. `SliceFinds`: with a monotone predicate and no limit of
steps a run that ends without an error returns exactly the needed elements.
`ReproInv` puts this into the search. `Bisecting` says when `Slice` runs, and
`TooMany` that it gives up only with more than `MaxChunks` chunks; `Reported`
ties the report to the result in every phase; `Traced` follows the needed
programs from phase to phase. It gives `ReportIsOfResult`,
`OptionsStayLegal`, and `GuiltyAreFound` for `MaxSteps = 0`, the only value
`bisectProgs` uses.

*VM loop* (`VmLoopProofs`). `LoopInv`: every VM is in at most one place, the
reproductions included (`HoldsVMs`, `Used`); `numReproducing` counts the
reproductions, and they fit into `maxReproVMs` (`Share`); `reproducing` holds
exactly the titles that run or are queued, each once (`Titles`); without a
dashboard nothing that waits comes from the hub (`OwnCrashes`). `VMsUsedOnce`, `FuzzingKeepsItsVMs`, `TitlesReproducedOnce` and
`AttemptsAreWorthIt` follow for any number of VMs, titles and attempts.

*Hub* (`HubProofs`). A handler is a sequence of records, so the invariant has
two halves. `Durable` is what must hold of every record on disk, between any two
writes: what is numbered up to a manager's number has been passed to it, and a
manager was given a repro only if the number in its file has passed it. `Live`
is what holds between handlers: the hub has the programs of the connected
managers and none that no manager has. Each handler is shown to keep `Durable`
from record to record (`Trail`), and `Recovered` and `CrashSound` that a crash
on any of them, followed by the recovery of `Make`, leads back to `Live`.
`Mirrored` is inductive with these.
`HubHasWhatManagersHave`, `NoProgramSkipped`, `ReprosGivenOnce` and the action
property `WaitingReprosAreKept` follow for any number of managers, programs and
faults.

*Only model-checked.* Liveness, which this prover does not handle:
`ParkedLeaves`, `SleepersWoken`, `WorldStops`, `VMsUsed`, `ReprosStart` and
`ReproEnds`. And everything that is violated.

## 5. Not modelled

The map covers about 4,400 of the 135,000 lines of Go and most of the scheduler.
The rest has no state machine worth exploring, or none whose data could be
abstracted without losing the point:

- `prog`, `pkg/compiler`, `pkg/ast`, `pkg/csource`, `sys`: generation, mutation
  and compilation of programs, pure transformations of trees and text.
- `vm`, `pkg/instance`, `pkg/report`, `pkg/build`, `pkg/vcs`: drivers of external
  tools and parsers of their output.
- `dashboard`, `syz-ci`, `syz-verifier`, `tools`, vendored code: services and
  front ends that fuzzing with this scheduler does not use.
- The scheduler's loader and the LLVM pass; scripts, patches and benchmarks.

Inside the modelled parts these are left out: pids reused before
`ops.exit_task`; the sections of the algorithms; a failing push into the gate
queue (a push with BPF_EXIST does not fail); failing disk writes and a rename
without fsync in `pkg/db`; priorities of signal; `capRecords` and keys of the
hub; domains of programs; statistics, HTTP pages, e-mail and logs.
`PROJECT.json` gives the reason for each part.
