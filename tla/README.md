# pp-cpp-common in TLA+

TLA+ modules for `pp-cpp-common`: the runtime that applications post their work to
(`src/runtime/`), the executors and pools below it, the small objects that decide
whether posted work may still run, and the sequential parts of the library whose
rules are easy to break: document values, their JSON and wire forms, results, files,
metrics and the logger tree. TLC checks each module on a small instance; TLAPS proves
the main properties of seventeen of them for every value of the constants.

Reading order: sections 1 and 2 for the system, section 3 for the module of the
component you came for, section 4 for what is checked on which instance, section 5
for what is proved. Section 6 lists where the code and its comments disagree.
`PROJECT.json` maps every definition to the lines it models and every hazard to
the properties that watch it.

## 1. The system

The library gives an application its threads. Everything is a callable given to a
*mailbox*, and everything hard about it is one question in different places: is a
callable that somebody accepted run exactly once, by the right thread, in order,
not too late and not after the thing it touches was torn down?

```
 application threads
   |  PostUI  PostWorker  PostTo  RunAndWait  Schedule...   QuiesceForTeardown
   v
 AppRuntime: GateTask wraps each callable, the teardown gate counts it
   |            |               |                      |
   v            v               v                      v
 UI mailbox   WorkerPool   CoordinatorThread      OwnerThread, one per id
 (drained by  (n workers,  (own thread: 3 lanes   (Dedicated: own thread;
  the app)     3 lanes)     and a timer wheel)     Manual: drained by anyone)
                                                        ^
 objects on an owner:  OwnerTasks, OwnerOutbox, OwnerSteps
                       each holds a Lifetime that kills what it bound

 apart from the runtime: SerialExecutor (ThreadExecutor, ManualExecutor), SettledWait
 no threads of its own:  documents (FiFoMap, Value, JSON, wire form), results,
                         AtomicFileWrite, the metrics registry, the logger tree
```

### 1.1 Inventory

| component | state it keeps | operations | correct means |
|---|---|---|---|
| Teardown gate (`AppRuntime.cpp`) | `state`, `epoch`, `pending`, `running` under one mutex; `t_gated_depth` per thread | `GateTask` (post, one-shot, repeating), begin / skip / destroy of a wrapper, `QuiesceForTeardown`, `ReopenAfterTeardown` | counters exact; a drained quiesce leaves nothing queued or running elsewhere; nothing stale starts; accepted work lost only after a timeout or a reopening; a quiesce returns at its deadline |
| Owner thread (`OwnerThread.cpp`) | deque, `started_`, `stopped_`, mode, thread | `Start`, `Post`, `PostFront`, `RunPending`, `Stop`, the loop | serial FIFO mailbox; each task run or destroyed; no lost wake-up; nothing left when `Stop` returns |
| `RunAndWait` (`AppRuntime.cpp`) | a shared settle state per call | post to an owner and wait, drain a Manual owner, stand in when dropped | task run exactly once, never through a reference into a frame that is gone; returns |
| Worker pool (`WorkerPool.cpp`) | three queues, `stopped`, `paused`, `live_workers`, threads | `Post`, `Pause`, `Resume`, `Shutdown(budget)`, workers | lanes in priority order; true from `Shutdown` means quiet; no lost wake-up on the shared condition variable |
| Coordinator (`CoordinatorThread.cpp`) | three queues, the timer list, flags | `Start`, `Post`, `Schedule...`, `Cancel`, `Pause`, `Resume`, `Shutdown`, the loop | as a pool; never oversleeps a deadline; a cancelled one-shot stays dead |
| Lifetime (`Lifetime.h`) | `generation`, `inside` (atomics); a thread-local stack | `Bind`, the bound call, `Invalidate`, `InvalidateAndWait` | no call of an old generation runs elsewhere once `InvalidateAndWait` returned; no lost notification |
| Serial executors (`ThreadExecutor.cpp`, `SerialExecutor.cpp`) | deque, deadlines, timers, `stopped_` | `Post`, `PostAfter`, `CancelTimer`, `RunAndWait`, `Stop`, the loop | serial; timers in deadline order, never early; after `Stop` nothing runs |
| UI mailbox (`SequencedTaskRunner.cpp`) | deque, `stopped_` | post, drain, stop, clear | FIFO, one drainer, nothing after stop |
| Manual executor (`ManualExecutor.cpp`) | deque, timers, a clock the test drives | `RunPending`, `AdvanceBy`, `RunAndWait` | same order of timers as `ThreadExecutor` |
| Runtime lifecycle (`AppRuntime.cpp`, `ThreadRuntime.cpp`, `WorkerDispatch.cpp`) | the global runtime pointer, the owner table, the watchdog | `Initialize`, `Shutdown`, `DrainWorkersThenUI`, `PostToOrRun` | drained means the earlier posts have run; the watchdog outlives nothing |
| Owner task facades (`OwnerTasks.cpp`, `RuntimeOwnerExecutor.cpp`, `OwnerOutbox.h`, `OwnerSteps.h`) | a `Lifetime`, timer ids, waiting continuations | `Post`, `After`, `Cancel`, `DropPending`, handles, outbox and steps | nothing of a dropped object runs; a cancelled timer does not fire; each step completes once |
| One-shot waits (`SettledWait.h`) | promise, `settled` | `Finish`, `Wait` | one value, also when a timeout meets a late answer |
| Atomic file write (`AtomicFileWrite.cpp`) | a temporary file | create missing directories, write, fsync, rename, fsync of the directory | old or new content after a crash |
| Metrics (`MetricsRegistry.cpp`) | counters, buckets, collectors | observe, scrape, remove | a scrape is consistent enough for Prometheus; no collector runs once removed |
| Logger (`Logger.cpp`, `Module.cpp`) | the logger tree | child lookup, `redirectTo`, levels | one node per path; levels inherited |
| Document values (`Value.cpp`, `FiFoMap.h`, `Json.cpp`, `ValueJson.h`) and wire format (`Serialize.hpp`, `BinaryPack.hpp`) | trees, byte buffers | parse, dump, merge, pack, unpack | round trips, order of keys, limits refused |
| Results (`ResultOrError.hpp`) | a flag and raw storage | construct, copy, move, assign, destroy | the flag says what the storage holds, whatever throws |
| Utilities (`Utilities.cpp`, `CivilTime.h`, ...) | none | conversions, random bytes, dates | calls of the C library; not modelled |

### 1.2 How they interact

*Calls.* `AppRuntime` is the only entry of the application: its posts wrap the
callable in `GateTask` and forward it to a mailbox. Mailboxes never call each
other; tasks do, by posting, cancelling, pausing or shutting down from inside a
task. So in every module "a task's code" may make each call the component offers.

*Shared state.* Each component has one mutex and gives it up around callables,
waits and notifications. The gate's mutex is the only one that all mailboxes take.
`Lifetime` has no mutex: it is two sequentially consistent atomics.

*Callbacks.* A wrapper settles with the gate by being run, by finding that it must
not run, or by its destructor - three paths, on whatever thread drops it last.

*Waiting.* Five places wait: an owner's loop, a worker, the coordinator (with a
deadline), `RunAndWait`, and the quiesce, which polls every 5 ms and in between
pumps on its own stack. `Shutdown` of a pool waits on the workers' own variable.

### 1.3 What is hard

- a quiesce called from inside gated tasks, which must discount its own frames;
- a wrapper created before a teardown that a mailbox reaches after the reopening;
- wake-ups: the notification is after the unlock, and two kinds of waiters share
  one variable;
- a stop from inside a task of the thread being stopped, which detaches;
- a caller that stands in for an owner because its post was dropped, which must
  not meet the owner's own task;
- timers armed and cancelled while others fire, equal deadlines, a clock read
  before the callbacks and used after;
- `InvalidateAndWait` from inside bound calls;
- a barrier that must pass behind everything posted before it, through a pool of
  several workers, owners that stop and a budget that may end first;
- a timer's id that is recorded after the timer may already have fired;
- a Manual owner that several threads drain at once;
- a power cut between any two calls of a file write, also in a directory that the write made;
- objects that share their children by pointer while a merge writes to them; flags and
  storage changed in two steps around constructors that throw; histograms read while
  they are written; a tree moved lock by lock while others walk it;
- what a reader of foreign bytes or text must refuse, and what it must not.

The full list, with the line where each bites, is "hazards" in `PROJECT.json`.

## 2. Conventions

- An action is one critical section, or one atomic access (`Lifetime`), or one
  stretch of a loop between two releases of its mutex. A notification that the code
  sends after the unlock is an action of its own, preceded by a program counter in
  `call[t]`; one sent under the lock belongs to the section.
- A wait on a condition variable is a state `asleep`. Being notified, or waking for
  no reason, leads back to the place where the code tests its predicate. Fairness
  is never given to a spurious wake-up.
- A callable is a model value. Its body is the span between "starts" and "ends"; in
  between, its thread may make every call (`InCode`). Payloads, captures, names,
  log lines and metrics are left out.
- A deadline is a choice: "the budget is over" may happen at any step of a wait. No
  property relies on it but where stated.
- Variables keep the source's names as comments; history variables are marked
  *history*; they record the past for a property, and no step depends on them (in
  `ThreadExecutor`, `missed` only keeps the same cancel from being recorded twice).
- A definition introduced by "Mutant for P" is a plausible bug in the definition below
  it, kept to show that P can fail ("mutants" in `PROJECT.json`). Nothing refers to it.

## 3. The modules

### GateRules, TeardownGate - the gate

`GateRules` holds the two decisions of `GateTask` as operators, `AcceptsPost` and
`MayRun`, shared with `RunAndWait`. `TeardownGate` is the gate with its clients:
`Post` and `Schedule` (wrap and count), `Begin` and `Skip` (the wrapper is called, and
let through or refused), `End`, and `Drop`, its destruction. `Settle` is the wrapper's own,
with its flag `settled`: a post that was called is "over" until its wrapper is destroyed,
whose destructor then finds the flag set; one that is destroyed unrun is counted out
there. Mailboxes are abstracted to "any thread that pumps may reach any queued task": what
the gate promises must not depend on their order. The quiescer pumps on its own stack, so
tasks nest over it; `level` and `host` keep the stack discipline. Timers live until they
fire (one-shots) or for ever (repeating); a repeating timer is gated by state only, not by
epoch, as in the code.

Each thread has the locals of a quiesce of its own (`phase`, `ownDepth`, `drained`): `QuiesceEnter`
on an open gate, the drain loop's test as `QuiesceDrained` and `QuiesceTimeout`, `QuiesceClose`;
`QuiesceAgain` is the call that finds the gate not open. `Reopen` is possible at any time, as
in the code, also under a quiesce: this call goes on, closes the gate of the new epoch and
returns what it found (`overtaken`), and another thread may quiesce beside it. A thread
makes one call that drains at a time: with a reopening in between, a task pumped by its
drain loop could begin a second one, which is left out.

### Lifetime

Every load, store and wait of `generation` and `inside` is a step: `Enter` (count),
`Check` (compare), the body, `Finish`, `Leave` (discount), `Notify`; for the owner
`Invalidate`, `LoadQuiet` / `LoadBusy`, `Block`. Bound calls nest on a thread, and
`InvalidateAndWait` discounts the caller's own (`mine`). The `std::atomic::wait`
re-tests the value against `now`, as the standard says, so a notification before the
sleep is not lost.

### SerialMailbox, OwnerThread - the owners

`SerialMailbox` is the promise: a queue, each task accepted at most once, started
from the front, refused or dropped when closed; with `Jumps`, a task may be put at
the front. `OwnerThread` is the code: `Post`, `PostFront` and their `Notify`, the
loop (`ThreadTakes`, `Sleep`, `Wake`, `Exit`), `RunPending`, which any thread may call, also from
inside a task, `EndTask`, and `Stop` as four steps - swap the
queue out, notify, join or detach, destroy the leftovers one by one. `RunPending` asks for no
mode; that the runtime calls it for Manual owners only is `RunOwnerTasks`, the action of
`Next`. `mode` is chosen in `Init`, so one run covers both.

### RunAndWait

The composition in which the three components above meet: a caller of
`RunAndWait`, the gate's decisions, one owner (its mailbox inlined: push, pop, run,
leave), a teardown that drains or is late and a reopening, and `StopOwnerThreads`, which
first takes the owner out of the table and then stops it. Tasks of callers may throw.
`Servers` are the threads that run the owner's tasks outside `RunAndWait`: the one of a
Dedicated owner, and any that quiesces, drains or calls `RunOwnerTasks`. A Manual owner is
run in passes (`StartPass`, `Pop`, `EndPass`), of a caller in its loop or of a server, and
passes may overlap. `stolen` marks a call whose wrapper another thread's pass took; the
caller's own pass then runs nothing, and the code takes that for a dropped post.

### PriorityMailbox, WorkerPool, CoordinatorThread - pool and coordinator

`PriorityMailbox` is what both promise: three lanes, the first non-empty lane's
front is next, `serial` or not. `WorkerPool` has the workers (`WorkerStep`), the
calls and their notifications (`notifyOne` may wake a waiter of either kind), and
`Shutdown` with its budget, after which workers that have not left are detached.
`CoordinatorThread` splits `ThreadMain` at its unlocks: `top`, `task`, `drain`,
`callback`, `fired`, `asleep`, `woken`, `resting`, `rested`. `looked` is the clock
read before the callbacks, which the code goes on with after them; `until` the
deadline of the wait. After a joined shutdown it can be started again.

### SeqFilter, ThreadExecutor

`SeqFilter` is `std::remove_if` and `erase` on a vector; the coordinator's timers and
the mappings use it, and it is a recursive function, so that the proofs can unfold it.
`PostAfter` gives increasing ids; `deadlines` also keeps the ids of cancelled timers,
as the code does. `Look` is one turn of the loop: due timers move to the queue in the
order of (deadline, id), then a task is taken, or the thread sleeps to the first
deadline, or leaves. `Stop` swaps the queue out under the lock but destroys it only
after the join; `RunAndWait` on top posts a ticket and waits for it to run or drop.

### OwnerTasks - an object's work on its owner

`OwnerTasks`, its shared `Handle` and the executor below them. A call is a sequence of
steps that `op[a]` walks through: `BindPost` (bind, look the owner up) and `PutPost`;
`LockAfter`, `Schedule`, `Record` (an `After` holds `mu_` until the id is in
`timers_`); `CancelTimer` and `Erase`; `Invalidate` or `Close`, then `SwapTimers` and
one `CancelDropped` for each id. The coordinator `Fire`s a timer and posts its call;
the serving thread does `Pop`, `Enter` (gate and generation), `LookUp` (the id) and
`Leave`. `host` follows the owner through its stop to the UI thread, and to the closed
gate. An outbox is three calls of a handle.

### Drain - DrainWorkersThenUI

The barrier is an item that is posted from hop to hop: the pool's Critical and Normal
lanes, each owner in the order of ids (`Aim` chooses the next one and `Check` finds out
whether it is still there), the UI mailbox, where it sets `done`. Jobs travel on
routes of their own through the same mailboxes. Two workers pop independently, so an item
may overtake another between the pop and the post; `BeginDrain` is the call. Owners
without threads are run in passes (`StartPass`, `EndPass`) by the drain and by a thread
elsewhere (`Other`). Meanwhile `StopOwnerThreads` may take all owners out of their slots
(`SwapOwnersOut`), where they work on until each is stopped in turn (`StopSwappedOwner`), the
gate may close (`AdvanceGate`), and the budget may end at any time (`ReturnFalse`).

### SettledWait, ManualExecutor

`SettledWait`: setting the flag (`Exchange`) and the promise (`SetValue`) are two steps,
of callbacks and of the waiter itself after its timeout. `ManualExecutor` is driven by a
test: `drives` is the stack of nested `RunPending`, `AdvanceBy` and `RunAndWait`, tasks
may drive it again, post, arm, cancel and throw, and a throw unwinds all the drives
below it.

### AtomicCell, AtomicFileWrite

`AtomicCell` is the promise: contents put one after the other, the first `kept` of them
for ever; a writer told so is among these. `AtomicFileWrite` is the code over a file
system with volatile and durable halves: what is `written` and what is `synced` of each
temporary file, which file the path named in turn (`names`) and how much of that the
directory on disk knows (`disk`). The directory itself (`dir`) is safe on disk, missing, or
made by `CreateDirectories`, whose error the code ignores; no call syncs what it makes. Each
call of `WriteBytes` is an action with its failure beside it, and `PowerCut` leaves of everything
what was synced and any part of the rest; a directory that was made may be gone with all
its names. The mapping: a rename is a put; the directory's sync keeps, if the directory is
on disk; writers whose sync failed or went to a directory that was made are `unsynced`, and
nothing is claimed to last for them. What a power cut leaves of a made directory is on
disk, and safe.

### Metrics, Logger

`Metrics`: an observation is four steps, since a histogram is a set of atomics and the sum is a
compare-exchange loop (`LoadSum`, `ExchangeSum`); a scrape runs the collectors under `collect_mu_`
and renders bucket by bucket. `Logger`: `getLogger` walks down one node lock at a time (`Walk`,
`Arrive`), `redirectTo` is `SearchCircle`, `Detach`, `Snapshot`, one `MoveChild` and `AddChild` for
each child, `Rebind`; a message climbs from the handle's node by weak parent pointers (`Climb`).
Redirects may overlap, as in the code; `crossed` records that one began while another was under way,
or of a node that one had left. `Below` is what a set of nodes owns: the least set with it that is
`Closed` under children.

### FiFoMap, DeepMerge, Json, Wire, Results - data

`FiFoMap`: the vector of entries and the index by key, with the erase that renumbers.
`DeepMerge`: a heap of objects that refer to each other, since copies of a `Value` share
children; `Merge` returns the new heap, so that a write through a shared child would show.
The recursive merge is a recursive function of the depth (`MergeTo`), and the heap has no
circle, so as many levels as there are objects are enough. `Trees` gives the document below
each object, `Overlaid` the one a merge is to leave.
`Json`: texts are sequences of tokens, bytes are kept by the class UTF-8 tells them
apart by; `ToJson`, `Dump`, `FromJson`, the strings that stand for large unsigned
numbers (`UIntForJson`) and what reads them back (`AsNonNegInt`), up to a NUL as the code does
(`UpToNul`). A number is one token, but a text may end inside it: `Left` is what is then left
of a number or a literal. `Wire`: a byte is a
digit of a small base; `Put` and `Get` for every type an archive knows, `PackAny` and
`UnpackAny` with the tag, the limits on lengths and nesting. Their actions are one
round: write something, damage it or take something foreign, read it. `Results`: the
flag and the storage of a `ResultOrError` and its `<void>` form, whose assignment ends one
life and begins another, with copies that throw, also the one in `static error()`
(`MakeError`); `Value` and `Error` are the checked accessors, `Arrow` the unchecked one.

### MCData, MCParts

The components from `OwnerTasks` on share no state, and one run
covers them: `part` is chosen in `Init` and never changes, the component it names takes
its steps and the others rest. `MCData` instantiates the data, `MCParts` adds the rest.

## 4. The runs

All runs take all interleavings of the instance; none uses symmetry, since the
clients have different roles or liveness is checked. `CHECK_DEADLOCK FALSE` is set
everywhere because each instance really ends: every callable has been used and
nothing need call again. Ends that should not be are found by the liveness
properties.

| run | instance | what it shows |
|---|---|---|
| `gate` | ui and worker, 2 posts, a one-shot, a repeating timer, quiesces by both, one reopening, at any time | `AccountingExact`, `DrainedMeansQuiet`, `StaleStaysDead`, `DiscardsOnlyWhenLate`, `QuiesceReturns` |
| `lifetime` | owner and io thread, 3 calls, 2 invalidations | `NoneRunsAfterReturn`, `InvalidateReturns` |
| `owner` | 2 clients, 3 tasks, both modes | `StopLeavesNothing`, `ImplementsMailbox`, `EverythingHappens` |
| `run_and_wait` | a caller outside and one inside a gated task, 1 other task, a server, both modes, throwing tasks, 2 calls and posts in all, one reopening | `RanOnce`, `NoDanglingTask`, `StandInAlone`, `CallReturns` |
| `worker_pool` | 2 workers, a client, 3 tasks in 2 lanes | `QuietAfterShutdown`, `ImplementsMailbox`, `EveryTaskSettles` |
| `coordinator` | a client, 2 tasks in 2 lanes, a one-shot, a repeating timer, 3 instants | `NoOversleep`, `CancelHolds`, `ImplementsMailbox`, `EverythingHappens` |
| `executor` | keeper, a caller, 1 post, 2 timers, delays 0 and 1 | `DeadlineOrder`, `RestAfterStop`, `ImplementsMailbox`, `EverythingHappens` |
| `parts`: tasks | a caller and the server, a post, a timer, 2 generations | `TimersExact`, `DoorHolds`, `CancelIsFinal` |
| `parts`: drain | 2 workers, 2 owners with threads or without, a job on 4 routes | `DrainedIsTaken` |
| `parts`: wait | 2 callbacks and the waiter | `AcceptedIsReturned` |
| `parts`: file | 3 writers of one path, one of them loose, one part each, one refused rename, a directory that is there or has to be made | `ImplementsCell` |
| `parts`: manual | 3 items, 2 instants, 4 nested drives | `ManualOrder` |
| `parts`: metrics | 2 observers, 2 bounds, 2 scrapes, one owner of collectors | `ScrapeSound` |
| `parts`: logger | 2 loggers, 5 nodes, 3 calls | `TreeSound` |
| `parts`: data | see below | `IndexExact`, `MergeOwnsResult`, `JsonRoundTrip`, `NumbersSurvive`, `WireSound`, `FlagHonest` |
| `stand_in`, `run_twice`, `cancel_late`, `drain_dangling` | as above, some smaller | a comment of the code that TLC refutes, section 6 |

The type invariants `TypeOK` and the count `InsideExact` of a `Lifetime` are stated in
their modules; those of every component with threads are proved (section
5). No run spends time on them. `parts` checks safety only and assumes no fairness.

*Why the bounds are enough.* The hard cases need: two posts (one queued while one
runs), two threads on which tasks can run, and one level of nesting over a
quiescer; one reopening to make a wrapper stale and a second teardown for it to
meet; the two threads may each quiesce, one of them under the other once the gate was
reopened. In `run_and_wait` two calls or posts are a call and the task that its caller meets,
or two callers; one server besides them is the second drainer of a Manual owner. A third
call of a `Lifetime` lets two nest on one thread while another thread
waits. Three tasks let one run while one is at the back and one is put at the front.
Two workers are the least that make `notify_one` able to miss; two lanes the least
with an order. The coordinator's intervals 1 and 2 in 3 instants give a timer armed
during a longer wait, a timer due during a callback, and two due together; the
executor's delays 0 and 1 the same with either order of ids. `MaxEpoch`, `MaxGeneration`,
`MaxTime` and `MaxPosts` are the only bounds on counters; each stops the one action
(both invalidations, for `MaxGeneration`) that would count further.

In `parts`: one post and one timer are enough for `OwnerTasks`, since its properties are about one
task, a second agent and the server; two generations let a task outlive one. A job on four routes
covers the ways an item can meet the barrier: with it, behind it, back to the pool and past it.
Three writers let a loose file lie between two durable ones. Two bounds make three buckets, two
scrapes a second reading of what was half written. The logger's paths are two nodes and their two
nestings, which is the least that can form a cycle; redirects overlap in the run as they like, and
the property is about the behaviour up to the first that does. A `FiFoMap` of three keys has a
first, a middle and a last entry to erase; a merge has trees of three levels and five objects in
all; foreign texts have up to seven tokens, some behind a start that reaches the deeper places of
the parser, and foreign messages up to five bytes, of all tokens and digits, so every refusal is
met; the number limits are scaled down (`MaxInt`, `MaxUInt`, `Base`) with values on both sides of
each.

*Fairness.* Every module of a run with a liveness property states `FairSpec` with: a thread that is
in the middle of a call or of its loop goes on (weak fairness of its next step, threads are
scheduled); a task's body ends. Nobody is assumed to call anything: no fairness on posts, stops,
quiesces, clock ticks, spurious wake-ups or timeouts. Where more is used it is because the code
gives it:
- `TeardownGate`: the drain loop tests again after 5 ms at the latest and its deadline, on the
  steady clock, strikes (`QuiesceDrained` or `QuiesceTimeout`); the close follows; a task that the
  quiescer pumps on its own stack ends. Nothing is assumed of other threads, nor that a queued task
  is ever reached: behind a task of a Dedicated owner that quiesces it is not, and then the deadline
  is what ends the call.
- `RunAndWait`: a pass that has begun goes on, whoever makes it; nobody need begin one but a caller
  in its loop.
- `WorkerPool`, `CoordinatorThread`: *strong* fairness of a task's end, since its calls to the pool
  disable and enable it; and of the budget only for a `Shutdown` made by a task of the pool itself,
  which waits for its own worker and has nothing but the deadline to end it.
- `QuiesceReturns` and `InvalidateReturns` are conditional: posts, or calls, come to an end. Without
  that the code may loop, and so does the model. `InvalidateReturns` leaves out `Standoff`, in which
  two bound calls wait for each other and the code does deadlock.

## 5. The proofs

TLAPS checks these for every number of threads, tasks and calls, every bound, and
the assumptions named in the modules: the sets of threads do not contain the "no
thread" value, tasks are finitely many (cardinalities are used) and kinds are
disjoint, bounds are natural numbers, a job's route goes somewhere. `MetricsAssumption`
says more: observed values are not negative. All that `src/` observes are durations of a
steady clock (`OwnerThread.cpp:154-164`); with a negative one the sum that a scrape reads
need not lie between the sums before and after it.

**TeardownGateProofs.** `TypeCorrect`; `AccountingCorrect` (`[]AccountingExact`); `TeardownSafe`
(`[]DrainedMeansQuiet`); `StaleNeverStarts`; `DrainedLosesNothing` (`DiscardsOnlyWhenLate`).
`AccountingExact` alone is not inductive, and says nothing about the quiescer. The invariant adds
`Phases` (where a quiescer is, given the gate's state, and that its frames are at least its
`own_depth`), `SettledOnce` (a post's flag is set from its call to its destruction, and only then),
`DrainedIsQuiet` (quiet already holds between the successful test and `Closed`, where other threads
still step), `AnsweredIsClosed` (a "drained" answer lasts only while the gate is closed), `Dated`
(the epoch in a wrapper dates it against the finished teardowns) and `Behind` (a post the gate would
discard is older than a late teardown). All of it holds with any number of quiesces at once, up to a
reopening under one, which ends its claim (`overtaken`). The heart is `TestMeansQuiet`: with
`running` the size of the set of all frames and `own_depth` at most the size of the quiescer's own,
`running <= own_depth` makes the two sets equal.

**CommonProofs** is about two headers of `include/common` that share no state.

*Lifetime.* `TypeCorrect`; `CountCorrect` (`[]InsideExact`);
`InvalidationIsFinal` (`[]NoneRunsAfterReturn`). The invariant adds `Waiters` (a
waiting thread's `mine` is the number of its own entered calls, which stand still
meanwhile) and `Targets` (generations only grow). When the load finds `inside` equal
to `mine`, the two sets of calls are the same, so no other thread is inside; whoever
is counted after that load compares with the new generation.

*DeepMerge.* `MergeIsOverlay` (`MergeOwnsResult`), for any number of held objects, names,
leaves and nested documents, and without the bounds of the instance. The invariant `HeapInv`:
each object has a key once and refers to objects that exist; there is a rank that falls along
every reference, so the heap has no circle; nothing refers to an object that the program
holds, since `Object::set` and the merge store copies. The induction is over the depth of the
calls and, in each, over the fields of the overlay: a merge writes its base and objects it has
made itself (`Grown`), these refer to what was below the base and the overlay and to newer
ones, and the base's fields are those the reference gives for the fields merged so far. So
the other objects keep their documents (`OthersKeep`), however many children they share. The
property by itself would not carry the induction: it says nothing of the objects that are
not held, where the calls for the children write.

**OwnerThreadProofs.** `TypeCorrect`; `StopIsFinal` (`[]StopLeavesNothing`);
`IsMailbox`, `Spec => Mailbox!Spec`: the initial states map to initial states and
every step to a step of `SerialMailbox` or a stutter. The invariant adds `Queues`
(what is in the deque, or in the stopping call's, is queued and in it once, and one of
the two is empty), `Loop` (a Dedicated owner runs one task, on its own thread, and
none while it waits) and `Stops` (there is one stopper, and it has joined before it
destroys the leftovers).

**WorkerPoolProofs.** `TypeCorrect`; `ShutdownIsQuiet` (`[]QuietAfterShutdown`);
`IsPriorityMailbox`, `Spec => ImplementsMailbox`. The invariant: `live_workers` is the
number of workers that have not left (`LiveExact`), so that zero means all have; a
running task has a worker, and to itself (`Hosted`), so that no worker leaves under one;
the queues stay empty after the stop and whoever is in a `Shutdown` has made it (`Halted`).

**RunAndWaitProofs.** `TypeCorrect`; `RunsOnce` (`[]RanOnce`); `FrameOutlivesWrapper`
(`[]NoDanglingTask`); `StandsInAlone` (`[]StandInAlone`), for any callers, posts and
reopenings, and any number of threads that drain a Manual owner. None of the three is
inductive. The invariant follows one wrapper. It is in one place (`Places`): the queue, the
stopper's deque or one thread's hands. `Drives` says who may have it there: the Dedicated
owner's thread, or a pass. `Wrapper` says what it can have settled and where its caller is
then, `Count` how often the task has run by then (together, `Callings`). A caller leaves its
wait unsettled with a Manual owner only, and then the wrapper is in the queue, where it has
not run, or in the hands of another thread (`stolen`), which is the case that the three
properties name and the code does not exclude (section 6). `Shut` carries a full drain over
to the stand-ins after it.

**ThreadExecutorProofs.** `TypeCorrect`; `FiresInOrder` (`[]DeadlineOrder`);
`RestsAfterStop` (`[]RestAfterStop`); `RefinesMailbox`, `Spec => ImplementsMailbox`. The
invariant adds `Places` (a queued task is in the queue or in `Stop`'s deque, once),
`Arming` (an armed timer is among the deadlines; an id is at most the number of ids
given, so the next one is larger than all and a timer armed later comes after those that
fired, with the same deadline too), `Stops` and `StandIns` (only the keeper is ever in a
`Stop`, and a call that was not refused is dropped only when the thread has left). The
mailbox's queue is what is left of two deques without the timers, so each step needs a
lemma on `Kept`: of an append, a tail, a concatenation (`KeptAppend`, `KeptTail`,
`KeptConcat`).

**CoordinatorThreadProofs.** `TypeCorrect`; `NeverOversleeps` (`[]NoOversleep`);
`CancelsHold` (`[]CancelHolds`); `IsPriorityMailbox`, `Spec => ImplementsMailbox`, over
restarts. The hard one is `NeverOversleeps`: the thread and a caller in `Shutdown` wait on
one variable, so a `notify_one` may wake the wrong one. `Shutters` is why it does not
matter: there is one such caller, and by the time it waits the thread has been woken by
its `notify_all` and does not sleep again. `Fires` says that a one-shot is spent once it
is collected, which is what a later cancel finds, and that what is in the list has a time.

**PartsProofs** holds the proofs of nine smaller components, a section each.

*FiFoMap.* `FifoIndexExact` (`[]IndexExact`): the index names exactly the entries.
The invariant is that and the types; an erase is shown to move every later entry and its
number together. `FifoOrder`: entries that stay keep their order.

*SettledWait.* `AcceptedWins` (`[]AcceptedIsReturned`). The invariant: the flag is
set by one thread, which is either about to set the promise or has its value there; so the
promise is set once and every other answer is a refusal.

*AtomicFileWrite.* `FileIsCell`, `FileSpec => Cell!CellSpec`, for any writers,
parts and retries and any number of power cuts. The invariant `FileInv`: a file gets
the path's name once (`NamedOnce`) and whole, a durable one synced (`Whole`), and a durable
write that has returned and is not `unsynced` is named on disk in a directory that is safe
there (`OnDisk`). Then
writing a temporary file changes nothing of the cell (`QuietStutters`), the rename is a
`Put` (`RenamePuts`), the sync of a safe directory a `Keep` (`DirectoryKeeps`), a failure a
`Fail` (`RemoveFails`) and a power cut one of the cell (`CutCuts`).

*OwnerTasks.* `IdsExact` (`[]TimersExact`), `CancelHolds` (`CancelIsFinal`),
`EndIsQuiet` (`[]DoorHolds`), for any callers, posts, timers and generations. The
invariant: threads work on different tasks (`OneEach`); an id is recorded after its
scheduling and only once (`NewOnce`, `RecordedOnce`); `mu_` has one holder (`MuHeld`), so
nobody swaps or looks up ids between a scheduling and its recording (`TimersKept`); a caller at
work holds the handle's mutex and each end of the object comes after a generation that
nothing is bound in (`DoorKept`). `TimersExact` by itself is not inductive: it says nothing
of the ids a `DropPending` has swapped out or of the call in between.

*Drain.* `DrainTookAll` (`[]DrainedIsTaken`), for any workers, owners and jobs on any routes. The
invariant `DrainInv`: an item is in one mailbox, once, or with one thread (`OneSpot`); a job is
where its route says, and behind the workers its thread is the one that serves the place
(`JobsOnRoute`); the barrier is under way from the call until it is done or lost (`BarrierOnce`).
Then come the two claims. `PassedClear`: a place the barrier has passed holds no job that has not
moved since the call, since mailboxes are first in, first out, and the Critical lane goes first; of
an owner's mailbox this holds until the owners are swapped out, for the barrier goes past those and
their tasks run on. `StaysAhead`: as long as the owners are in their slots and have threads, a job
that is on its way forward behind the workers is in front of the barrier, also while its task runs,
since one thread serves the place and the task posts the next hop before the barrier's task starts.
Between the pool's lanes this fails, which is why `DrainedIsFinished` does (section 6), and with an
owner that another thread pumps, too. The barrier passes by nothing but owners that are gone from
their slots (`AimsAre`).

*Metrics.* `ScrapesAreSound` (`[]ScrapeSound`), for any observers, bounds, owners of
collectors and scrapes. The invariant: each atomic is exact between two updates
(`HistogramExact`): it counts, or sums, the observers past its update. A scrape reads one
after the other while these sets grow, so each number it has read lies between that of the
set `before` and that of the set now (`ReadingSound`), and a cumulative count adds to a
number that does. `CollectorsHeld`: only what is held is registered, and only that runs.
The sum over a set is a fold of the community modules; `SumAdd` and `SumGrows` are proved
by a smallest set (of the sets for which the claim fails) as in *Induction* below.

*Results.* `FlagIsHonest` (`[]FlagHonest`), for any results of either kind and copies that throw in
an assignment or in `static error()`, which tear the result and take it out of the claim; of
`operator->` it speaks where the result says ok. The property is inductive with the types. What a
move leaves behind and takes along is one lemma (`MovedHonestly`), the only place where `<void>`
differs.

*ManualExecutor.* `TimersInOrder` (`[]ManualOrder`, the order of what runs), for any
items, delays and nested drives. The invariant: a number is given to one item only, so a
timer that is taken is no other and no task (`ItemsOnce`); and `now` is never past a timer
that is still set. So the one with the least deadline, and the least number among equal
ones, runs when `now` is set to its deadline, and nothing armed later precedes it. A
`RunAndWait` waits for a task that is queued or has started.

*Logger.* `TreeStaysSound` (`[]TreeSound`), for any loggers, names and nodes: the tree is sound up
to the first redirect that overlaps another, or is of a node that one had left (`crossed`). The code
does not keep redirects apart, and after such a one the claim fails (section 6). The invariant is
`crossed` or `LogInv` (what has crossed stays so: `CrossedStays`): a node that was not redirected
lists each child once and is its parent (`ListsOwn`); no list in use has a node that was redirected
(`MovedUnlisted`), which left its parent's before its own children move; those still to be moved are
still its own (`RestOwn`); the nodes over the target, as far as they were searched, do not include
the one that is redirected (`SearchHolds`), so no set of nodes has all its parents in it
(`NoCircle`). Lookups may add nodes meanwhile: a new node has no children, and its parent is where
the walk was. `TreeSound` by itself is not inductive: it says nothing of what a redirect has in
hand. The way up then repeats no node, so it has at most as many steps as there are nodes.

*Induction.* What `Kept` computes for a sequence of any length is proved in
`ThreadExecutorProofs`, `CoordinatorThreadProofs` and `CommonProofs` without an induction theorem, whose
parameter would be an operator: the numbers for which the claim fails are a set, and a
smallest one (`Smallest`, from `WFMin`) contradicts the claim for the number before it.
Each holds these lemmas, on the module it is about. `CommonProofs` does the same for the
functions of a merge and of its reference (`MergeFieldsExist`, `MergeToExists`, `TreesExist`,
`OverlaidExist`), over the fields, the depth and the rank.

**Only model-checked.** All liveness. `Json` and `Wire` use `RECURSIVE` operators over trees, which
TLAPS cannot unfold; what they compute is compared with reference definitions on bounded
inputs instead.

## 6. Where the code and its comments disagree

Found by a run:
- `drain_dangling`: a `DrainWorkersThenUI` that returns at its deadline leaves its barrier
  in a mailbox. The barrier's last callable writes `done`, a local of the call that has
  returned (`AppRuntime.cpp:421-433`).
- `stand_in`: the last branch of `RunAndWait` says that nobody else runs the owner's
  state. A caller refused by the gate while it drains runs its task beside a task the
  owner accepted before. What does hold is `StandInAlone`: once the gate is closed
  after a full drain, or the owner is joined.
- `run_twice`: a task that throws leaves its wrapper to settle as dropped
  (`AppRuntime.cpp:757`), so the caller runs the task again.
- `cancel_late`: `SerialExecutor.h:26` says a cancelled timer does not run unless it
  already started; a timer that was due and moved to the queue is no longer found
  (`ThreadExecutor.cpp:48`) and runs.

Stated in the modules and refuted by TLC when checked, but in no run:
- `TeardownGate!AgainMeansQuiet`: `AppRuntime.h:89` documents one meaning of
  `QuiesceForTeardown`'s true. A second call, which finds the gate draining or closed, is
  answered from `running` alone (`AppRuntime.cpp:448`) and may be true with accepted posts
  still queued.
- `RunAndWait!ManualWaits`: with a Manual owner a pass that ran nothing is taken for a
  dropped post (`AppRuntime.cpp:762`). When another thread drains the same owner - a quiesce, a
  drain, `RunOwnerTasks` - and has taken the wrapper, the caller stands in and returns, while
  the other thread runs the task again, through a reference into a frame that may be gone.
  `RanOnce` and `NoDanglingTask` except this case by name (`stolen`).
- `Drain!DrainedIsFinished`: `AppRuntime.h:76` says that earlier work has finished; the
  barrier passes through one worker while another still runs. `DrainedIsTaken` is what holds:
  it has been taken. Not claimed there: an owner's jobs once `StopOwnerThreads` has emptied the
  slots and not yet stopped the owners (`AppRuntime.cpp:126-137`), past which the barrier goes; and
  that a Manual owner's job has ended, since another thread may be running it.
- `Json!SignedRejected`: `Value.cpp:361` means to refuse signed numbers, and looks at the first
  character only; " -2" wraps. It also reads no further than a NUL (`Value.cpp:355`, `:368`),
  whatever follows.
- `Json!DumpAlwaysParses`: repaired keys may become equal, a subnormal double is not read back
  (`Json.cpp:167`).
- `ManualExecutor!ClockForward`: an `AdvanceBy` inside a timer's task moves the clock past
  the outer end, to which line 78 sets it back.

Seen while modelling, not given a run of their own:
- `ReopenAfterTeardown` during a quiesce: the call goes on, closes the gate of the new epoch and may
  return true over work that was posted since (`overtaken` in `TeardownGate`).
- `FsyncDirectory` drops its errors (`AtomicFileWrite.cpp:127-134`), and the entry of a directory
  that `create_directories` has made (`:195`) is in another one, which nobody syncs (`:215`); so a
  durable write may answer ok over a name that is not on disk. The refinement is stated for the
  others (`unsynced`).
- A JSON text that is one number is, cut short, another number, and is read as that
  (`Json.cpp:552-612`); every other text that lost its end is refused.
- `ManualExecutor::RunAndWait` behind a task that throws leaves its wrapper, with a reference to the
  caller's task, in the queue.
- `ResultOrError`: a copy that throws during an assignment, or in `static error(const E &)`
  (`ResultOrError.hpp:55-60`, `:204-209`), leaves the flag over raw storage (`torn` in `Results`);
  `operator->` does not look at the flag (`:156-168`); a moved-from failed `ResultOrError<void>`
  reads as ok.
- `Logger::redirectTo`: two opposite redirects at once can make a cycle, a second redirect of a
  detached node gives its children two parents (both after `crossed`), a child made meanwhile is
  lost, and the header says the node itself is re-parented.
- `RuntimeOwnerExecutor`'s hooks outlive it; a child `OwnerOutbox` calls its parent's `emit`
  unchecked; `DrainWorkersThenUI` runs the UI mailbox on whatever thread calls it;
  `TestLane::RunAndWait` takes a pass that ran nothing for a dropped post.
- `RunAndWait` refused by an executor that is stopping runs beside its running task, although
  `SerialExecutor.h` says "nothing runs here any more". `RestAfterStop` is stated for the callers
  that `Stop` itself drops.
- `OwnerThread.h:38` promises one task at a time; a Manual owner drained by two threads, or from
  inside a task, does not keep that. The refinement claims `serial` for Dedicated owners only.
- `OwnerThread.h:50`: a second `Stop` returns at once, before the first has joined.
- `CoordinatorThread.h:40-43` says a schedule call before `Start` returns 0; it returns an id and
  the timer is kept.
- `CoordinatorThread.cpp:31`: a second `Shutdown` after a detach answers true though the thread may
  still run.

## 7. Not modelled

- *Utilities* (`Utilities.cpp`, `CivilTime.h`): string and date conversions, random bytes.
- *UI mailbox*: `Pause`, `Stop`, `HasPendingTasks` of `SequencedTaskRunner`; its queue and
  the drain are the UI place of `Drain`.
- *Runtime lifecycle*: `Initialize`, `Shutdown`, the shutdown watchdog, the test lanes.
  `g_thread_runtime` is read without a lock, so an application has to serialise them with
  its posts, and a model would only restate that.
- *Facades*: after-task hooks, `IsCurrent`, and `OwnerSteps`, whose continuations are
  calls of the modelled handle.
- *Logger*: handlers, levels, the emit floor, formatting. *Metrics*: counters and gauges,
  which are one atomic each, and the text format.
- *Data*: digits of numbers, but for where a text may end inside them and for numbers kept in
  strings; layout of texts; allocation.

In the modelled components: captures and their destructors (so neither "a destructor that
posts deadlocks under the lock", `WorkerPool.cpp:90`, nor a destructor that outlives a
drained quiesce), thread names, exceptions of tasks elsewhere than in `RunAndWait` and
`ManualExecutor`, weak memory orders (`live_workers` and `thread_exited_` are released
by the last store of a thread and acquired by the joiner; the histogram's atomics are
relaxed, and modelled as if they were not; everything else is under a mutex or sequentially
consistent), concurrent `Shutdown` of a pool and concurrent restarts of the coordinator,
which the code leaves to one caller.

## 8. Plan

What would come next, in order; a module is added with its run, its mutants and, where
noted, its proof.

1. *Proofs.* `Wire` and `Json`, with the recursion over types and values as recursive
   functions of their depth, as `DeepMerge` has it.
2. *Runtime lifecycle.* `Initialize` and `Shutdown` with the watchdog; a self-posting
   Manual owner under a quiesce; captures whose destructors post.
3. *OwnerSteps* and the hooks over `OwnerTasks`; `Pause` and `Stop` of the UI mailbox.
4. *Metrics* with relaxed atomics; what is left of the logger tree once redirects overlap.
