# A verification project for ufo-core

ufo-core runs image processing pipelines: a user connects *tasks* (readers, filters, writers, loaded as
plugins) to a *task graph*, and a *scheduler* executes the graph with one thread per task, on data held in
*buffers* that live on the host or on a GPU. This directory holds TLA+ specifications of that machinery,
configurations that check them with TLC, and proofs checked by TLAPS. Every definition is written from the
sources, most of them C under `src/ufo`; file names below are relative to that directory unless they say otherwise.

## 1. Inventory

| Component | State | Operations | Talks to |
|---|---|---|---|
| two-way queue (`ufo-two-way-queue.c`) | two asynchronous queues, number of buffers inserted | insert, pop and push on either side | owned by a group, or by an edge of the other schedulers |
| group (`ufo-group.c`) | targets, one two-way queue each, send pattern, current target, items received | pop and push output, pop and push input, finish | pushed to by one task thread, popped from by its targets' threads |
| task node (`ufo-task-node.c`) | lists of in-groups with a current position, send pattern, expected items, processing node | add, switch, get in-group; reset | read by the thread of the task, filled by the set-up of a run |
| default scheduler (`ufo-scheduler.c`) | per thread: inputs, finished flags, output; shared: `aborted`, `ran` | run, abort; `run_task` in four modes | calls the task interface, groups |
| fixed, group, local schedulers | variants with queues connected by hand, with groups of copies of a task, with a queue per edge made on the fly | run, (abort) | two-way queues |
| base scheduler (`ufo-base-scheduler.c`) | resources, properties | run (checks the graph, starts tracing), abort, set and get resources | the virtual methods of a scheduler |
| graph, task graph (`ufo-graph.c`, `ufo-task-graph.c`) | lists of nodes, labelled edges, copies, nodes read from JSON | connect, remove, neighbours, longest path, expand, map, JSON | schedulers, command line tools |
| buffer (`ufo-buffer.c`) | host array, device array, image, location of the valid one, whether the host array is owned | get in one of three places, copy, resize, swap, lend, discard, convert | tasks, groups, operations |
| basic operations (`ufo-basic-ops.c`) | one mutex per C function; kernels of the resources | twelve element-wise operations | resources, buffers, command queues |
| input and output task | two queues and a pending buffer | hand buffers from and to an application thread | application thread, scheduler thread |
| resources, processing nodes | platform, devices, search paths, program and kernel caches | selection, kernel lookup | schedulers, tasks |
| plugin manager (`ufo-plugin-manager.c`) | search paths, open modules, constructors | get task, get task from package, get all names | JSON reader, tools |
| profiler, `ufo-priv.c` | timers, event list, trace events | start, stop, call, foreach | task interface |
| command line tools (`bin/`) | parser position, graph | parse a description, run a graph | graph, plugin manager, schedulers |
| Python binding (`python/ufo/__init__.py`) | shared environment with graph and the flags `done`, `started`; queue of results | feed arrays, run, iterate | input and output tasks, scheduler, in three threads of its own |
| MATLAB binding | table of handles, asynchronous runs | wrap the above | schedulers, graphs |

Behaviours that are hard:

* *Interleaving.* The threads of a run share nothing but queues, and buffers carry no locks. That nobody
  writes to a buffer another thread reads rests on the buffer being in exactly one place at any time. Kernels
  are shared by all threads and remember their arguments.
* *Blocking.* Every pop blocks and no pop has a timeout. Edges are bounded by the buffers that circulate on
  them, so any task that leaves early, or waits for a branch that waits for it, stops the whole run.
* *Order.* Duplicated tasks run at their own pace; the order of items survives only by the turn in which
  they are served and read, and that turn is a side effect of how lists are built.
* *Ends.* Streams are closed in band. Inputs may end at different times, sub-streams are closed by counting,
  and a reductor's stream ends before its output starts.
* *Partial failure and abort.* One task fails while all the others go on; abort is a flag the threads poll;
  a run may be given up half way through its set-up, and the next run starts from what is left.
* *Stale state.* Graphs, mappings, in-group lists, kernels and constructors outlive a run; a buffer has three copies of
  its data.

What makes each component correct: an edge delivers what was sent, once and in order, and is bounded; a
buffer has one owner; the inputs of a task are paired item by item; a task sees the items of a duplicated
predecessor in the original order; a run ends when its tasks do what their modes ask for, in particular
after an error; an aborted run ends; a buffer that is read in one place shows the last write in another;
expansion of a graph changes nothing its user can observe; a run uses the GPUs, kernels and groups of this run; whoever asks for a
kernel, a task or a graph by name, file or description gets that one.

## 2. Modules

| Module | Models | Notes |
|---|---|---|
| `TwoWayQueue` | `UfoTwoWayQueue` | all queues of a run, indexed; the n-th buffer inserted into `q` is `<<q, n>>` |
| `Group` | `UfoGroup` | send patterns as actions; adds contents of buffers and histories |
| `Scheduler` | threads of `UfoScheduler` (`run_task`, `get_inputs`, `release_inputs`), in-group rotation, abort | `EXTENDS Group` |
| `Stream` | abstract: what an edge promises | implemented by every edge, property `StreamSpec` |
| `FixedScheduler` | threads of `UfoFixedScheduler` (`generate_loop`, `process_loop`, `reduce_loop`) | `EXTENDS TwoWayQueue`, one queue per connection |
| `GroupScheduler` | `run_group` and the queues `build_group_graph` makes | `EXTENDS FixedScheduler` for its state and properties |
| `LocalScheduler` | `run_local` and the wiring of `setup_tasks` | `EXTENDS GroupScheduler` |
| `InputTask`, `OutputTask` | `UfoInputTask`, `UfoOutputTask` | the calls of the application and the functions of the task, as actions |
| `PythonBinding` | feeder, runner and main thread of a pipeline that is iterated over from Python | `EXTENDS Scheduler`, `INSTANCE`s the two above |
| `TaskGraph` | graph: editing, neighbours, JSON, expansion, mapping, wiring of groups, as pure operators | |
| `Launch` | the parser of `ufo-launch`, and what a description means | `EXTENDS TaskGraph` |
| `Resources` | platform and device selection, search paths, programs and kernels with their caches | pure operators on one object |
| `Session` | an application: builds graphs, asks for kernels, sets up runs, one after the other (`ufo_base_scheduler_run`, `ufo_scheduler_run` without its threads, `ufo_task_node_reset`) | `EXTENDS Launch, Resources` |
| `PluginManager` | `UfoPluginManager` | GModule is external |
| `Buffer` | `UfoBuffer`: locations, transfers, ownership | |
| `BasicOps` | `ufo_op_*` and the lookup of cached kernels, by several threads | |
| `MCPipeline`, `MCGraphs`, `MCFixed`, `MCPython`, `MCBuffer`, `MCSession` | instances for TLC | constants and graph-specific properties; `MCSession` composes `Session` with `PluginManager`, `MCBuffer` puts `Buffer` next to `BasicOps` |
| `SchedulerProofs`, `SchedulerStreamProofs`, `SchedulerRunProofs` | proofs about `Scheduler`, each building on the one before | section 4 |
| `PythonProofs` | proofs about `PythonBinding`, on top of those about `Scheduler` | section 4 |
| `FixedSchedulerProofs`, `BasicOpsProofs`, `BufferProofs` | proofs about `FixedScheduler`, `BasicOps` and `Buffer` | section 4 |
| `SequenceFacts` | lemmas about sequences as queues and histories | shared by the proofs about schedulers |

### Threads and queues

**State.** `free` and `full` are `producer_queue` and `consumer_queue`; the names follow what is in them.
A thread of `run_task` is a program counter and its local variables under their own names (`inputs`, `finished`,
`out` for `output`); `cur` is the position of `current[]` in the in-group list. `get`, `reget` and `flush`
are the three call sites of `get_inputs`, and `release`, `rerelease`, `flushrelease` those of
`release_inputs`. `sent`, `got`, `log`, `held` and `stopped` are histories that no action reads in a guard.

**Grain.** One action per step that can block or touches a queue: a single `g_async_queue_pop` or push, or the
straight-line code between two of them. Two places put several pushes in one action: the last item of a
sub-stream with its end marker, and the end markers of `ufo_group_finish`. No other thread pushes to these
queues and the pusher cannot block between the pushes, so a consumer that sees the first before the second is
indistinguishable from one that is slower. In `pop_or_alloc_buffer` the insertion and the pop are one
action for the same reason: only the producer inserts and pops. A pop that would block is an action that is not enabled.

`FixedScheduler` and the modules that extend it have a coarser grain: an action goes from one pop, or one reading of `aborted`, to the
next, with the processing and the pushes in between. No push blocks, each side of a queue has one thread that pushes and one that
pops, and these can only tell a batch of pushes from single ones by their own speed. The pop of an output and what fills it
stay apart, so that `Exclusive` sees a buffer while it is filled. A group of `GroupScheduler` has one thread whatever its size, so it counts as
one task.

**Contents.** A buffer holds a tag: the number of the generated item, which a processor copies from its first
input to its output. That is enough to tell lost, repeated, reordered and mixed items from the right ones.
A task also writes to its output buffer when it does not push it: `process` that returns FALSE and `generate` that returns TRUE in
an aborted run leave an item there that is dropped (`NoMore`), and a reductor works in the buffer while it reads (`Accumulate`, tag 0).
Where the data of a buffer are is left to module `Buffer`.

**The functions of the tasks** are left open: `generate` returns TRUE between `MinItems` and `MaxItems` times,
`get_requisition` of the tasks in `MayFail` may set an error, `process` of those in `MayStop` may return
FALSE. They always return. The check `strict` of dimensions in `get_inputs` is not modelled since
`setup_tasks` sets it to FALSE and nothing changes it.

**Undefined behaviour.** `inputs` in `run_task` is an array that is never initialised. `NoBuffer` stands for such
an element. The graphs that are checked give every input an item before another one of the same task goes on
alone, so no step reads it; a run in which a sibling input ends empty is outside of what the models claim.

**Wiring.** `InQueues` and `Targets` are constants. `WiringAssumption` says what `setup_groups` establishes when
every input is connected: an input is fed by groups in which its task is a target, and no two inputs read the
same queue. `MCGraphs` states, as an assumption TLC evaluates, that the wiring of its first graph is what
`ufo_task_graph_expand` and `setup_groups` make of the graph `read -> filter -> write` with two GPUs, as the
operators of `TaskGraph` compute it from the order of the edge lists; `MCFixed` does the same for `build_group_graph`.

**Applications.** In `PythonBinding` a step of a task thread is a step of `Scheduler` joined with what the task's own
function does: `Proceed` of an input task with `get_requisition`, which takes a buffer or blocks, `Generate` with the copy of its
contents, `Process` of the output task with its copy, `Stop` with the handler of `inputs_stopped`. The handler of `processed` runs in
the thread of the output task before the inputs are released. Three more threads are those of
`python/ufo/__init__.py`: `input_data`, `run_scheduler` and the iteration itself; each access to a variable or queue they share is
an action. The second kind of consumer, `loop`, takes the buffers with `get_output_buffer` until it returns NULL, as
`docs/manual/devel.rst:180-185` describes it. `filled` is the array a buffer of an input task shows now: buffers do not own the memory
of NumPy arrays (`set_host_array` with `free_data` FALSE), so it becomes 0 when the last reference to the array goes. `KeptBy` says who
holds that. The graph is read in one step of the runner: if an input is not connected by then, what the run
does is undefined (`Broken`, mostly a failed assertion) and the model stops.

### Sessions

`Session` is one thread of calls, so an action is a whole function of the library, except that a run is taken apart: `Start` is
`ufo_base_scheduler_run` and `ufo_scheduler_run` up to the mapping, then the tasks are set up one by one, `SetupGroups` wires
them, and `Finish` resets the nodes when the threads have been joined. A set-up that fails leaves everything as it is
(`FailSetup`). `built` is a history: the graph as it would be if no scheduler had expanded it. The group of task `n` in run `i` is
`<<i, n>>`, so that a group of an earlier run can be told from one of this run. `refs` counts references to resources; an
object whose last reference goes is gone with its kernels.

Graphs are records of two lists. The order of the lists is kept because the code's results depend on it: `Successors` is reversed and
`Predecessors` is not, as prepending and appending in `ufo-graph.c` makes them. Of several longest paths on GPUs the code picks
one by the order of addresses in a hash table: `Expansions` is the set of possible results.

`Launch` translates the recursive descent of `bin/ufo-launch.c` into functions of a parser state with an explicit position and outcome
("hangs" where the C loop makes no progress). `Edges` and `Properties` are the reference: what a description, given as a
tree, means. `Description` writes a tree as tokens, with a choice where to put spaces.

In `Resources` a source is a model value with the kernels in it and the devices it compiles on. `PluginManager` tells apart of a name only the separators,
which is what the code's two transformations of names depend on; a library is a model value with its exported functions.

### Buffers and operations

In `Buffer` the memory at a place is its number of elements, whose data it holds and whether it was lent; `written` is a history, what the
user of the buffer believes to be in it. `faults` collects transfers from or to memory that does not exist or is too small, or without a
command queue. `Convert` takes the raw pixels apart byte by byte: `Source` says from which bytes pixel i is made and `Rounds` in which order the loops
of `convert_data` go; a pixel made from bytes that were overwritten counts as lost.

`BasicOps` has one action per call to OpenCL: a kernel object keeps one value per parameter, set by name of the caller's
argument. Its static mutexes are those of the C functions, `operation`, `operation2` and one for each of the others.

**Faulty variants.** A definition whose name extends the name of the definition that follows it (`GrownByOneTooMany`
before `Grown`) is what a plausible slip in the code would make of it. No specification uses them; replacing
the right one by the variant violates the property listed with it in `PROJECT.json`, which shows that the
property depends on the code.

## 3. Runs

| Run | Instance and bounds | Properties |
|---|---|---|
| `pipeline` | read → filter → average → write; 0–3 items, the reductor generates 0–1 per pause; read, filter, average may fail, filter, write may stop, abort at any time | `TypeOK`, `Exclusive`, `InputsIntact`, `ReductorReadsAll`, `StreamSpec`, `Termination` |
| `graphs` | one of four: read scatters 0–4 items to two copies of filter, write gathers; camera broadcasts 0–4 items to blur and correct, correct also reads blur and may fail; scan sends 2 of 3–6 items to average, the rest to divide, which also reads the 1–2 means that average makes; feed → stack → store with 0–3 items, where the reductor stack may pause its input to generate | `Exclusive`, `InOrder`, `NothingLeft`, `NoHang`, `InputsAligned`, `BrokenUp`, `StreamSpec` |
| `abort` | the pipeline without stops | `AbortStops` is violated |
| `notify` | the pipeline without stops | `NotifiesStop` is violated |
| `fixed` | fixed scheduler: read → copy → {correct, average → write}, dark → correct; 1–2 items of read, one of dark; read, average, write may fail, copy, write may stop, abort at any time. Group and local scheduler: left → sum → mix → view, right → mix; 0–3 items of left and right, mix may stop. Every order in which the local scheduler may set up its five tasks | `Exclusive`, `SameData`, `InputsAligned`, `NoHang`, `StreamSpec`, `LocalEndsMeet` |
| `fixed_empty` | the fixed scheduler, 0–1 items of read, no failure, stop or abort | `NoHang` is violated |
| `python` | two iterables of 0–2 arrays → subtract → application of either kind; subtract may fail; first pipeline of the process, arrays kept by the caller | `Delivered`, `FedIntact`, `IterationEnds` |
| `python_again` | the same, no failure, after an earlier pipeline | `Delivered` is violated |
| `python_arrays` | the same, no failure, arrays kept by the list that was passed only | `FedIntact` is violated |
| `buffer` | two buffers, two values, three sizes (2x2, 3x1 and 5x1 elements, the first two of which are confused), the three largest profiles of operations that do not combine what the code does not stand; or two threads that call one of the twelve operations each | `HoldsLastWrite`, `NoBadTransfer`, `Fits`, `OwnsHost`, `LaunchedAsCalled` |
| `session` | four task names, up to four edges, one CPU and three GPUs, two schedulers, two resources objects, two plugin managers; eight profiles, below | `NodesOnEdges`, `RoundTrip`, `LaunchBuilds`, `ExpansionFits`, `TurnsMatch`, `SpreadOverGpus`, `GroupsOfThisRun`, `GpusOfThisRun`, `RunsEquipped`, `KernelFits`, `BuiltForAll`, `PluginFits` |
| `buffer_sizes` | the instance of `buffer` | `NoOverrun` is violated |

What they show of the threads of a run:

* `Exclusive` and `InputsIntact`: no lock is needed on a buffer, since at any time it is idle, being filled, in
  flight or being read, and its reader finds what was in it when it was popped. `Exclusive` is stated for the queues of inputs that
  are not *outlived*, that is, have not ended while another input of the task goes on: `release_inputs` returns the last
  buffer of such an input again in every later round, so that the queue does hold it more than once. `InputsAligned` shows
  this to be harmless: the producer has left the queue as well, nobody pops or overwrites the buffer, and every later call still finds
  the last item in it. The exception is a producer that wrote to the buffer before it left but did not send it (`WrittenBehind`): in an aborted
  run, one whose `process` returned FALSE, and a reductor that reads on after it has generated. Then the calls behind the last item of that input
  see what was written; the calls up to it are right in any case. An input without any item has nothing to align, its buffer was never assigned.
* `StreamSpec`: the edge `q` implements the abstract stream, with the histories of both ends for the variables of
  `Stream` and one buffer more than the group has targets for its bound. Two kinds of edges are exempt. One is *cut off*: an input of
  several queues ends with the first end marker from any of them, and its reader turns away from the others. The other leads from a
  sequential group that *wraps*, because all its targets expect a number of items: after the last target it serves the first
  again, behind its end marker (the `FIXME` at `ufo-group.c:178`).
* `InOrder` and `NothingLeft`: duplicating a task is invisible to its reader. One end marker finishes an input,
  whichever of the copies it comes from, and still no item is left in the queues of the others.
* `BrokenUp`: the sequential pattern gives a target its expected items, and a reductor that stops early does
  not shift what the others get.
* `ReductorReadsAll`: a reductor that never pauses sends nothing before the end of its input.
* `Termination`: every thread of a run ends, unless somebody aborts or some `process` returns FALSE while its input goes
  on. It holds when `get_requisition` fails, although then one buffer of every input is never given back: the
  drain passes because there is one buffer more than targets. `NoHang` is its safety form for the larger graphs: as long as
  some task has not left, one of them does not wait for a queue.
* `abort`: with either exemption dropped it fails. The trace aborts while a consumer holds a buffer; the consumer
  leaves without releasing it, the producer is already in `ufo_group_pop_output_buffer` and stays there, and
  `g_thread_join` never returns.
* `notify`: after an error `run_task` drains its inputs but does not call `ufo_task_inputs_stopped_callback`, on which
  `docs/manual/devel.rst` has listeners rely.
* `fixed`: with a copy task in front of two branches both get the same items (`SameData`), as
  `docs/manual/using/execution.rst:43-47` promises, although `process_loop` serves them one after the other and may block in
  between. Exempt from `NoHang` are aborted runs, those where a `process` returned FALSE before the end of its input, those where a
  generator failed, whose stream may be empty, and a reductor whose successor fails: a reductor inserts one buffer only, a failed task never returns the one
  it holds, and the reductor waits for it for ever. `LocalEndsMeet`: whatever the order of the hash table of nodes, producer and
  consumer of an edge find the same queue.
* `fixed_empty`: `reduce_loop` returns without end markers when its stream is empty, and `write` waits for ever.
  The default scheduler sends them, and `NEWS:325` says "Use same reductor policy for both schedulers".
* `Delivered`: results come in order, each one before the output task reuses its single copy, and all of them before the
  iteration ends. `FedIntact`: an array is neither replaced nor freed between `get_requisition` and the copy in
  `generate`. `IterationEnds`: the application is not left waiting; the one case exempted is a failed run under
  `items`, where `run` raises in its thread, `done` is never set and the iteration polls for ever.
* `python_again`: `done` is still TRUE from the run before; the iteration tests it before `run_scheduler` clears it and
  returns nothing.
* `python_arrays`: the feeder has released its last buffer and the pill and ends; its list is freed while the array is still to be copied.

Of buffers and operations:

* `HoldsLastWrite`: whoever asks for the data in one of the three places gets what was written last in any of them, across copies, swaps and
  conversions. `NoBadTransfer` and `Fits`: although a resize drops the memories and leaves the location as it was, no transfer uses memory
  that is gone, all places of a buffer have the size its requisition says, and no transfer meets memory that is too small but a copy to a
  smaller buffer whose size is mistaken for that of the source (`Mistaken`). `OwnsHost`: the flag `free` follows the array.
* `buffer_sizes`: that case does occur. `ufo_buffer_cmp_dimensions` adds up the differences of the dimensions, so that 2x2 and 3x1 count as equal, although
  its comment and that of `ufo_buffer_resize` speak of the same size (`ufo-buffer.c:775` and `:819`). A copy from one to the other does not resize the
  destination and moves all data of the source.
* `LaunchedAsCalled`: the mutex of a C function is enough to keep the arguments of a launch together, because no kernel
  is launched by two functions; and each argument is set where the kernel in `ufo-basic-ops.cl` declares it.

Of sessions, by profile (`Graphs`, `Files`, `Launches`, `Reruns`, `Twice`, `Failures`, `Kernels`, `PluginUses`):

* `Graphs` runs every graph of four tasks and up to four edges: expansion keeps all edges and adds only copies of edges with the same input
  (`ExpansionFits`), collectors read the copies in the turn in which they are served (`TurnsMatch`), copies run on different GPUs
  (`SpreadOverGpus`).
* `Files` edits, saves and reads graphs: `NodesOnEdges`, `RoundTrip`.
* `Launches`: 665 descriptions with nested brackets, arrays and properties, each with eight choices of spaces, give the graph they describe (`LaunchBuilds`).
* `Reruns`, `Twice`, `Failures`: the state that outlives a run is right for the next one: `GroupsOfThisRun`, `GpusOfThisRun`,
  `ExpansionFits`, `TurnsMatch`. In `Twice` two schedulers expand one graph, in `Failures` a run that is given up leaves a graph that the next one
  expands again: its tasks may then be there more often than there are GPUs, but they are connected and served as they should be. And a run whose caller asks for errors starts only with all kernels there (`RunsEquipped`).
* `Kernels`: files change, directories are added, programs fail on one of the devices: `KernelFits`, `BuiltForAll`.
* `PluginUses`: plugins are installed, replaced, broken and deleted while two managers are asked: `PluginFits`.

*Bounds.* An edge has two buffers (three for broadcasts and sub-streams): three or four items are enough to reuse each buffer and
to meet an end marker with full and with empty queues. A longer stream only repeats
these states. The input and the output task have one buffer each, so two arrays make every reuse happen, and lengths 0 to 2 every
order of ends. In `fixed` a generator takes one buffer more than it has items, since only then `generate` returns FALSE: with two items
the first buffer is used again. Two copies are enough for the turns of producer and reader to disagree, and three GPUs for a turn to be more than a
reversal. The graphs together contain every mode, every pattern, one and two inputs, and one and two in-groups. Two threads are enough for
`LaunchedAsCalled`, which is a property of pairs, and two buffers for what a copy or a swap does; both are proved for any number. A session is bounded by how often each operation may be used (`left`); the profiles
give each hazard the two or three operations it takes.
Deadlock is checked in `graphs` and `python`; `pipeline`, `fixed` and the violated runs of both switch it off, since aborted and stopped runs really
block, and so do `session`, where an application stops when its operations are used up, and `buffer` and `buffer_sizes`, where each thread calls one operation.

*Profiles exclude what the code does not stand*; section 5 lists each case.

*Fairness.* `Termination` and `IterationEnds` assume `WF_vars(Run(t))` for each thread: the operating system runs every thread that can run, and a
blocked `g_async_queue_pop` returns once there is something to pop. The queue a pop waits for has no other
consumer, so an enabled pop stays enabled and weak fairness is enough. Abort is under no fairness. `PythonBinding` adds the same for
the feeder, the runner and main; its sleeping loops are guards (feeder) or steps that change nothing (main). That the functions of the tasks
return, and that `generate` ends its stream, is assumed (`MaxItems`). The other runs are about safety and need none.

## 4. Proofs

The proofs about `Scheduler` are for every graph, every wiring that satisfies `GroupAssumption`, `SchedulerAssumption` and
`WiringAssumption`, every pattern, any number of items, failures, stops and aborts. They form a chain of invariants, each used by the next:

| Invariant | Adds | For |
|---|---|---|
| `TypeInv` | `TypeOK`, and where a thread may be given its mode (`Positions`) | `TypeCorrect`: `Spec => [](TypeOK /\ Positions)` |
| `ReductorInv` | what a reductor knows once it has left its reading loop | `ReductorCorrect`: `Spec => []ReductorReadsAll` |
| `IInv` | whose buffers a queue holds (`QueueInv`), what a thread holds and reads (`TaskInv`), the places of a buffer exclude each other (`Apart`) | `ExclusiveCorrect`: `Spec => []Exclusive` |
| `AllRead` | what is read is what arrived last | `InputsIntactCorrect`: `Spec => []InputsIntact` |
| `SInv` | an input is finished exactly when an end marker was read from it (`EndInv`), sub-streams were closed in turn (`Closing`), what was sent is what has arrived and what is in the queue (`StreamInv`) | `StreamsCorrect`: `Spec => StreamSpec` |
| `LInv` | how many items were read in how many calls, and what the last buffer of an input holds (`InputPaired`); that a task which asks for an output buffer has input left (`Unfinished`) | `InputsAlignedCorrect`: `Spec => []InputsAligned` |
| `HInv` | no buffer of a queue is lost (`Conserved`), what a task holds of an input (`Kept`), tasks that have left sent their end markers (`EndSent`) | `NothingLeftCorrect`, `NoHangCorrect` |

* `TypeCorrect`. `TypeOK` alone is not inductive: that a pop from a group yields a buffer
  of an existing queue needs that `current[t]` is a target and that a task which pops has targets at all, and that the copying
  loop of a broadcast stays within the targets. These facts are `Positions`. Each
  action has a lemma that it preserves `TypeInv`; the operations of the group have typing lemmas of their own, cited by the
  actions that call them. The bound of buffers per edge, `capacity[q] <= Limit(q[1])`, is part of `TypeOK`.
* `ReductorCorrect`. The invariant adds where a reductor is when it has inputs
  left, and that it can only come to its generating loop with all inputs finished, or aborted and then without output.
  Three facts carry the step: only the task itself writes `sent` of its queues, only its pushes put items there, and
  `finished` never goes back to FALSE.
* `ExclusiveCorrect`. A pop for output takes a buffer from the free side, so `Apart` must know that this one is nowhere else: not in
  flight, not held by a reader, not being filled by another task. Behind an outlived input the free side holds stale
  pointers, also to buffers of the *other* queues of that input (`cur` moves on with every release): `Reach` says which, and
  that no open queue is among them is what keeps the damage there. That a task gives a finished input back only while another one goes on is the
  last conjunct of `TaskInv`.
* `InputsIntactCorrect`. A thread writes to its output buffer, or to the copy a broadcast makes (`WrittenTo`); by `Apart` neither is held by a reader.
* `StreamsCorrect`, the refinement of `Stream`. Each step does one of four things to a queue (`RunMoves`): nothing, an end marker, a pop, a push. What
  is on its way keeps its contents (`ContentsKept`, again from `Apart`), a producer that has sent an end marker has left the queue behind
  (`LeftBehind`), and a push has room because the buffer that is pushed is not among those in flight, of which there are at most `capacity` (`RoomForOne`).
* `InputsAlignedCorrect`. The hard case is an input that has ended: its buffer was released long ago and lies on the free side of a queue
  whose producer may still run. `LastRead` says that it holds the last item unless it has got a new one that is on its way (`Refilled`);
  once the end marker was read there is none on its way and the producer does not come back (`NotRefilled`). A producer writes without sending
  only in the three cases of `WrittenBehind`; that a reductor which never pauses is not one of them needs `ReductorInv`, and
  that a processor which stops counts as one needs `Unfinished`.
* `NothingLeftCorrect`, `NoHangCorrect` assume `Plain`: every input has one queue, and none of these wraps. With several queues per input
  the property depends on the turns of all tasks in between, which TLC checks on the first graph of `graphs`. `NoHangCorrect` also assumes `Forest`: between the
  tasks of any set there are fewer edges than tasks. Where branches meet again a broadcast and a join may really wait for each
  other (section 5), so some hypothesis is needed; the diamond among the graphs of `graphs`, which does not hang, stays with TLC. The proof counts: in a state without a possible step each
  task that has not left waits for a queue whose other end has not left either (`ReadsFromLive`, `FillsForLive`), and no queue has
  both its ends waiting for it (`EndsMeet`): its side is empty for both, so all of its buffers, two at least, would be held by the reader, and that holds
  at most one which it does not read now, the one it kept after an error. So there are as many edges among these tasks as tasks.

`PythonProofs` proves for every application that satisfies `PythonAssumption` besides (`input_data` makes a new input task for each of one or more arguments;
neither these nor the output task can fail or stop), whatever its graph, for both kinds of consumers and iterables of any length:

* `PyRefines`: `PySpec => Spec`. A step of a task's thread is a step of `Scheduler`, any other leaves its variables alone. Hence all invariants above hold here
  and may be used.
* `FedIntactCorrect`: `PySpec => []FedIntact` if `KeptBy = "caller"` (`python_arrays` shows what happens otherwise). The buffer of an input task goes
  round between the feeder and the task. `RunnerInv` says how the three threads of the application stand to each other (before the run starts no task has moved and main has nothing;
  when the feeder was too slow, nothing ever runs), `FeedInv` where that buffer is and that the number of items the task has made is the number it was given, less
  one if it still has the buffer (`Fed`), `FilledInv` that the buffer shows the array the feeder released last. The feeder serves several tasks in turn, so
  those before `turn` are one array ahead (`Released`).
* `DeliveredCorrect`: `PySpec => []Delivered` if `Earlier = FALSE` (`python_again` shows what happens otherwise) and for graphs that satisfy `Delivering(N, S)`:
  N are the connections on the way from the input tasks to the output task, each the only queue of its input, which does not start over, and not shared
  by several targets; the tasks on the way are processors whose `process` does not return FALSE; one with several inputs
  reads only connections of S, above which nothing may fail. The last part is needed: a processor ends with the last
  of its inputs and goes on with the last item of one that ended early, so that its results would be neither complete nor the ones of the arrays.
  The graph of the run `python` satisfies this with all its connections for N and those of the input tasks for S. The argument has two
  halves. `HandInv`: what the output task was called with is what main has, then what is in the queue of results, then what is in the one copy that the
  task lends out (`Fresh`); main takes the end for the end only when the thread of the task is done and both are empty. `WayInv`: the k-th call
  of each task on the way is called with item k (`Numbered`), what it has sent are the items 1 to the number of its calls and then an end
  marker (`Sends`), and without a failure above it ends after `length` calls. Its step for a task that reads several inputs needs `LInv`: the k-th call reads the
  k-th item of each (`ArrivesInOrder`).

`FixedSchedulerProofs` proves for every graph that satisfies `FixedAssumption` (each queue has one producer and one consumer, modes agree
with the numbers of inputs and outputs, a reductor has one successor), any number of items, failures, stops and aborts:

* `FixedExclusive`: `Spec => []Exclusive`. The invariant `IInv` says for each task where its thread may be (`Position`), that what it
  reads comes from its inputs (`Owned`), that an input is finished exactly when its end marker was read and that no marker
  is on its way before the producer has left (`Ends`), and that what it fetched in this round is still its own unless the
  input ended (`Fetching`); `Apart` says that the places of a buffer exclude each other. `Exclusive` alone is not inductive. A pop of an output must know that the buffer it
  inserts was nowhere before, which `capacity` and the types give; a release of inputs gives the buffer of a finished input back a second time, which is
  harmless only because that connection is closed, which needs `Ends` and `Fetching`.
* `FixedStreams`: `Spec => StreamSpec`, the refinement of `Stream` by every connection. `Carries` adds that what was sent and not yet received is
  what is in the queue, in order and with these contents. Data changes only in a buffer that a task fills, and such a buffer is not in flight
  (`FilledNotInFlight`, from `Apart`), so contents survive. Each action does one of four things to a queue (`RunTransfers`): nothing, `Send`, `Close`
  or `Receive`. That `Send` has room follows by counting: a connection has at most two buffers and the one that is pushed is not queued yet (`RoomToPush`).
* `FixedSameData`: `Spec => []SameData`. `DInv` says of each processor that there are a common history, an item and a position such that the
  successors before the position have got the item behind the history and the others the history alone (`CopiedUpTo`). While the task serves them, the position is the
  successor it is at and the item what its first input holds; the step that matters is the next push, where the input must still
  hold that item although other threads have run since the push before (`InputKept`).
* `FixedInputsAligned`: `Spec => []InputsAligned`. `RInv` adds what is known of ends: an end marker is the last thing in a queue (`EndLast`), a task that asks for an output
  buffer has input left (`Unfinished`), and a reductor that does not pause sends nothing before it has read all (`ReadsAll`). `AInv` counts for each input
  how many items were read in how many calls (`InStep`), says what its last buffer holds (`LastRead`) and what the calls got (`Logged`). As with the
  default scheduler the hard case is an input that has ended, whose buffer its producer may have popped again. The property is stated for tasks with at most one successor, since
  with several of them each item is processed once per successor; there `FixedSameData` says what matters.
* `FixedNoHang`: `Spec => []NoHang`, for graphs that are `Wired` (every connection has two ends) and a `Forest`, and for a set F of connections that is `Supplied`:
  a generator that writes one of F generates an item for each of its successors, other tasks that do read one of F themselves and do not fail, reductors
  among them generate once at least, and every reductor of the graph reads one of F. The last part is what keeps out the case of
  `fixed_empty`, in which a reductor leaves without end markers; the run `fixed` satisfies it with all connections but that of average for F. Two invariants carry the proof. `HInv`: no buffer
  is lost while its producer goes on (`Conserved`), a task holds of an input the buffer it reads and, after an error, one more (`Kept`, `Remembered`), and a reductor has inserted
  one buffer (`OneBuffer`). `FInv`: a task that has left has sent its end markers (`EndSent`), since each connection of F gets an item before its end
  marker (`Sends`), so that the first round of a reductor finds one (`FirstRoundHasInput`). The rest is the counting argument of `NoHangCorrect`, with one more way out: between
  a reductor and a successor that has failed the only buffer is the one which that keeps (`ReductorStarved`).

The run `fixed` checks these properties on its graphs; it also runs `GroupScheduler` and `LocalScheduler`, which these theorems do not cover.

`BasicOpsProofs` proves for any set of threads:

* `ArgumentsCorrect`: `Spec => []LaunchedAsCalled`. The invariant `IInv` says that a thread past its lookup uses an object of the
  kernel it wants (`UsingOK`), that it holds the mutex of its operation while it sets arguments (`OwnerOK`), and that
  what it has set so far is still in the object (`SetSoFar`). The step that matters is `SetArgument`: two threads that set arguments of one object want the same
  kernel, hence call operations with the same mutex (`KernelHasMutex`, by cases over the twelve operations), hence are one thread (`OwnObject`).
  That operations and kernels agree about the parameters is `AllMatch`, a lemma about the tables alone.

`BufferProofs` proves for any number of buffers, any values and any sizes:

* `HoldsLastWriteCorrect`, `NoBadTransferCorrect`, `FitsCorrect`, `OwnsHostCorrect`: the four properties of the run `buffer`, as parts of one invariant, `BufferInv`.
  None of them is inductive alone. That a transfer has a source needs `Present` (the valid place has memory, unless a resize has emptied all of
  them); that `discard_location` finds something needs the same of the place before (`LastPresent`); that there is a command queue needs `QueueKnown`
  (data that are or were on a device got there through a queue, which the buffer remembers); that nothing is allocated over an array of somebody
  else needs `Owned`. `GetArrayInv` and `CopyInv` are the two long steps; the five operations that put new data somewhere share `PutInv`.
  The one hypothesis is `Compatible`, under which the code works at all: a profile that resizes only converts besides; one that lends neither swaps, discards nor
  resizes; section 5 gives the case behind each, and the profiles of the run satisfy it. Nothing is assumed of the sizes. Two that `ufo_buffer_cmp_dimensions` confuses
  make `CopyInv` the step it is: the destination then keeps its memories and requisition (`CopyStep` with `size`), which is why `Fits` holds nevertheless and `NoBadTransfer` has
  to name the exception. What such a copy leaves in the destination counts as written by nobody.
* `ConversionInPlace`: `ConvertsRight(d, n)` for every depth and every number of pixels. Two lemmas carry it. Each pixel is made from the bytes where it lies
  (`SourceIsPacked`), by cases over the depth and the parity of index and length: the last of an odd number of 12 bit pixels has a case of
  its own in the code. The loops go from back to front (`RoundsGoBack`), so that the bytes overwritten so far begin at four times the next index, and no packed pixel ends behind that.
  It is what a conversion needs to preserve `HoldsLastWrite`.

Both schedulers' `CASE` expressions (`PopOut`, `AfterPush`) have guards that exclude each other: the provers, unlike TLC, do not take the
first that holds.

Model-checked only: liveness (`Termination`, `IterationEnds`), which is out of reach of the prover; everything that rests on `TaskGraph` and
`Launch`, whose operators are recursive or folds over data (all properties of `Session`, `LocalEndsMeet`); `PluginFits`; the properties that speak of the particular
graphs of `graphs`, `InOrder` and `BrokenUp`.

## 5. What is left out, and why

Known weaknesses of the code that the instances avoid. No property could hold there; they are no findings because no document of the repository says
otherwise, but for two: the comparison of sizes is the subject of the run `buffer_sizes`, and a description without spaces contradicts the quickstart (below, *ufo-launch*).

* *Buffers.* An image asked for after a resize is NULL (`ufo-buffer.c:1014`). Swapping with a buffer whose memory was lent does not swap the flag that says so
  (`:744`). A lent array stays, with its old size, when the size of the buffer changes (`:793`). `convert_from_data` assumes that the host array was asked for before (`:1374`),
  `set_device_array` ignores its third argument (`:959`), and copying a buffer that was resized and never written has no source. Dimensions are compared
  by the sum of their differences (`:836`): a resize to a size that is mistaken for the old one does nothing, and what its caller then writes to memory that it takes for
  larger is not modelled. Where a resize has emptied the place that a swap or a
  discard then makes the valid one, while another place has memory, a copy finds none at its target (`:679`). A discard may also leave a buffer with a
  lent array but without a place; a copy from it allocates an array that is never freed (`:674`).
* *Groups and gathered inputs.* A sequential group all of whose targets expect a number of items starts over behind the first end marker (`ufo-group.c:178`, marked
  `FIXME`); a reader that has ended does not see it (`Wraps`). An input with several queues ends with the first marker; items still in the others stay there
  (`CutOff`). While another input of that task goes on, its last buffer is returned to all these queues in turn, so that a producer which still runs may fill
  one buffer twice, for a reader that does not look any more (`Open`).
* *Joins.* A task that reads a broadcast both directly and through a reductor waits for the reductor, which waits for the broadcast, which waits for the
  task: `ufo_task_graph_is_alright` only logs such graphs (`ufo-task-graph.c:499`).
* *Group and local scheduler.* They have no case for sinks: a sink counts as finished with its first item, and its producer waits for buffers
  that never come back if it has more items than two (the property of progress exempts runs with a task that left). The first end marker ends a task; what it has read from earlier inputs
  in this round is neither processed nor released (`ufo-group-scheduler.c:243`). Inputs are in the order of connection, whatever their
  labels (`FIXME` at `:231`). Several successors of a group share one queue and one end marker; the local scheduler feeds only the first successor. Errors of
  `get_requisition` stop nothing. A set-up that fails at a later group returns without joining the threads that were started.
* *Sessions.* A set-up that fails leaves processing nodes mapped: a change of resources before the next run leaves tasks with the old node. It also leaves the graph expanded, and the
  next run expands it again, as a second expanding scheduler does; that is in the profiles. An error nobody asked for goes unnoticed, and threads start without
  kernels. An abort between the call of run and `ufo-scheduler.c:556` is lost. Setting resources that only the scheduler itself holds would use freed
  memory (`ufo-base-scheduler.c:180`).
* *Graphs.* Two edges between the same nodes share one label, and one is lost in JSON. Removing an edge drops both ends from the list of nodes, also if they have
  other edges. Of the copies of a node with several successors only one edge is made. A node name that occurs twice in JSON keeps the
  nodes read before it in the table. Reading reverses the order of successors.
* *Resources.* Options are not part of the key of the program cache, though the comment at `ufo-resources.c:706` speaks of them. A cached kernel stays when its
  file changes (`KernelFits` exempts hits). `platform-index` and `device-type` are set after the choice was made. A platform with GPUs is preferred even if
  `UFO_DEVICE_TYPE` asks for a CPU. A device named twice in `UFO_DEVICES` is taken twice. The build log is asked of the first device.
* *Plugins.* Names that differ in a separator have different files and one function. A task missing in a package ends the program
  (`ufo-plugin-manager.c:388`). Names with an underscore or a space can be loaded but are not listed. A file that is replaced stays what it was as long as its module is open.
* *ufo-launch.* An unexpected token in brackets makes the parser loop; the value of an array takes the token behind it with it, so that a bracket or
  an exclamation mark without a space is lost. So `[read path=radios, ...]! flat-field-correct`, as `docs/manual/using/quickstart.rst:39` has it, gives an empty graph:
  `try_consume_task` takes `!` for the name of a task (`bin/ufo-launch.c:409`). The descriptions of `session` have a space there.
* *Operations.* The two sizes are compared with `&&` where `||` is meant (`ufo-basic-ops.c:345`); `offset + n` wraps around. Two threads may both miss the
  cache and build a kernel each, which is harmless (`Create`, `Insert`).

Not modelled:

* What kernels compute, the norms of `ufo-basic-ops.c`, `ufo-processor.c`: arithmetic on a device.
* Metadata, layout, statistics, views and the parameter specification of buffers.
* Option parsing, progress output, `ufo-query`; the text of JSON, and properties of tasks in it.
* Profiler and tracing: measurement that nothing reads during a run.
* `ufo-method-iface.c`, `ufo-copyable-iface.c`, `ufo-transform-iface.c`, `ufo-dummy-task.c`: dispatch without state.
* `ufo_output_task_get_output_requisition`: nothing in the repository calls it. It pops the next buffer and pushes it back at the end, which
  is only harmless if nothing else is queued.
* Conversion between arrays and buffers (`python/src/ufo.c`).
* In the fixed scheduler a reductor with several successors (`FixedAssumption`): `reduce_loop` stores all queues at the same
  index and pops from a NULL pointer. Its choice of a default GPU and a set-up that fails. In the group scheduler, groups with several members and the
  functions nothing calls (`ufo_pp_next`, `expand_group_graph`).
* A copy of a node that fails while a graph is expanded (`ufo_node_copy`), and `check_target_connections`, which never reports anything.
* Kernels asked for by several threads of a run at a time, except in `BasicOps`; the locks of resources.
* MATLAB: `matlab/src/ufo_commands.c` does not compile, so that there is no program to model.
* Memory management (`g_object_ref`, lists of buffers to free) where it has no visible order.

## 6. What could come next

1. *Proofs*: the group scheduler; `Delivered` for ways that scatter and gather or that pass through reductors.
2. *Python, continued*: abandoned iterations, `run` without `join` followed by another pipeline on the shared graph,
   an exception of `run`.
3. *Buffer*: views and metadata; resize of a graph's buffers in a run (composes `Buffer` with `FixedScheduler`).
