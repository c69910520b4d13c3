# A TLA+ verification of the react-native-windows host, its queues and its services

react-native-windows runs JavaScript, native modules and views on a handful of
*dispatch queues*, and ties their work together with *futures*. Everything that
must not happen twice, at the same time or after destruction (loading the React
instance, calling into JavaScript, attaching views, completing futures) is made
safe by those two. This project models the queues, from the two-buffer container
up to their three schedulers, the futures, the React host and instance that are
built on them, and the services an instance offers to JavaScript (WebSocket,
HTTP, notifications, timers). It checks the models with TLC and proves the
central invariants of the queues, the host, the instance and its services with
TLAPS.

Paths below are relative to `src/vnext/`.

## 1. Inventory

| Component | State | Operations | Interacts with | What is hard |
|---|---|---|---|---|
| **TaskQueue** `Mso/src/dispatchQueue/taskQueue.*` | read buffer with an index, write buffer, strong pointer to the owner | Enqueue, TryDequeue, DequeueAll, Size, IsEmpty | owned by QueueService, always under its mutex | order across buffer swaps; releasing the owner exactly with the last task |
| **QueueService** `queueService.*`, `taskContext.*` | shutdown action, suspend counter, TaskQueue, per-thread task batches, queue-local values | Post, InvokeElsePost, DeferElsePost, Suspend, Resume, Shutdown, AwaitTermination; HasTasks, TryDequeTask, InvokeTask, CancelTask for schedulers | users, tasks, one scheduler | decisions taken under the lock, scheduler calls made after it |
| **ThreadPoolSchedulerWin** `threadPoolScheduler_win.cpp` | `m_usedThreads`, a thread-pool work object, weak pointer to the queue | Post, WorkCallback, AwaitTermination | QueueService, Windows thread pool | early return at the thread limit; last reference dropped inside a callback |
| **LooperScheduler** `looperScheduler.cpp` | thread, manual-reset event, `m_isShutdown`, weak pointer to the queue | RunLoop, Post, Shutdown, AwaitTermination | QueueService | event reset against post; shutdown against the last look; join or detach |
| **DispatchQueue API** `Mso/dispatchQueue/dispatchQueue.h` | shared pointer to a QueueService; suspend guards, task batches | forwards to QueueService; RAII guards | all users | guards must balance |
| **AsyncActionQueue** `Microsoft.ReactNative/ReactHost/AsyncActionQueue.*` | list of actions, `m_isInvoking` | PostAction(s), InvokeAction, CompleteAction | ReactHost, ReactViewHost | an action ends when a future completes, maybe inline, maybe never |
| **ReactHost, ReactViewHost** `Microsoft.ReactNative/ReactHost/ReactHost.*` | options, instance, pending/next unload ids, per-view inited flag and uninit ids, inspector page | Reload(WithOptions), Unload, Close, Finalize; Attach, Detach, Reload(WithOptions), Unload of views | instance, views, AsyncActionQueue | consolidation of requests by ids that later requests overwrite |
| **ReactInstanceWin** `ReactInstanceWin.cpp`, `TaskDispatchThread.cpp` | state, loaded and destroyed promises, queue of JS calls, the JS thread's queue | constructor, InitializeBridgeless, LoadJSBundlesBridgeless, Destroy, OnError, OnJSError, CallJsFunction, DrainJSCallQueue | ReactHost, JS thread, UI queue | state written without a lock, load against destroy, drain against call |
| **Futures** `Mso/src/future/*` | a packed word of state and continuation list, a link, value and error | TrySetValue, TrySetError, AddContinuation, Invoke, Then, Share, WhenAll, WhenAny | everything asynchronous | lock-free races of value, error, continuation and abandonment |
| **UI-thread scheduler** `uiScheduler_winrt.cpp` | handler and task counts, shutdown flag, termination event, dispatcher | Post, the handler, Shutdown, AwaitTermination | QueueService, platform dispatcher | the dispatcher drops handlers when it closes; the last release may be anybody's |
| **WebSocket** `Shared/Networking/WinRTWebSocketResource.*`, `Shared/Modules/WebSocketModule.cpp` | ready state, socket, writer, task sequencer, two queues | Connect, Send, Close, OnMessageReceived, OnClosed | JavaScript, platform socket | coroutines that give up their thread between two uses of one writer |
| **HTTP** `Shared/Networking/WinRTHttpResource.cpp`, `Shared/Modules/HttpModule.cpp` | table of running requests | SendRequest, AbortRequest, PerformSendRequest | JavaScript, platform client | answer, timeout and abort race |
| **Notification service** `Microsoft.ReactNative/IReactNotificationService.*` | an immutable snapshot of subscriptions per name, in a service and its parent | Subscribe, Unsubscribe, SendNotification, UnsubscribeAll | any thread, dispatchers | compare-and-retry on snapshots, removal from two lists, destruction |
| **Timers** `Microsoft.ReactNative/Modules/Timing.*` | heap of timers, two sources of ticks | createTimer, deleteTimer, OnTick | JavaScript, UI thread | the sources stop each other; timers change between ticks |

The rest of the repository (packager connection, property bag, native animated,
TurboModules, Fabric, RedBox, native modules, CLI and code generation) is listed
in `PROJECT.json` under `components` with the reason it is left out.

What makes each part correct:

* *TaskQueue*: seen from outside it is a FIFO; the owner is held exactly while a
  task is pending.
* *queues*: every accepted task is invoked or canceled, once, in order; at most
  `m_maxThreads` run; none starts while suspended; no wake-up is lost;
  termination waits for what was accepted and does not deadlock; destruction
  meets an empty queue.
* *futures*: a continuation is run once, a result is set once, outcomes follow
  the parents, and what hangs on a completed future completes.
* *host*: the last request wins; a live instance is never replaced or leaked;
  every attached view shows the current instance; the action queue drains.
* *instance*: calls to JavaScript are delivered or dropped, once and in order;
  loading is reported and destruction ends, which the host relies on.
* *services*: messages leave whole and in order; a request completes, and hears
  nothing afterwards; the subscription lists are exact; due timers fire, deleted
  ones do not.

`PROJECT.json` lists the hazards behind these properties, each at its line.

## 2. Plan

1. **TaskQueue**, **QueueService**, **ThreadPoolQueue** (serial and concurrent),
   with the abstract **DispatchQueue** contract: done.
2. **LooperQueue** and **UIQueue** against the same contract: done.
3. **ReactHost** with views and AsyncActionQueue: done.
4. **Future**: the packed state word, continuations, Share, WhenAll/WhenAny: done.
5. **ReactInstance**: loading, JS call queue, errors, Destroy: done. It examines
   the futures that ReactHost assumes to complete.
6. **WebSocket**, **HttpResource**, **NotificationService**, **Timing**: done.
7. Proofs for TaskQueue, the three queues and their contract, Future, ReactHost,
   ReactInstance, NotificationService, Timing, HttpResource and WebSocket: done;
   every safety property of a passing run is proved (section 6).
8. Open: a composition of ReactHost with ReactInstance in one state space,
   queue-local values of QueueService, the packager connection.

## 3. Modules

| Module | Models | Extends / instances |
|---|---|---|
| `TaskQueue` | taskQueue.cpp, field by field | |
| `QueueService` | queueService.cpp, taskContext.cpp | EXTENDS TaskQueue |
| `DispatchQueue` | the contract stated by dispatchQueue.h, abstract | |
| `ThreadPoolQueue` | threadPoolScheduler_win.cpp driving a QueueService | EXTENDS QueueService, INSTANCE DispatchQueue |
| `LooperQueue` | looperScheduler.cpp driving a QueueService | EXTENDS QueueService, INSTANCE DispatchQueue |
| `UIQueue` | uiScheduler_winrt.cpp driving a QueueService | EXTENDS QueueService, INSTANCE DispatchQueue |
| `Future` | futureImpl.cpp, futureTask.h, futureInl.h, promise.cpp | |
| `ReactHost` | ReactHost.cpp, AsyncActionQueue.cpp, MsoUtils.cpp | |
| `ReactInstance` | ReactInstanceWin.cpp, TaskDispatchThread.cpp | |
| `WebSocket`, `HttpResource` | the two resources and their TurboModules | |
| `NotificationService`, `Timing` | IReactNotificationService.cpp, Timing.cpp | |
| `MCThreadPoolQueue`, `MCFuture` | symmetry sets; the graph of futures | EXTENDS their module |
| `MCNetworking`, `MCInstance` | one run over several modules | EXTENDS HttpResource, INSTANCE the others |
| `QueueServiceProofs` | theorems about TaskQueue, lemmas about QueueService | EXTENDS QueueService and TLAPS |
| `ThreadPoolQueueProofs`, `LooperQueueProofs`, `UIQueueProofs` | theorems about the module of that name | EXTENDS that module and QueueServiceProofs |
| `FutureProofs`, `ReactHostProofs` | theorems about the module of that name | EXTENDS that module and TLAPS |
| `InstanceProofs` | theorems about ReactInstance, NotificationService and Timing | EXTENDS MCInstance and TLAPS |
| `NetworkingProofs` | theorems about HttpResource and WebSocket | EXTENDS MCNetworking and TLAPS |

**Steps.** `QueueService::m_mutex` serialises the methods, so what a method does
under the lock is one step. What it does after the unlock (calls of the
scheduler, `CancelTask`) is recorded per thread in `call`, `toSchedule` and
`toCancel` and happens in later steps, between which all other threads run.
`call[a]` is the program counter of thread `a` inside QueueService and the
scheduler's non-callback methods; `pc` is the one of a pool callback or of the
looper. A thread may call a method if it has a reference to the queue
(`handles`), or is running a task of it.

**Lifetime.** `handles`, the owner pointer of the TaskQueue and the strong
pointers taken by callbacks are the references to a QueueService; when the last
one goes, in whichever thread, the destructor's `AwaitTermination` runs there.

**Tasks.** A task is an identity; `outcome` is what has become of it. A running
task may post, invoke in place, defer, shut down or terminate its own queue any
number of times and may then return.

**ReactHost.** Everything runs in the serial native queue (that such a queue
exists is what ThreadPoolQueue shows). A public method is one task; work that
the code does inline in the same task (continuations of completed futures, the
next action) is forced to happen before the next task by `Inline`. The only
part of a public method outside the queue is `ReloadInstance`'s read of
`m_options` in the calling thread, an action of its own. `boundTo`, `created`,
`lastRequest` and `viewUnloaded` are history used by the properties.

**UIQueue.** `enqueued` counts handlers in the platform dispatcher, which may
close at any time and drop them. `m_handlerRefCount` counts the handlers alive,
`m_taskCount` the tasks announced; a handler is released by the thread that
posted it (`PosterRelease`) or by the UI thread (`UIRelease`), and whoever brings
the count to zero runs the rest of CleanupContext. `refused` remembers that a
post came after the shutdown of the scheduler.

**Future.** A future is its state, its list of continuations (`head` and the
`link`s, packed in one word in the code), value and error. Each thread has a
stack of the calls it is in; one compare-exchange is one step, so a retry is
simply a later step. `Kind` and `Parents` say how each future of the instance was
made. A task's result, the executor it is posted to and the moment a promise is
set or abandoned are free choices.

**ReactInstance.** `pc` has the place of the initialization, of the native queue,
of the JS thread and of an error raised in the UI thread. The JS thread is a
queue of tasks that goes on with what was queued after `quit`. `m_jsCallQueue` is
used under a lock; `m_state` is read and written without it, so each access is a
step of its own.

**WebSocket.** The task sequencer holds connect, writes and close; a task is
split where its coroutine resumes in another queue. `stored` is what reached the
socket: the contents of the writer at each StoreAsync.

**HttpResource.** `op` is the platform's operation, `timer` the timeout; both end
when they like. `heard` is what JavaScript is told, in order.

**NotificationService.** A snapshot is a sequence; a thread reads it, computes
the next one and replaces it if it is still current, in separate steps. A
subscription is listed once and never comes back, so comparing contents is
comparing pointers.

**Timing.** Time is a counter of milliseconds up to `MaxNow`; `due` is the
dispatcher timer, a render frame is a task of the UI queue `ui`. A tick runs in
steps between which time passes.

**External parts**, modelled from their use: the Windows thread pool (a counter
of submitted callbacks), `ManualResetEvent` and `std::thread` (event flag, join
after the loop has returned), the platform dispatcher, sockets and HTTP client
(operations that end, fail or are canceled at any time), the view instances (a
future that completes later).

## 4. Runs

| Run | Instance | Shows |
|---|---|---|
| `serial_queue` | 2 clients, 2 pool threads, 3 tasks, limit 1 | FIFO order, owner pointer, wake-ups, destruction, termination, contract |
| `concurrent_queue` | 1 client, 3 pool threads, 3 tasks, limit 2 | at most two tasks at once |
| `serial_queue_live` | 1 client, 2 pool threads, 2 tasks | accepted tasks end, AwaitTermination returns |
| `looper_queue` | 2 clients, the looper, 2 tasks | contract, tasks end, the looper ends |
| `ui_queue` | 2 clients, the UI thread, 2 tasks, a dispatcher that may close | termination waits for every handler, contract, tasks end, waits return |
| `future` | 2 threads, a promise, Then, Share, two copies, WhenAny, WhenAll | no continuation lost or doubled, outcomes, readable values, completion |
| `react_host` | 2 views, 2 option values, 5 requests | consolidation, views, inspector page, finalization, the action queue drains |
| `networking` | a socket with 2 messages; a request of each kind | order and wholeness of writes, close after sends, one way out of a request |
| `instance` | 3 calls; 2 subscriptions, a thread and a dispatcher; 2 timers | calls, futures of the instance, subscription lists, timers |
| `scheduler_lifetime`, `looper_shutdown`, `future_void` | smallest instances | the disagreements of section 7 |

`networking` and `instance` cover parts that share no state. Their initial state
chooses the part that runs and the others keep their initial values, so that
each behaviour is one of the chosen module's own specification; the fairness of
each module is restated for its part.

**Bounds.** In a queue, a task each for "running", "pending" and "being posted"
makes every race of the schedulers possible, and a partly used read buffer
together with a non-empty write buffer; two pool threads suffice for a serial
queue (an expiring callback and its successor), three for a limit of two. A
second client is needed so that Suspend, Resume, Shutdown and the last release
can race. In the UI queue each Resume announces the waiting tasks again, so
without a bound a slow UI thread lets the counts grow: `MaxHandlers = 0` lets a
client suspend only when no handler is alive, and tasks are then posted,
announced and dropped in every order during and after the suspension. For
futures, the graph has a future with two continuations, one that is listed
behind another, a chain of shared values and both joins; two threads are what it
takes to meet in the word. In the host, `MaxRequests = 5` allows a load followed
by every interleaving of four further requests; each request takes part in at
most two consolidations. Three calls suffice for one in the drain's hand, one
behind it and one that might overtake. One request is enough for HTTP because
requests share only a table under a lock; two segments are a first and a later
one. Two subscriptions contend for a list, with a thread and the dispatcher;
`Posted` gives one of them a dispatcher. Two timers with periods 0, 1 and 2 up to
time 3 repeat, tie and overtake each other. Threads and tasks are
interchangeable where SYMMETRY is used; liveness runs do not use it. Deadlock is
not checked: with all tasks ended, requests used up or bounds reached, the
systems rightly stop.

**Fairness.** Threads inside a method go on; the pool runs what was submitted
and the looper, UI and JS threads are scheduled; a wait whose condition holds
returns: weak fairness, from the operating system. A task returns some day
however often it calls the queue: strong fairness of the return. No client is
obliged to call anything, no dispatcher to stay open, no server to answer.
Callbacks given to an executor are run or canceled, and an awaited future inside
a task completes (`RunCallback`, `CompleteAwaited`): the first is what the queue
runs show. The timer of a request fires, because the platform's timer does; time
passes. For the host, the native queue runs its tasks (justified by
`AcceptedTaskEnds`), and the futures of the instance and of the views complete:
`FuturesComplete` of ReactInstance examines the first, and names its exception,
an InitializeBridgeless that throws.

**Mutants.** Every property of a passing run has a mutant: a variant of one
definition that makes a plausible mistake of that code (a dropped guard, an
early release, a swapped order). They are the operators commented "Mutant" that
stand before the definition they vary; nothing else uses them.

## 5. The contract

`DispatchQueue` says what users rely on: tasks start in posting order, at most
`MaxConcurrent` at a time, none from a suspended queue; after Shutdown posts are
canceled; no task is both invoked and canceled or either one twice. The
refinement mappings of `ThreadPoolQueue`, `LooperQueue` and `UIQueue` read the abstract
queue off the two buffers (`Contents`) and drop threads, counters and
schedulers. `ImplementsContract` is checked as a temporal property, and proved
for all three.

## 6. Proofs

The proofs hold for every set of tasks, views, options, requests, calls,
messages, subscriptions, threads and timers, every finite set of clients and workers, and
whatever the bounds on requests, segments and time. Assumptions on the constants:
`NoTaskAssumption` (the null task is not a task), `ThreadAssumption` (clients and
workers are finite and disjoint), `MaxThreadsAssumption` (a positive limit),
`LooperAssumption` and `UIAssumption` (the looper, or the UI thread, is the only
worker), `HostAssumption` (options that make an instance inspectable are
options), `SubAssumption` (`None` is not a subscription), `PeriodsAssumption`
(durations are natural numbers), `FutureAssumption` (finitely many futures, which
are not control values of the packed word), `KindAssumption` (each kind of future has
the parents that its function takes: none for a promise, one for Then, Share,
copies and tokens, different ones for WhenAll and WhenAny; a shared future is not
shared again) and `MessagesAssumption` (the messages of a
WebSocket are told apart from each other and from the names of tasks: they stand
for the calls of Send, and nothing depends on what they contain). TLC evaluates each
of them in the runs.

**The queues**

* `QueueServiceProofs`, TaskQueue: `TaskQueueTypeCorrect`, `OwnerReferenceExact` and
  `TaskQueueIsFifo`. The type invariant is inductive as it stands, because it
  says that every slot from the index on holds a task; the other two follow with
  it, from lemmas on what each operation does to `Contents`.
* `QueueServiceProofs`, QueueService: lemmas, used by the proofs of all three schedulers, that
  each QueueService operation preserves `ServiceInv`: the types, the owner
  pointer, `m_suspendCounter` being the number of guards (so Resume cannot take
  it below zero), and that a thread owes scheduler posts exactly while it is in
  the call that makes them. `TaskPlaces` strengthens it by where each task is: a
  queued one is in the buffers, once; a running one has one thread in it; a
  deferred one, and one that is to be canceled, is in the hands of one thread; the
  rest are nowhere.
  With it each operation is shown to be a step of the contract.
* `ThreadPoolQueueProofs`: `ThreadPoolInvariant` shows `ThreadPoolInv` to be
  inductive. `NoLostWakeup` alone is not: that a callback in flight will come
  back to the queue depends on the count being exact (`UsedThreadsExact`: at the
  limit, some callback is submitted or running), on the relation of `running`,
  `pc` and `call` (`CallbackShape`), and on nothing happening after destruction
  (`DestroyedShape`). From it follow `ThreadPoolTypeCorrect`,
  `ThreadCountExact`, `WakeupNeverLost`, `ConcurrencyBounded` and
  `QueueKeptWhilePending`; together with `TaskPlaces` (`TasksInOnePlace`) also
  `DestroyedEmpty` (a destroyed queue holds no task), `TerminationAwaited` (no
  wait of AwaitTermination returns before the callbacks are over) and the
  refinement, `ThreadPoolImplementsContract`.
* `LooperQueueProofs`: the looper's wake-up is stated by `LooperIsAwake`: while
  the scheduler is not shut down, runnable tasks find the event set, the looper
  on its way to the next look at the queue, or a thread that is about to set the
  event. The looper resets the event before it looks, so a post after a look that
  found nothing leaves the event set for the wait. `UnusedIsEmpty` says that a
  queue that the scheduler does not know yet, or no longer, is empty. From these
  and `TaskPlaces`: `LooperWakesUp`, `LooperTypeCorrect` and
  `LooperImplementsContract`.
* `UIQueueProofs`: `RefCountExact` (`m_handlerRefCount` is the handlers in the
  dispatcher, in the UI thread and in the hands of posting threads), `TasksCounted`
  (each of them that will take a task has one announced) and `TerminatedShape`
  (the event is set after the shutdown, with no handler left) are inductive only
  together: the count may be relied on because it is exact, and it is exact
  because nobody makes a handler after the event. They give `UITypeCorrect` (neither count
  goes below zero: the code's VerifyElseCrash conditions),
  `TerminatedWithoutHandlers` and `UIImplementsContract`.

**The futures**

The transitions of a future are single compare-exchanges and no lock says who
may make the next one, so nothing that is said of a future alone is inductive.
`Inv` of `FutureProofs` therefore speaks of the calls on the stacks:

* `CallOK` says what the future of each pending call looks like when the call
  is made: what the code relies on without a check, or checks with
  VerifyElseCrash. `Compatible` says which two calls may be pending at the same
  time. One call at a time owns a future (`Owns`): TrySetSuccess and SetFailed,
  every call of a future with one parent from Invoke on, and the last success of
  WhenAll. Another thread may be about to set the same future, but its compare-exchange
  then fails, and it returns false.
* The rest is what the code keeps between calls. `HeadsOK` and `LinksOK`: a list
  holds continuations that wait for the parent, each in one list, and is taken
  when the parent is done. `HeldOK`: posted callbacks and awaited futures.
  `ResultsOK` and `WhenAllOK`: a result is justified by the parents, and the counter
  of WhenAll is exact. A shared future uses its link for the list first and then
  for the parent whose value it reads, so the links can be trusted only as long
  as its state is Pending.
* Each action is shown to keep the calls it does not make (`TouchCalls`,
  `OwnerOthers`) and to justify the ones it makes. `Inv` was checked with TLC on
  several graphs of futures before it was proved. From it: `FuturesDoNotCrash`,
  `FutureOutcomes`, `FuturesAreReadable` and `FutureTypeCorrect`.
* `ContinuationsAreSomewhere` needs `PlacesOK` beside it: a continuation that
  exists is in some place. That it is in one place only follows from `Inv` (`OnePlace`):
  the lists are disjoint and no list is a ring. Membership of a list of any length is
  stated without recursion (`Reaches`: a link leads out of every set of futures
  that has the first and not the continuation), and so what would be an induction
  over the list is a choice of such a set.

Two hypotheses: `~IsVoid`, since with void values the first theorem is false
(run `future_void`, section 7), and `ArgumentsAreNotShared`, that an argument of WhenAll
or WhenAny has no other continuation: MultiPost moves the argument's error away, and
what the other one then finds is not an error any more (section 7). In the
instance of the run every argument is joined once.

**The host**

* `ReactHostProofs`: `LoadNeverReplacesInstance` needs to know that LoadInQueue
  meets no instance. That is `LoadIsReady`: a load at the head of the action
  queue has a newer unload pending (and is then skipped), or no instance, or the
  unload it stands behind is waiting for the views. It is kept because a load
  always follows its unload (`LoadsFollowUnloads`), and because ids grow along
  the queue up to the pending one (`IdsGrow`): an unload that is canceled since
  its id is not the pending one leaves a pending one behind it, and the pending
  one is the last in the queue. `HostInvariant` shows the conjunction to be
  inductive; `InspectorPageExact` and `HostTypeCorrect` follow too.
  `RequestInvariant` adds what became of requests. A pending id is the id of an
  action still in the queue (`PendingIsQueued`), so an action canceled in favour
  of it does not get lost; the last reload or unload asked for is in the queue or
  its effect is in the state (`ReloadIsKept`, `UnloadIsKept`); a view that is to
  be shown shows the instance or has an init action behind any uninit
  (`InitFollows`, `ShownOrAhead`); while the host uninitialises its views, those
  that still are initialised have an uninit action of their own
  (`UnloadingViews`). From it: `LastRequestIsServed`,
  `StaleViewsGoAway` and `AttachedViewsAreShown`.

**The instance and its services**

* `InstanceProofs`, calls: `NoStrandedCall` is about a queue that is used under a
  lock and a state that is written without it. `QueueIsServed` is its inductive
  form: the queue of a loaded instance is being drained, and after an error or
  Destroy a thread that wrote the state has not looked at the queue yet; while
  the JS thread is in an error the state cannot become loaded again, since only
  that thread loads. It rests on `OneAwaited`: the native queue's place is moved
  on by the JS thread only for the one task it waits for, so an `abandon` is never
  skipped. `QueueExact` ties the queue, the entry taken out and the outcomes
  together, `OrderKept` the queue to the order of the calls. From them:
  `NoCallIsStranded` and `CallsKeepOrder`.
* `InstanceProofs`, notifications: `NotificationInv` says for each thread what it
  has done of its call (`Adding`, `Removing`), and for each subscription what its
  state implies (`SubInv`). The two refer to each other: an entry, a handler or a
  view that is left of a subscription being removed has a thread that is still
  going to remove it, and that thread's step says which of them it has removed.
  A replaced snapshot is the one that was read, so an update adds or removes one
  subscription and nothing else (`AddTo`, `RemoveFrom`). From it: `ListsAreExact`
  and `QuietAfterUnsubscribe`.
* `InstanceProofs`, timers: `SilentInv` needs the order of the UI thread's queue:
  the creation of a timer stands before its deletion, so a deletion leaves none
  to be created later. From it: `DeletedTimersAreSilent`.
* `PartsAreBehaviours` shows that the composed specification of `MCInstance`
  implies that of each part, so that these theorems cover the run.

**Networking**

* `NetworkingProofs`, HTTP: `HttpInvariant` relates what a request has `heard` to
  where its coroutine is: one that may still hear a response or data has heard no
  completion (`MayHear`, `Open`), and anything but failures is heard only of a
  request whose operation was answered and whose timer was stopped.
  `NothingAfterCompletion` and `CancelledHearsFailuresOnly` follow, from lemmas on
  appending to `heard`.
* `NetworkingProofs`, WebSocket: what was stored, the tasks of the sequencer and
  the background queue form one line (`InLine`): a step moves the front of one
  part to the end of the next, drops a front, or adds the next message at the
  end. That a message is stored in one piece is `WriterInv`. A write whose socket
  is no longer open leaves its message in the writer, so the invariant is not
  that the writer is empty between writes, but that it is empty as long as
  messages may still be stored: while the socket is open or Connect is still to
  come. Connect comes once and first (`TaskInv`), so a socket does not open after
  a write was given up; and a write that failed has its failure in front of its
  second half in the background queue (`FailFirst`), which therefore does not
  store. `CloseBehind` keeps a Close behind every message sent before it. From
  these: `SocketTypeCorrect`, `MessagesAreStoredInOrder` and `CloseIsBehindSends`.
* `ResourcesAreBehaviours` does for `MCNetworking` what `PartsAreBehaviours` does
  for `MCInstance`.

Every module states the types of its variables as `TypeOK`. It is part of the
inductive invariants, or follows from them, and so is proved, for all modules but
Timing, whose invariant has types of its own (`TimerTypes`).

Only model-checked: liveness, which is outside the prover's reach
(`AcceptedTaskEnds` and the other properties of section 4 that say something
will happen, `ContinuationsComplete`, `FuturesComplete` and `TimersAreCalled` among
them), and futures with void values, of which the run `future_void` shows how
they go wrong. Every invariant of a passing run is proved.

## 7. Where the code disagrees with what it says

Shown by a run:

* `looper_shutdown`: the looper finds the queue empty; a client posts a task and
  calls AwaitTermination; the looper sees `m_isShutdown` and ends. "Waits until
  all pending tasks are completed after shutdown." (dispatchQueue.h:195) does not
  hold, and the task keeps the queue alive for good.
* `scheduler_lifetime`: a task drops the last reference while another callback of
  the same work object is submitted; AwaitTermination does not wait in a
  callback, so that callback starts with a freed scheduler, contrary to the
  comment at threadPoolScheduler_win.cpp:119.
* `future_void`: a void future succeeds while another thread is between
  TryStartSetError and SetFailed, because TrySetSuccess accepts SettingResult
  (futureImpl.cpp:647, against the comment at :565); SetFailed then crashes
  (:761), although both threads used only Try methods (future.h:253). Cancel and
  Abandon of one CancellationTokenSource are such a pair.

Seen while modelling:

* The constructor of DispatchSuspendGuard that `DispatchQueue::Suspend` uses does
  not suspend (dispatchQueue.h:644 against :188); destroying the guard crashes in
  `Resume`. `StartTaskBatching` never begins a batch (:605 against :177).
* Requests that cancel each other's uninit can leave a view initialised when a
  load arrives, and the VerifyElseCrash of ReactHost.cpp:822 fails; the
  properties of ReactHost are stated for `~crashed`.
* WhenAny and WhenAll move the error out of their arguments (futureImpl.cpp:906).
  Share() of the same future afterwards finds no error and crashes, although the
  comment at :322 calls such sharing safe. The instance shares before joining.
* "The callback is always called regardless if JSBundles were loaded or not."
  (React.h:293) does not hold when InitializeBridgeless throws, and Destroy
  without a bridgeless instance never completes its future.
* TaskDispatchThread: `quit` clears `running_` without the lock, so the loop may
  miss its wake-up; `runSync` never returns if `quit` comes between. A direct
  call of CallJsFunction may overtake the one entry that DrainJSCallQueue has
  taken out, and no other (`QueuedCallsKeepOrder`).
* UIQueue: the termination event is set before the queue is shut down, so
  AwaitTermination may return before the tasks are canceled; a post that the
  scheduler refuses leaves its task pending.
* WebSocket: an error between ConnectAsync and its continuation leads to Closed
  and then Open; PerformClose may set Closing after Closed; `m_resourceMap` is
  never erased; one failure is sent as "webSocketFailed" (WebSocketModule.cpp:60),
  the others as "websocketFailed".
* HTTP: CreateRequest reports an error and returns null, which is then reported
  again, and the blob path sends its completion twice (hence "nothing but another
  completion" in `CompletionIsLast`); an abort before TrackResponse is lost,
  and one while the body is read has no effect, the operation having ended; a
  Cancel that throws (WinRTHttpResource.cpp:336) is reported to JavaScript as the
  same didCompleteNetworkResponse event as any error although the request goes on
  and may deliver data after it (the model tells it apart as "cancel failed" and
  leaves it out of `Completion`); a response without content would be
  dereferenced at line 510 before the null check of line 607, so that the error
  behind that check is left out of the outcomes; the redirect rule of
  RedirectHttpFilter.cpp:279 keeps POST where its comment says GET.
* Timing: `m_timerRegistry` is read in the UI thread while the JS thread may clear
  it; the repost of lines 159-160 cannot be reached.

## 8. Not modelled

Queue-local values; InvokeElsePost from a task of another queue on the same
thread; the settings callbacks of the looper; tests' tracking of thread-pool
work; task batches and suspend guards of dispatchQueue.h; the per-thread registry
of UI queues; the torn read of `LooperScheduler::m_queue` during construction (a
look finds it or not); two threads joining one looper at the same time (undefined
in C++, excluded by a guard). Of futures: memory layout, PromiseGroup, the
ten-second limit of TrySetInvoking's wait, default tokens. ReactHostRegistry and
`m_lastError`. Of the instance: options, modules, inspector, bundle contents,
delays of TaskDispatchThread, and the state WaitingForDebugger, which would queue
calls like Loading but cannot be reached: nothing calls OnWaitingForDebugger
(ReactInstanceWin.cpp:865). Of networking: blobs, CORS, redirects, headers,
bodies.

Most of the repository's lines are adapters between JavaScript, the composition
engine and Windows APIs (Fabric component views, native modules, animation
nodes), tests, templates, and build tooling in TypeScript. Their logic is in
formats, layout and platform calls: there is no protocol in them for a model to
check, and a model would be a transcription. They are listed in `PROJECT.json`.
