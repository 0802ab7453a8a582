# A TLA+ model of libco-protobuf-rpc

The repository is an RPC framework in which a call looks synchronous: the caller
runs in a libco coroutine, `RpcChannel::CallMethod` sends a packet and suspends
the coroutine, and the coroutine is woken by the response, by a timeout or by a
cancellation. This directory holds models of its parts: the coroutine manager and
the timers under it, the calls made with it, the connection manager and the queue
between threads.

## The system

| Part | Code | State | Operations |
|---|---|---|---|
| coroutine manager | `rpc/src/rpc_coro_mgr.{h,cpp}` | `coros_`, `waitingForRecycleCoros_`, `maxCoroId_`, the flags, counters and timer of each `Coro` | create, resume, cancel, yield, finish, timeout, `Update`, `Start`, `Stop` |
| timer scheduler | `llbc/llbc/src/core/timer/`, `BinaryHeapInl.h` | counted timer data with `validate`, `timeouting`; a binary heap of them | `Schedule`, `Cancel`, `Update`, `~LLBC_Timer` |
| context switch | `libco/co_routine.cpp` | `pCallStack`, `cStart`, `cEnd` | `co_create`, `co_resume`, `co_yield_ct` |
| RPC manager | `rpc/src/rpc_mgr.cpp` | services | `HandleRpcReq`, `HandleRpcRsp`, `OnRpcDone` |
| RPC channel, controller | `rpc/src/rpc_channel.{h,cpp}` | session id; sticky failure flag | `CallMethod` |
| connection manager | `rpc/src/conn_mgr.{h,cpp}` | `addr2Channel_`, `session2Addr_` | `GetRpcChannel`, `CloseSession`, `Tick` |
| two-thread queue | `rpc/src/conn_mgr.h` | `queue_`, `rdIdx_`, `wtIdx_` | `Push`, `Pop`, `GetSize` |
| services and programs | `echo_service_impl.cpp`, `client/`, `server/` | none | `Echo`, `RelayEcho`, `GetData`; main loops |
| network layer | `llbc/llbc/src/comm/` | ready sessions | connect, remove, send, receive, create and destroy events |

Everything but the network threads runs on one thread. The main loop calls
`RpcCoroMgr::Update`, which fires timers, and `ConnMgr::Tick`, which dispatches
packets: a request may create a coroutine, a response resumes one. What makes
this hard is that a wake-up is a nested call that switches stacks. The timer
loop, `Stop`'s loop over `coros_` and `Coro::Resume` are all suspended while the
woken coroutine runs, and it may create, resume or cancel others meanwhile.
Response, timeout and cancellation compete for every suspension.

## Modules

- `RpcCoroMgr`: the manager, with the scheduler and call stack it uses. The top
  of `stack` executes. An action is what the thread does between two context
  switches, so `Resume`, `Cancel`, `UpdatePop` and `StopStep` end where
  `co_resume` switches, and the suspended loop goes on when `stack` is back at
  `Main` (`mainPc`, `snap`, `stopIt`, `firing` are its locals). A timer datum is
  named by its coroutine and the number of the suspension; `valid` holds those
  with `validate` set. Undefined behaviour sets `fault` and stops the model.
  `Coro::Resume` resets `yielded_` before `timer_.Cancel()` calls back `OnCoroCancel`,
  which for that reason does nothing (`ResetYielded`, `CancelWakes`). `Start` called in
  a coroutine sets `maxCoroId_` back and fails.
  `reused` is a history variable: an id was issued while an object held it.
- `CoroSpec`: what the manager promises, one coroutine at a time.
- `MCRpcCoroMgr`: the symmetry set for TLC.
- `RpcCoroMgrProofs` (types and the inductive invariant) and
  `RpcCoroMgrPromiseProofs` (the refinement of `CoroSpec`, no undefined behaviour,
  fresh ids): the theorems.
- `RpcCall`: calls end to end. Client coroutines (`pc`, the shared controller
  `failed`) call server 1 in the order of `Script`; `RelayEcho` runs in a
  coroutine of server 1 (`relays`, indexed by coroutine id) and calls server 2. A
  session is an ordered queue each way and may break, which loses what is in
  transit. An action is what a process does for one packet, timeout or launch,
  until its main loop has control again. The coroutine machinery is reduced to
  what `CoroSpec` promises: a suspended coroutine is woken once, by a response, a
  timeout or a cancellation. Time is left out, so a timeout may come at any
  moment. Packets carry, beside the coroutine id, the call they belong to, which
  stands for the payload and which no action looks at.
- `MCRpcCall`: the scripts and the symmetry set for TLC.
- `RpcCallProofs`: the theorems.
- `TimerScheduler`: `LLBC_Timer` and `LLBC_TimerScheduler`. `OnTimeout` and
  `OnCancel` belong to the program and may call `Schedule`, `Cancel` and the
  destructor again, so the functions are split where they call back: `calls` is
  the stack of those that have not returned, `ScheduleTail`, `CancelTail`,
  `DestroyTail` and `UpdateReturn` are what they do afterwards. Timer data is a
  number; `refCount` zero means deleted, and touching deleted data sets `fault`.
  `BinaryHeap` has the operations of `BinaryHeapInl.h` on sequences; a loop is a
  function that does one round, applied often enough (`Rounds`), and a round in which
  the code would leave the loop changes nothing. Where the code moves elements into a
  gap and fills the gap at the end, the model swaps, with the same result.
  `MCTimerScheduler` adds the check of the heap against sorting. `BinaryHeapProofs`,
  `TimerStepProofs` (the invariant, `Update`, the end of `Cancel`, new data) and
  `TimerSchedulerProofs` (the other steps) have the theorems.
- `ConnMgr`: the two maps over the sessions of an llbc service. A channel is
  known by its session. `Break` is the network thread; `TickCreate` and
  `TickDestroy` are the events it sends, handled by a later `Tick`. `Keepers` keep
  their channel as `client.cpp` does, the others ask for every call as `RelayEcho`
  does. All of them share one manager, which is more than any one program does.
  `MCConnMgr` gives the callers, `ConnMgrProofs` has the theorems.
- `LockFreeQueue`: `Push` and `Pop` split at each access to shared memory. A store
  is issued first and becomes visible to the other thread later (`storing`,
  `clearing`, `wtSeen`, `rdSeen`; the `See...` actions), stores to different places
  in any order unless an `sfence` lies between them. `debug` is chosen at the start
  for `NEXT_DEBUG`. `BoundedFifo` is what it promises, `LockFreeQueueProofs` has the
  theorems, `MCLockFreeQueue` instantiates it. The repository declares two such
  queues and fills neither.

How they fit together. `RpcCoroMgr` contains an abstract timer scheduler, and
`TimerScheduler` is the detailed one: it shows that for the callbacks `Coro` has (`MaySchedule`),
what is armed is what fires, once it is due (`ArmedIsOwned`, `UpdateFiresAllDue`).
`RpcCall` relies on the promise of `CoroSpec`, which `CoroLive` checks and
`PromiseKept` proves of `RpcCoroMgr`, and on `ConnMgr` for one cached channel of server 1.

Abstractions of `RpcCoroMgr`. The heap is a set (ties fire in any order). Pass data, parameters,
log output and error codes are left out, as are the `cancelling` flag, which
nothing reads, and the reference counts of timer data. So is the removal from the
heap of a cancelled timer ten days or more ahead: the model stands for timeouts
below that (see `TimerRearm`; the default is five seconds). A call that is refused changes no
state and is not an action. `GenCoroId` overflows a signed int: both the wrapped
negative id and the reset to 2 are possible outcomes. The environment is any
program that makes the calls in `Calls`; `"nested"` lets coroutines call the
manager, which goes beyond what the example programs do. Deleting a `Coro`
directly, as the disabled `testCoroTime` does, is not modelled.

## Runs

`Coro*` use `MCRpcCoroMgr`, `Call*` `MCRpcCall`, `Timer*` `MCTimerScheduler`, `Queue`
`MCLockFreeQueue`, `Conn` `MCConnMgr`.

| cfg | expected | shows |
|---|---|---|
| `CoroCalls` | pass | three coroutines driving one another, `Start`, `Stop` and `Yield` in the main loop at any moment, ids that overflow: timers, flags, stack and maps agree, each suspension is ended once, no undefined behaviour |
| `CoroLive` | pass | with nested calls: `RpcCoroMgr` implements `CoroSpec`, a suspended coroutine runs again, a finished one is deleted |
| `CoroStopSuspended` | violation | a coroutine that yields again when cancelled is still suspended after `Stop`'s loop, whose comment says all are cancelled |
| `CoroIdReuse` | violation | `Stop` resets `maxCoroId_`, a new coroutine gets the id of one that is still in `coros_` (suspended or never started), and `GetCurCoro` returns the other one |
| `CallSafe` | pass | a call gets its own response unless an earlier call of the coroutine was given up; success means that the server that does the work did it; a relay passes on its own nested response; no request is answered twice |
| `CallLive` | pass | every request that reaches server 1 is answered while server 1 and its session to the client live, whatever becomes of the nested call |
| `CallLate` | violation | the late response to a timed-out call ends the next call of the coroutine |
| `CallStatus` | violation | a controller that failed once reports failure for every later call |
| `TimerSafe` | pass | for callbacks that make any calls, as long as `OnCancel` schedules its own timer only as `MaySchedule` says: no deleted timer data is touched, reference counts are the owners, a timer's armed data is the one it refers to, the heap is a heap and sorts, `Update` leaves nothing that was due, dropped data is deleted |
| `TimerRearm` | violation | when `OnCancel` schedules its timer again, which `Timer.cpp:111` allows, under `Schedule`, or with the old data ten days or more ahead, armed data is left that the timer does not refer to |
| `Queue` | pass | the ring implements a bounded FIFO between two threads, sizes err to the safe side, a value that is stored is popped from its slot |
| `Conn` | pass | the maps agree, a usable session is the cached one, a channel leads to its address; a caller that asks again recovers from a broken session, a closed session is forgotten |

Bounds of `RpcCoroMgr`: `MaxYields` suspensions per coroutine, clock up to
`MaxTime`, `MaxInt` for int, `CallStackSize` for libco's 128. `CoroCalls` has three
coroutines with one suspension each and `MaxInt = 2`, so that the third id overflows;
three coroutines suffice for a nested wake-up to change what its caller is iterating
over. `CoroLive` has two with two suspensions each, which suffice for a timer to
outlive its suspension. The theorems have no bounds.

`NoUndefinedBehaviour` has three conditions. `~reused`: `CoroIdReuse` shows that it
is needed. `StackFits`: `co_resume` does not check the depth of the stack. And no
coroutine drives another while `Stop` cancels it (`"driveInStop" \notin Calls`):
`Stop` moves its iterator on before it cancels (`rpc_coro_mgr.cpp:318`); if the
cancelled coroutine resumes the next one and that one returns, the element under
the iterator is erased. No program of the repository does this and no text of it
promises that one may, so it is a hazard and not a finding. `IInv` holds for such
programs too. The fault `mainNull`, which the property also leaves out, is `Yield`
called in the main coroutine with no object registered for it (only `Start`
registers one and no program calls it), or `Start` called before the first
coroutine was created, when `co_self()` is null.

When server 1 runs the null closure of `GetData` it is dead from then on: only
the client and server 2 take further steps.

`TimerSafe` has two timers, three calls of `Schedule` and a clock up to 4, with
timers on both sides of `LongTimeout`: two data of one timer and one of another can
be alive at once, and a callback can run inside a callback. Heaps of three are too
small for `BinaryHeap`, so `HeapSorts` drains every heap of up to six elements with
keys in `1..3`. `Conn` has three sessions, so that an address is reconnected twice or
two addresses are in use during a reconnect; it was also run with four. `Queue` has
four slots, so that indices wrap while the ring is full.

`CallSafe` has two coroutines with three calls each, so two relays can wait at
once. The client stops after its coroutines, and the timers when the clock and `MaxData`
are used up, so these runs allow deadlock.
Every action is taken in some passing run. The branches TLC never enters are
guards of the code that the invariants show to be redundant, such as the
`IsTimeouting` test in `OnCoroCancel`, and what would follow if `Coro::Resume` reset
`yielded_` only after `timer_.Cancel()` (`twice`).

Fairness (`FairSpec` of `RpcCoroMgr`): the main loop calls `Update` forever and `Update` and
`Stop` run to their end; time passes; a coroutine's code reaches its next yield
or its end. Nothing is assumed about resumes and cancellations.
`FairSpec` of `RpcCall`: the main loop of server 1 dispatches requests and its timers
fire, which is what `CoroLive` shows of the manager. Nothing is assumed about the
client, server 2 and the sessions.
`TimerScheduler`: callbacks return, the main loop calls `Update`, time passes.
`ConnMgr`: the main loop calls `Tick`, callers call again, and the network thread
closes what it was told to close. `LockFreeQueue`: stores become visible, a call
returns once entered, and `Pop` is called again and again; nothing is assumed about
new calls of `Push`.

## Proofs

`RpcCoroMgrProofs` proves, for any set of coroutines, any timeouts, any bounds and any
set of calls, that `IInv` is an invariant, and from it type correctness and
`TimersMatchSuspensions`, `StackMatchesFlags`, `WokenOnce`, `MapsMatchLives`,
`CurCoroIsRunning` and `NoStaleWake`. The only assumption is
`ConstantsAssumption`. The properties are not inductive one by one: that a
wake-up is safe needs the flags to match the stack, which needs ids to name one
object, and that a plain resume disarms the timer needs the flags of a yielded
coroutine to be clear. `IInv` adds these, that the two maps are disjoint, that
timer data belongs to a suspension that has begun, and that the datum being fired
is disarmed. Each action has a lemma for how it preserves the conjuncts.

`RpcCoroMgrPromiseProofs` proves that the manager implements `CoroSpec`, once in every
behaviour in which no id is reused (`KeepsPromise`) and once for programs in which none
can be (`PromiseKept`): there are at most `MaxInt` coroutines, so that `GenCoroId` does
not wrap, and neither `Start` nor `Stop` sets `maxCoroId_` back (`FreshIds`, by counting
the coroutines created so far). That the condition cannot be dropped is what
`CoroIdReuse` shows. Beside `IInv` the refinement needs that a suspension has one entry
in the heap, whose time is its deadline, and that `Update` never works with a time that
has not come. Each action is then a step of `CoroSpec` for one coroutine or changes what
it sees of none.

The same module proves `NoUndefinedBehaviour`. Beside `IInv` it needs that the
iterator of `Stop` stands on an element or at the end, which holds because a
cancelled coroutine erases only itself, and that the stack, in which no coroutine
occurs twice, is no longer than the number of coroutines and the main one.

`LockFreeQueueProofs` proves, for any capacity of two or more, type correctness (indices
stay in the array), `SizeIsSafe` and that
the queue implements `BoundedFifo`. `QInv` orders the four indices around the ring
(`rdSeen`, `rdIdx`, `wtSeen`, `wtIdx`) and says that every slot between the reader
and the index the reader sees is completely written; that is where the fence comes
in. The steps are then compared with those of the FIFO one by one.

`ConnMgrProofs` proves type correctness, `MapsAgree`, `ReadyIsCached` and
`ChannelReachesItsAddress` for
any addresses, callers and number of sessions. `CInv` adds that a session with a
create event on its way is cached too unless it is closing (the event makes it
ready), and that the map holds only sessions that are ready and not closing.

`RpcCallProofs` proves type correctness, `OwnAnswerUntilTimeout`, `OkMeansServed`,
`RelayPassesOwnAnswer` and `AnsweredOnce` for any coroutines and any script. `CallInv`
follows the tag of a call: it is in one place at a time (request, running relay,
response, result), and what packets and relays say about it is true.

`BinaryHeapProofs` proves, for heaps of any size and any keys, that `Insert`,
`DeleteTop` and `DeleteElem` keep the heap a heap and add or remove the one element.
Each loop has an invariant that depends on the number of rounds: the order may be
broken at one place only, the one the loop has reached, and that place rises to the
root, or sinks below the last element, within the rounds allowed.

`TimerStepProofs` and `TimerSchedulerProofs` prove of the timer scheduler, for any
timers, times, bounds and nesting of callbacks, type correctness, `NoDangling`,
`RefCountIsOwners`, `ArmedIsOwned`, `HeapIsSound` and `UpdateFiresAllDue`. They assume
`AnyReschedule = FALSE`, a condition on the program (`MaySchedule`): `OnCancel` schedules
its own timer only under a plain `Cancel`, not under `Schedule` or the destructor, and
only when the old data is less than `LongTimeout` ahead. The code does not enforce it:
without it `ArmedIsOwned` fails, which is `TimerRearm`, and so does `NoDangling`: the
same configuration with `INVARIANT NoDangling` ends where `~LLBC_Timer` dereferences
the `_timerData` that `Cancel` has set to null (`Timer.cpp:51`).
`Coro::OnCoroCancel` meets it. The coroutine it wakes under `Coro::Cancel` may yield and
so schedule the timer again; `Coro::Yield` schedules and `~Coro` destroys only a timer
that is not armed, so no `OnCancel` runs under them; and the timeouts are seconds. `TInv` is needed because what a function does after a callback is safe only
if what it knew before still holds. It says for every call on the stack what the
function relies on when it goes on: a `Cancel` that waits holds data that is disarmed
and still in the heap or being fired, a `Schedule` or a destructor that waits has its
`Cancel` above it, its timer alive and still referring to that data; and for two calls
on the stack that they do not cancel the same data or end the same timer. Data is owned
by its timer and by the heap or `Update`, never by both of these, and what is armed has
both owners. `RoomOK` adds that the bound `MaxData` leaves data for every `Schedule` that
waits. What the steps need of the heap is collected in `HeapFacts` and follows from
`BinaryHeapProofs`.

Assumptions: `ConstantsAssumption`, `QueueAssumption`, `ConnAssumption`,
`ScriptAssumption` and `TimerAssumption`, on the types of the constants.

Only model-checked: every liveness property (`SuspendedIsResumed`, `EndedIsDeleted`,
`RequestIsAnswered`, `DroppedIsFreed`, `PushedIsPopped`, `CallerRecovers`,
`ClosedIsForgotten`), which is out of the prover's reach; and `HeapSorts`, which is
about a recursive function that drains a heap. What it says of one operation is
proved.

## Not modelled

- Protobuf and its generated code, which turn messages into bytes and back; the
  parts of llbc and libco that the RPC code does not reach (libco's event loop, time
  wheel, condition variables and shared stacks; most of llbc's service). These
  libraries are vendored and are nearly all of the source lines of the repository:
  the modules cover some 670 of the 1800 lines under `rpc/src`, about 490 of llbc and
  libco, and so a small fraction of the whole tree. Nothing of the repository's
  documents or tests outside `rpc/` says how the RPC code depends on more of them.
- Requests for an unknown service and packets that do not parse: both ends are
  generated from one description, and packets come from the code that is modelled.
- `GetData` runs a null closure, as `HandleRpcReq` passes no other; the model ends
  server 1 there, and no property is about it.
- `ConnMgr`'s destructor: only `LLBC_Singleton::Release` would run it, which nobody
  calls. `RpcChannel` objects are never deleted by `CloseSession`, so a channel that is
  held stays usable as an object; `client.cpp` deletes its own when it ends.
- Of the timer scheduler: `CancelAll`, its destructor, `SetEnabled`, `Update` called by
  a callback, and timers of period zero, none of which the RPC code uses.
- The queue's accesses are assumed to be compiled in program order. `queue_` is not
  volatile, and without `NEXT_DEBUG` no barrier of `Pop` forbids the compiler to move
  the load behind the store of `rdIdx_`.
- `CallMethod` called in the main coroutine, which it refuses
  (`rpc_channel.cpp:25`): the callers of `RpcCall` are coroutines.
- Start-up, logging, statistics, and the stress client, whose calls are those of the
  client in greater number.
