# CANnect in TLA+

A specification of CANnect (a C++ library that speaks CAN-TS over Linux
SocketCAN), checked by TLC and, in part, proved with TLAPS. Paths below are
those of the repository: `src/cants/SetBlockManager.cpp` and so on.

- [The system](#the-system): its parts, what each keeps and does, what makes it
  correct
- [The modules](#the-modules): which part is modelled where, and how
- [The runs](#the-runs): what TLC checks, in which bounds, under which fairness
- [The proofs](#the-proofs): what holds for every value of the constants, and why
- [What the code does not promise](#what-the-code-does-not-promise): limits met
  while modelling
- [What is left out](#what-is-left-out) and [the plan](#the-plan)

## The system

```
  application threads                                 receive threads (one per interface)
        |  Cannect: start stop waitSignal                       |
        v                                                       v
   CanDispatcher ---- spawns, joins ------------------> runInterface()
        |                                                  | receive()       | onFrame()
        v                                                  v                 v
   SocketCanInterface (open close receive send)     ICanInterface     CanTsProtocol
                                                                        |         |
   application threads: sendTelecommand, requestTelemetry ------------->|         |
   application threads: setBlock, getBlock -----------> SetBlockManager, GetBlockManager
```

| Component | State | Operations | Hard part | Correct when |
|---|---|---|---|---|
| `SetBlockManager` | `pending` (one record for the call under way), `sessions` (one per peer), `handler`, one mutex, one condition variable | `setBlock()`: REQUEST, wait for ACK, TRANSFERs, STATUS_REQUEST, wait for REPORT, ABORT. `onFrame()`: the other side of each | The mutex is released for every send and for the handler; answers are matched by the address only; timeouts; two receive threads | true means the peer took the whole payload of this call; a payload is taken once; every call returns |
| `GetBlockManager` | `pending`, `sessions`, `lastData` (the cache), `handler`, mutex, condition variable | `getBlock()`: REQUEST, wait for ACK, START, wait for the blocks. `onFrame()`, `getLastData()` | As above; the cache is written by the receive thread | true means the cache holds what the peer sent for this call; the cache is never a mixture |
| `CanTsProtocol` | `pendingTc`, `pendingTm`, `lastTelemetry`, `peers`, handlers, mutex and one condition variable for both records | `sendTelecommand()`, `requestTelemetry()`; `sendUnsolicitedTelemetry()`, `sendKeepAlive()`, `broadcastTimeSync()`; `onFrame()`; `getLastTelemetry()`, `isPeerConnected()` | Concurrent callers, busy check, late answers, broadcast address, handlers that make calls on the receive thread | the verdict that a call returns is the peer's on this request; every call returns; who speaks is known |
| `CanTsCodec` | none | identifier, command fields, bitmaps; division of a payload into blocks | Bit fields that share a byte, last byte and last block | decoding returns what was encoded |
| `CanDispatcher` | `dispatcherEntries`, each with an interface, lists and a thread; `running`; a mutex | `addInterface/Receiver/Filter()`, `start()`, `stop()`, `runInterface()` | The mutex is not held by the threads nor during joins; `running` is a plain bool | a running dispatcher serves what it opened; `stop()` joins, and returns |
| `SocketCanInterface` | `fd`, `pipeFds`, `isOpen`, no lock | `open()`, `close()`, `receive()`, `send()` | `close()` and `receive()` run at the same time | no descriptor leaks; each frame is returned once, in order, as it was sent; `close()` ends `receive()` |
| `Cannect` | `running`, `gRunning`, `gMutex`, `gCv` | `start()`, `stop()`, `waitSignal()`, `signalHandler()`, the destructor | The handler cannot take the mutex | `waitSignal()` ends for a signal, and for nothing else |
| `main()`, `Cli`, `Handlers` | the objects of `main()` | parse, create, start, send one command, wait, stop | Returns and exceptions while receive threads run | no receive thread outlives its objects |
| `Logger`, sinks, types | a list of sinks; nothing | formatting | - | not modelled |

The components meet in three ways. *Calls*: the protocol's senders go down
through `ICanFrameTransmitter`. *Callbacks*: a receive thread goes up through
`ICanFrameHandler` into the protocol and, from there, into the application's
handlers. *Shared records*: an application thread waits on a condition variable
for a record that a receive thread fills in. `PROJECT.json` lists the hazards
of all this, each with its line and the properties that watch it.

## The modules

Every critical section is one action. Whatever the code does with the mutex
released (a send, a handler, a join, a wait) is an action of its own, so that
anything may happen in between. Actions bear the names of the functions or of
the frames that they handle. Variables described as *history* are not in the
code; no guard depends on them, but for bounds.

**`SetBlockInitiator`** is `setBlock()` for any number of callers and the three
answers of `onFrame()` that reach it. `pending` is the code's record, `call[c]`
a caller's locals and its place in the function. The peers may send any answer
at any moment, so nothing about them is assumed. A send that fails does nothing
but lead to the clean-up that follows, and is merged with it. `AckTimeout` and
`ReportTimeout` are always enabled while a call waits, as `wait_for()` may end
at any time.

**`SetBlockResponder`** is the other half: REQUEST, TRANSFER, STATUS_REQUEST
and ABORT on each receive thread `t`, which hears the peers `Hears[t]`. The
STATUS_REQUEST takes four steps (look up the session, run the handler, record
its result, build the report), because the mutex is free during the handler.

**`SetBlockTransfer`** joins the two, unchanged, by two queues: what the
initiator sends is what the responder hears, and back. The bus loses, or
repeats, a bounded number of frames. **`BlockWrite`** is the promise of
`setBlock()` without any frames (a call that succeeds has been written once),
and `ImplementsBlockWrite` the refinement.

**`GetBlockInitiator`**, **`GetBlockResponder`**, **`GetBlockTransfer`** and
**`BlockRead`** are the same four for `getBlock()`. Each run of the handler
returns a new version of the data, so a mixture of two shows. For either manager
the names of the responder's specification begin with `Serve`, so that one
module can have both halves.

**`CanTsProtocol`** is `CanTsProtocol` on every node of a bus. Each node has
application threads and one receive thread, as the dispatcher gives it one for
its interface: it takes a frame into `onFrame()`, runs the handler, answers, and
only then takes the next. Handlers may make calls of their own, so a call may
wait on the very thread that would take its answer. `pending[n]` holds the two
records of node `n`, `call[n][t]` the call that its thread `t` is in, `rx[n]`
the frame whose handler runs. All frames reach all other nodes; `Everyone` is
address 0, which every node accepts, and `KeepAlive` address 1, which none has.
That a frame is noted and its handler copied are two critical sections, merged
because only the registration of a handler can come between.

**`CanDispatcher`** has application threads (`Controls`) that call its
operations in any order, and one thread for each interface. What C++ leaves
undefined, or ends the process over, sets `fault` and ends the behaviour.
`misuse` notes what the application did that nothing prevents: changing lists
while threads walk through them (`liveAdd`), calling `start()` or
`addInterface()` while a `stop()` joins (`midStop`), calling `stop()` during
another one or from a receiver (`otherStop`). None of them is ruled out by the
documentation of the class. An interface is known by its contract only: `open()`
and `close()` may fail, and one that did not close stays open (`unclosed`) and
does not open again; `receive()` may return at any time, or never.

**`SocketCanInterface`** interleaves `close()` and `receive()` access by access,
since nothing synchronises them. `open()`, which the dispatcher calls while
nobody receives, goes from system call to system call, each of which may fail;
the errors of `ioctl()` and `bind()` lead to the same clean-up and are one. The
kernel is external: it queues frames, keeps a `select()` or `read()` on what it
began with, and may interrupt it with a signal.

**`CannectApp`** is `Cannect` with a main thread and a handler for each signal,
which runs without the mutex, and with spurious wake-ups. **`CannectMain`** adds
its clients: `main()` with everything that makes it return or throw, and any
other program (`program`). `dispatching` stands for the receive threads.

**`SocketCanFrame`** is what `send()` and `receive()` make of a frame: the
kernel's frame has an identifier of 11 or of 29 bits, and a flag that tells.

**`CanTsCodec`** has the encodings as operators. Masks and shifts are
arithmetic, since the fields do not overlap. It and `SocketCanFrame` have no
state, hence no run: their properties are theorems for all inputs.

The modules `MC...` give values to the constants that a `.cfg` cannot express.
`MCSetBlockManager` and `MCGetBlockManager` put the two halves of a manager side
by side, for one run. They share the mutex but no data, so one half acts at a time.
The `...Proofs` modules hold the theorems. A definition commented *Mutant* is a
plausible mistake in the definition that follows it: no specification uses it,
and with it in place of the original the property named in `PROJECT.json` fails.

## The runs

| Run | Specification and bounds | Shows |
|---|---|---|
| `SetBlockHalves` | calls: 1 caller, 2 peers, 3 blocks; serving: 3 peers, 2 threads, 2 blocks | `SuccessMeansReported`, `NoLostAnswer` (an answer that comes before the wait counts), `CleanBetweenCalls` (whatever way out), `TransfersFollowAck`; `TakenOnce`, `DoneMeansTaken`, `ReportMeansTaken`: a payload is taken once per session, and reported after that |
| `TransferLossy` | 2 calls, up to 2 blocks, 2 losses, 2 repetitions, patient caller | `PayloadsWhole`, `FailureHasReason`, `ImplementsBlockWrite` (success means written, once; and its liveness) |
| `TransferImpatient` | 2 calls of 1 block, no loss, impatient caller | **violation** of `SuccessMeansWritten`, see below |
| `GetBlockHalves` | calls: 1 caller, 2 peers, 2 blocks, 2 contents; serving: 1 peer on 2 interfaces, 2 blocks | `SuccessMeansCached`, `CacheIsOldOrWhole`; `TransfersOfOneAnswer`, although the session is replaced meanwhile |
| `GetTransferLossy` | 2 calls, 2 blocks, 4 runs of the handler, 2 losses, 2 repetitions, patient caller | `CacheWhole`, `FailureHasReason`, `ImplementsBlockRead` (with its liveness) |
| `GetTransferImpatient` | 3 calls, 2 blocks, 6 runs of the handler, no loss, impatient caller | **violation** of `CacheWhole`, see below |
| `Protocol` | 2 nodes, of which one makes calls from its application and both from their handlers; 2 channels, everyone; 3 calls or casts, 1 loss | `OneOwner`, `VerdictIsPeers`, `TelemetryIsOwn`, `NestedUnanswered`, `SpokenMeansKnown`, `ComesToRest` |
| `Dispatcher` | 2 controls, 2 interfaces, 1 receiver and 1 filter each | `OpenMeansServed` (unless the interface failed to close), `NoFault` (unless misused), `StopMeansJoined`, `EveryStopReturns` (if no `receive()` hangs) |
| `Socket` | 3 frames, 2 signals | `NothingLeaks`, `FramesInOrder`, `EveryFrameReturned` |
| `SocketSignal` | 1 frame, 1 signal | **violation** of `SuccessMeansFrame`, see below |
| `SocketClose` | 1 frame | **violation** of `CloseInterrupts`, see below |
| `Main` | 2 signals, `main()` and another program | `WaitMeansSignalled`, `CleanExit`, `OneSignalSuffices` (but for one moment) |

Each passing run on a module of its own also checks the module's `TypeOK`
(`AppTypeOK`, `ServeTypeOK`), which holds more than types where the comment above
it says so. The two composed modules inherit those of their halves.

**Why the bounds suffice.** *Blocks*: two or three tell a first, a last and a
middle block apart, and the code compares block numbers with the number of
blocks only; what happens to all 64 of them is proved (`TypeCorrect`,
`CanTsCodec`). *Calls*: a call meets leftovers of earlier ones only through the
records, the sessions and the queues, and two calls make a first, with
leftovers, and a second that meets them. *Losses and repetitions*: two of each
lose, or repeat, any frame of a call together with any other. *Threads*: the
code locks per object, and the properties are about two threads that meet there;
three peers on two threads make two that share a thread and one that does not.
*Nodes*: two whose handlers call each other are the shortest circle, and the
application thread and the receive thread of one node the two callers that share
a record; for any number of nodes, the safety properties of `Protocol` are
proved. *Interfaces*: the second is the one whose entry moves, or whose thread
is still joined when the first is done. As the two are alike, the run leaves out
the behaviours in which the other one is added first (`FirstComesFirst`).

**Patience.** Frames carry no number of the call that they belong to, so a late
answer cannot be told from a prompt one. Where a run says *patient*, the caller
starts a call only when no frame is on its way and the other node is idle,
before the first call as well as after a success or a failure. Nothing in the
code waits for that, and no return value tells the application when it may go
on: the ACK of the last ABORT may still be under way when a call returns true.
So what `TransferLossy` and `GetTransferLossy` show says nothing of late frames
of an earlier call; `TransferImpatient` and `GetTransferImpatient` show what
these do. In `Protocol` callers are not patient: `overdue` collects
what a call gave up on, and only the verdict of a request that an overdue
answer matches is excepted.

**Fairness.** Weak fairness only, always of a thread that can go on: a send or a
handler returns, a `wait_for()` ends at its timeout, a receive thread handles
the frame it has, a frame that is not lost arrives (`Caller`, `CallerTimesOut`,
`Node`, `AppReceives`, `CallProceeds`, `Receives`). Nothing makes an application
call an operation, a peer answer, or a signal come. `CanDispatcher` assumes
nothing of `receive()`, not even that it returns once the interface is closed:
`ICanInterface` does not ask that of `close()`, and `SocketCanInterface` does
not always do it (`SocketClose`). So `EveryStopReturns` says that a `stop()`
returns unless some `receive()` never does. In `SocketCanInterface`, `open()`,
`close()` and `receive()` go on to their next access (`Opening`, `Closing`,
`Receive`). Deadlock is not checked in
`Dispatcher` (a fault is the end of the process) and in the runs of
`SocketCanInterface` (the bus may fall silent for ever).

## The proofs

**`SetBlockInitiatorProofs`.** For any numbers of callers, peers and blocks,
`TypeCorrect`. It needs `TInv`, which adds to the types that the loop over the
blocks stays below their number. Then `CleanAfterwards`, also for calls that
overlap: whoever leaves the function blanks the record, whoever it was of. And
if calls do not overlap (`OneAtATime`, which a single caller fulfils: the class
has one record for the call under way, and does not prevent a second call),
`SuccessIsReported`, `NoAnswerIsLost` and `AckBeforeTransfer`. Overlap means
from the first to the last access to `pending`; the abort that ends a call may
come while the next is under way. With two callers that do overlap TLC finds
each of the three violated. None of these is inductive. `IInv` strengthens them:
the record belongs to the call under way (`Ownership`) or is blank (`Unowned`),
its flags agree with the place in the function (`PhaseFlags`), what the flags
say was heard (`FlagsMeanAnswers`), and what was heard is in the flags
(`AnswersMeanFlags`). The last two are the two directions of the same link, and
the order of "set the flag, then send" in the code is what makes the second one
hold.

**`SetBlockResponderProofs`.** For any peers, threads and blocks, `TypeCorrect`;
and, as long as no two threads are inside `onFrame()` for the same peer
(`TakesTurns`), `AtMostOnce`, `DoneIsTaken` and `ReportIsTaken`. `IInv` says what
a thread that is inside `onFrame()` may rely on when it takes the mutex again
(`ThreadInv`: its session is still the one it looked up), and that a payload that
was taken is marked done, or about to be by the thread that ran the handler
(`PeerInv`). The assumption is needed: two threads that serve one peer replace
each other's session while the handler runs. `SingleHomedTakesTurns` says when it
holds: when each peer is heard on one interface (`SingleHomed`), as in the run.

**`SetBlockTransferProofs`** joins the two halves. For any numbers of blocks,
calls, losses and repetitions, `TypeCorrect`, and if callers wait between calls
until nothing is on its way (`Patient`), `PayloadsAreWhole`, `SuccessIsWritten`,
`FailuresHaveReason` and `PatientImplementsBlockWrite`: each step of the two
halves and the bus is one of `BlockWrite` or a stutter. The assumption is one
about the application, which nothing in the code enforces: `TransferImpatient`
shows that without it a late answer makes a call succeed that wrote nothing.

A step of the composition is one of a half or of the bus: `HalvesKeepTheirSpecs`
says that each half behaves here as its own specification says, so that its
theorems hold, as instances of its proofs (`IniP`, `ResP`). What they
cannot know is what is between them, and `TInv` says that: every frame is of the
call under way, frames come in the order in which they were sent, and none is
ahead of what the caller has sent (`FramesInv`); once the call's REQUEST has
been answered, the session is its own, with no blocks of another (`SessionInv`);
what the handler got is a whole payload of one call, and a call that is done was
written (`WriteInv`). That a failure has a reason is a second invariant,
`GoodInv`, about a bus that has lost nothing: every answer says yes
(`AnswersGood`), what was sent is on its way or has arrived (`SendsGood`), what a
call waits for will still come (`WaitsGood`), and what came lets it succeed
(`OutcomeGood`).

Without `Patient` two things remain. `PayloadsHaveNoHoles`: the handler may be
given blocks of two calls, but never a payload with a block unset. And
`SuccessIsNotInvented`: what true stands for may be the payload of another call,
but some payload has been disposed of. `SomeInv` follows both from the session
through the frames to the caller (`Copied`, `Told`).

Nor does `EveryRunEnds` need it, the part of liveness that can be proved: `Work`, a
natural number made of the calls still to come, the place in the current one, the
frames on their way, what the receive thread has in hand and what the bus may
still lose or repeat, gets smaller with every step. So the two managers, left
alone with one call, never answer each other for ever; the bounds on calls,
losses and repetitions only say that nothing from outside does. That they also
reach the end, the run checks: it takes fairness.

**`GetBlockManagerProofs`.** For any numbers of callers, peers, blocks and
payloads, `TypeCorrect`, and if calls do not overlap (`OneAtATime`)
`SuccessAtReturn` and `CacheKeepsWhole`. That the blocks of a call are still in
the cache later, `SuccessIsCached`, needs a single caller (`SingleCaller`): the
next call of another thread may bring in others. `IInv` says that the record is
blank (`Unowned`) or belongs to the call under way, waits for blocks just in the
phase that gathers them, and is acknowledged only if the ACK was heard
(`Ownership`); that it has just the blocks that the peer sent in that phase
(`Gathered`); and that the cache is the old one until all of them have come
(`CacheInv`). None of this depends on what `Assemble` makes of the blocks;
`WholeAssembly` says it: if no block is empty, all of them in order, for any
number of blocks.

Of the serving half, with constants and a specification of its own (`ServeSpec`),
it proves `ServingTypeCorrect`, and `AnswerIsOneRun` for peers that are heard on
any number of interfaces. `ServingInv` says why: all that a thread has sent in
answer to a START is of the one content that it copied under the mutex, whatever
becomes of the session.

**`GetBlockTransferProofs`.** The two halves of `getBlock()` and the bus, for
any numbers of calls, blocks, runs of the handler, losses and repetitions, on
the same lines: `TypeCorrect`; `CacheIsWhole`; `PatientImplementsBlockRead`,
that initial states and steps are those of `BlockRead`; and
`FailuresHaveReason`. All but the first need `Patient`, without which late
blocks of an earlier call get into the cache (`GetTransferImpatient`);
`HalvesKeepTheirSpecs` and `EveryRunEnds` do not, nor do `CacheHasNoHoles` (the
cache is empty or has every block, each made by some run of the handler) and
`SuccessIsNotInvented` (true means that it is not empty), which follow from
`MadeInv`. Here the danger is that the handler runs again while blocks go out,
or that its data change between two calls. `TInv` excludes it: a REQUEST is
ahead of every START and an answer ahead of every block (`FramesInv`), so
nothing replaces a session from which blocks are `Moving`, and all that move are
of its content (`DataInv`); once a call is acknowledged, what the session has
was read for that call (`Acked`, `SessionInv`); hence the cache is one version,
and that of the open call just when its record says ok (`CacheInv`). `GoodInv`
adds that on a bus that loses nothing every block that the caller waits for has
come or is still to come (`Comes`), and nothing is refused.

**`EdgeProofs`** is about the two edges of the library: the wire below it, and the
application above it. First the encodings. `HeaderSurvives`,
`AnswerEchoesBlock`, `ReportSurvives`, `BitmapTells`, `FullBitmapAsks` and
`PayloadSurvives`: for every header, command, number of blocks and payload, what
is encoded is decoded, the bits of a bitmap and the blocks are one to one, and
padding is shorter than a block. `FrameSurvives`: a frame that is not rejected
is received as it was sent. `FormatOfHeader`: no CAN-TS identifier is rejected,
and all go out in the 29-bit format but those of the time syncs of nodes 0 and
1, which `send()` takes for 11-bit identifiers because they are small.

Of `SocketCanInterface` it proves `TypeCorrect`, `NothingIsLeaked` and
`FramesKeepOrder` for any numbers of frames and signals. `LifeInv` says, for each
place in `open()` and `close()`, which descriptors exist and which members name
them: a pipe that exists has a member that names it, and none of the two
descriptors is left when `close()` comes to its last steps. `OrderInv` says that
the socket queues frames in the order in which they came, and that all of them
came after those that were returned; `SignalInv` that every return of SUCCESS
without a frame used up a signal.

Of `CannectMain` it proves `AppTypeCorrect`, `WaitIsSignalled` and `ExitIsClean`
for any signals, by an invariant (`MainInv`) that ties the place in `main()` to
that in the operations of `Cannect`: from the start to the destructors, whichever
way the block is left, `running` tells whether the dispatcher runs.

**`CanTsProtocolProofs`.** For any nodes, threads, channels and bounds, the
theorems `TypeCorrect`, `RecordsAreOwned`, `NestedCallsFail`,
`AllSpeakersKnown`, `VerdictIsTrue` and `TelemetryOfCall`; every node has one
interface, hence one receive thread. The two about nested
calls and owners need `OwnerInv`: a call finds its record waiting for the peer
it called, and done only if it was not made by the receive thread and was made
to another node. The receive thread takes no frame while it waits inside a
handler; that is why its own record is never done, whatever the peers send.
`Foreign` says that no node gets its own frames, and `Heard` that, while nothing
is lost, whoever has spoken is known or has a frame on its way.

The verdicts need `VInv`, because an answer names a peer, a kind and a channel
but no request. It follows each request from its call to its answer: a request
is in one place only, a queue, a handler or an answer (`Unique`), under a number
that belongs to one call (`Numbered`); an answer says what the handler said
(`Truthful`); and every request whose answer is still to come is either that of a
call that waits for it or was given up, which `overdue` records (`AccountInv`).
So an answer that matches a record, and no overdue one, is the answer to its
request (`Verdicts`).

**`CanDispatcherProofs`.** For any threads, interfaces and lists, `TypeCorrect`,
`OpenIsServed`, `FaultsAreMisuses` and `StopJoins`. `NoFault` is inductive
together with four facts. `ServedInv`: an open interface has a live thread, or is
one that did not close (`unclosed`); a live thread has an object to join, and such
an object an entry. The exception of `OpenIsServed` is real: `start()` leaves such
an interface open without a thread. `JoinInv`: unless
something came in the middle of a `stop()`, only one call joins at a time, what
it has passed is no longer joinable, and once none joins nothing is.
`HandlerInv`: a receive thread joins only if a receiver called `stop()`.
`StopInv`: after a `stop()` that met no other, none is under way. Each holds up
to the misuse that breaks it, so the proof shows that the list of misuses is
complete.

**Only model-checked.** Every liveness property (`ComesToRest`,
`EveryStopReturns`, `EveryFrameReturned`, `OneSignalSuffices`, the
fairness of
`BlockWrite` and `BlockRead`): fairness and ENABLED are beyond the prover. A measure
like `Work` for `CanTsProtocol` would be a sum over any number of nodes, whose
properties take an induction that the prover cannot do either. All safety
properties that the runs find to hold are proved.

## What the code does not promise

Seven claims of the documentation fail. Four are runs that show how; for the
other three a property is stated around the failure, which is named with them:

- *`setBlock()` returns true when the peer reports that all blocks were received
  and processed* (`SetBlockManager.hpp:75`). After a timeout, the late ACK and
  REPORT of one call are taken for those of the next call to the same peer
  (`TransferImpatient`). So a caller should wait before every call until the
  bus has been silent for a while, after a failure above all.
- *`getLastData()` returns the payload from the last successful transfer*
  (`GetBlockManager.hpp:81`). Late blocks of an earlier `getBlock()` count for the
  one that gathers blocks now (`GetBlockManager.cpp:178`), and the cache mixes
  two runs of the handler (`GetTransferImpatient`). Also, the cache is written as
  soon as the last block comes: a NACK that comes after it, before the caller
  wakes, makes the call return false with the new payload in the cache, which
  `CacheIsOldOrWhole` allows.
- *The last successful response can be retrieved later with `getLastTelemetry()`*
  (`CanTsProtocol.hpp:153`). A refused request wipes it (`CanTsProtocol.cpp:211`);
  `TelemetryIsOwn` speaks of it only until another request is made.
- *`start()` opens each registered interface and starts one worker thread per
  interface* (`CanDispatcher.hpp:69`). `stop()` ignores that a `close()` failed
  (`CanDispatcher.cpp:124`); the interface is still open, so the next `start()`
  cannot open it and gives it no thread. `OpenMeansServed` excepts the interfaces
  whose last `close()` failed.
- *`close()` interrupts any blocking receive operation*
  (`SocketCanInterface.hpp:41`). If it runs while `receive()` is between its
  look at `isOpen` and its `select()`, it resets the descriptors under its
  eyes, and `select()` waits for nothing (`SocketClose`).
- *`receive()` returns SUCCESS when a frame is received, otherwise an error code*
  (`SocketCanInterface.hpp:51`, `ICanInterface.hpp:57`). When a signal interrupts
  it, it returns SUCCESS without a frame (`SocketSignal`,
  `SocketCanInterface.cpp:138`), and the dispatcher hands an unset frame to
  filters and receivers.
- *`waitSignal()` blocks until SIGINT or SIGTERM is received* (`Cannect.hpp:62`).
  The notification is lost if the signal comes between the look at `gRunning` and
  the sleep, because the handler does not take the mutex
  (`Cannect.cpp:20`); the wait then goes on until another signal or a spurious
  wake-up. `OneSignalSuffices` says that this is the only such moment.

Other things contradict no claim, but a property had to be stated around them:

- Two threads in `setBlock()`, or two in `getBlock()`, share `pending`; the
  second overwrites what the first waits for (`SetBlockManager.cpp:274`,
  `GetBlockManager.cpp:226`). `CanTsProtocol` has a busy check, these do not.
- A peer that is heard on two interfaces may have its session replaced while
  the handler of the old one runs; the result is recorded in the new one
  (`SetBlockManager.cpp:155`).
- A late answer completes the next telecommand or telemetry request to the same
  peer and channel (`CanTsProtocol.cpp:159`).
- On a node with one interface, a call that a handler makes always fails, after
  its timeout, although the other node carries it out: the receive thread cannot
  take the answer (`CanTsProtocol.cpp:143`). On any node so does a call to
  address 0, whose answers bear the addresses of those who answer
  (`CanTsProtocol.cpp:159`).
- A second `stop()` returns while the first still joins (`CanDispatcher.cpp:114`);
  `start()` in that time replaces joinable threads, which terminates the
  process (`CanDispatcher.cpp:104`); a receiver that calls `stop()` joins
  itself; adding receivers or filters to a running dispatcher is a data race
  (`CanDispatcher.cpp:58`, `:81`).
- `receive()` drops the flag that tells 11-bit from 29-bit identifiers, so an
  11-bit frame of a stranger reads as a time sync from node 0 or 1
  (`SocketCanInterface.cpp:166`, and `FormatOfHeader`).
- Nothing keeps `--node` from being 0 or 1 (`Cli.cpp:252`, where 256 is 0, too).
  The answers to a node with address 0 are taken by every node; the modules
  assume that no node has address 0.

## What is left out

- The clock of `isPeerConnected()`, which compares the age of the last frame with
  a time of the caller's choice. `lastActivity`, `channel` and `prepared` of a
  session, which are written and never read.
- The errors of `send()` of `SocketCanInterface`, which changes no state of the
  object: where it matters, a send may fail. The reuse of descriptor numbers by
  other parts of the process; read errors of an interface that goes down.
- `Logger` and its sinks: each operation is one critical section, and what it
  writes is text. Two threads that are the first to log may create two loggers
  (`Logger.cpp:11`), and a sink that logs locks itself out (`Logger.cpp:36`);
  `main()` does neither.
- What the command line application parses and prints, the value types, the tests.
- What a compiler may do with the plain bool `running` beyond reading it once
  per round of the loop, and the dereference in `addInterface()` that precedes
  its null check (`CanDispatcher.cpp:12`): interfaces here are never null.
- Reordering of the frames of one node: CAN and the socket queue keep them in order.

## The plan

Done, in this order: the SETBLOCK halves, their proofs, their composition and
its abstract specification; GETBLOCK alike; the dispatcher; the socket; the
codec and its proofs; the protocol on all nodes, with the receive threads that
run its handlers, and its proofs; the application and its proofs; the frames of
the socket; the proofs about both halves of `getBlock()`, the socket, the
dispatcher, the verdicts of the protocol, and the transfers of `setBlock()` and of
`getBlock()`.

The proofs about the calling halves then went from one caller to any number whose
calls do not overlap. Of calls that do overlap there is nothing left to prove: TLC
finds the other properties violated. Likewise those about the serving half of
`setBlock()` went from peers on one interface to threads that take turns, and those
about the transfers to what holds for impatient callers, and to the end of every
run.
