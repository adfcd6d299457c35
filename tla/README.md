# A verification project for the Nebius Python SDK

The SDK (`src/src/nebius`) is a gRPC client library: a `Channel` owns an event loop
in a background thread (or borrows the caller's), a pool of native gRPC channels, and
an authorization provider that keeps a token fresh; requests, streams and operations
are handles on work submitted to that loop, usable from any thread and any other loop.
What is hard in it is not the data but the concurrency: threads call into a loop that
may stop or be closed at any moment, handles are cancelled while the work behind them
starts, transports are returned while the channel closes, and tokens are renewed for
callers that come and go.

This directory holds TLA+ modules for those parts, TLC runs over small instances, and
TLAPS proofs for five of them. `PROJECT.json` maps every definition to source lines.
Paths below are relative to `src/src/nebius/`.

Contents: [Inventory](#inventory) · [Modules](#modules) · [Runs](#runs) ·
[Bounds](#bounds) · [Fairness](#fairness) · [Proofs](#proofs) · [Findings](#findings) ·
[Further disagreements](#further-disagreements) · [Simplifications](#simplifications) ·
[Not modelled](#not-modelled)

## Inventory

| Part | Source | Modules | What is hard |
|---|---|---|---|
| Transport pool | `aio/channel.py`, `aio/base.py` | `ChannelPool` | a release racing `close()`; a stale holder of a wrapper whose native channel is lent again; closes that never start |
| Channel construction and closing | `aio/channel.py` | `ChannelClosing` | a constructor that fails half way; closers that give up; a channel dropped instead of closed |
| Stub calls | `aio/channel.py` | `UnaryCall` | a status read, a cancellation and the end of the native call on different threads |
| Submissions | `aio/_runtime.py` | `Submission` | cancellation between admission, claim and publication; work that calls `close()` on the loop that `close()` drains |
| Shutdown | `aio/_runtime.py` | `RuntimeShutdown`, `Lifecycle` | a loop that stops after accepting a callback; threads that cannot be started; a loop thread that must not join itself |
| Executor | `aio/_runtime.py` | `DaemonExecutor` | lost wake-ups; two shutdowns; a worker that shuts its own pool down |
| Awaitables across loops | `aio/_runtime.py` | `CrossLoopAwaitable`, `ForeignBridge`, `LoopHandler` | registration against publication; a waiter's loop that closes; an undo below newer assignments |
| Requests | `aio/request.py` | `Request` | `cancel()` against a response that arrived; deadline against retry; re-authorization |
| Streams | `aio/stream.py` | `Stream` | abort while starting; a result against a cancellation |
| Operations | `aio/operation.py` | `Operation` | a late answer after a terminal one; time spent waiting for the lock |
| Renewable bearer | `aio/token/renewable.py` | `RenewableBearer` | requests cleared by an attempt that did not serve them; waiters after stop |
| File-cache bearers | `aio/token/file_cache/*` | `FileTokenCache`, `CacheMap`, `CacheReceiver`, `FileRenewal` | several processes; a writer that dies; tokens that change when written |
| Sources of tokens | `aio/token/{file,imds,exchangeable,impersonated}.py` | `TokenSources` | a cached token that was refused; a channel given later and shared by attempts that time out |
| Login | `aio/token/federation_bearer/*` | `Login` | callbacks of several browser tabs against the timeout |
| Field masks | `base/fieldmask*.py` | `FieldMask`, `FieldMaskParser` | wildcards; groups that are continued |
| Wire format | `base/protos/wire.py` | `Wire` | widths, signs, nesting |
| Messages | `base/protos/direct.py` | `DirectMessage` | lazily created children that outlive their place in the parent |

The parts interact in one direction: requests, streams and operations *submit* work
to the runtime, *lease* transports from the pool and *fetch* tokens from a bearer;
`Channel.close()` runs through all of them: it stops admission, cancels submissions,
closes idle and leased transports, waits for registered closes, and then shuts the
runtime down. A part is composed with what it needs of its neighbours: a request has
the lease of its transport, its authorization rounds and a closing SDK in its state,
the pool has `close()`, receivers run on the steps of the token file itself.

What must hold: a native channel is used by one lease at a time and is never closed
under it; nothing leased or pooled is left open by `close()`; every accepted awaitable is
run or disposed of, once; a cancellation is delivered, once; a response that arrived is not lost to
a cancellation; closing always ends and everyone who asked for it is told; a rejected
token is not handed out again to whoever waits for a new one; whoever waits is answered.

## Modules

A module has the name of its part. `Lifecycle` and `CacheMap` are abstract
specifications; the `MC` modules instantiate the others for TLC; the `…Inv`, `…Steps` and `…Proofs`
modules hold theorems.

**ChannelPool.** A *wrapper* is an `AddressChannel`: one lease of a native channel. The
free lists, the lease registry and the per-wrapper flags are variables of their own;
`job` says which thread is inside which multi-step operation, so that everything
that runs without `_state_lock` between two critical sections can interleave. A transport
close is scheduled in three steps (retire, register, submit) that other
threads can separate. `close()` is the sequence RequestClose, SubmitClose,
CloseSnapshot, CleanupStart, CleanupDone, DrainAndComplete, with CleanupFailed and
CloseRejected as its error paths. Callers may return or discard any wrapper they were
ever given, also long after they returned it.

**ChannelClosing.** The same `close()` from outside: several closers (awaited, synchronous, with a
timeout), the finalizer that runs when the channel is dropped, the constructor's rollback, and background
work that is published, run or disposed of.

**Submission.** The loop's ready queue is a sequence, because the order of callbacks is
what the code relies on. The life of a submission is followed from admission in a
caller's thread through `start_on_loop` (claim, task creation, publication) and the
task's first step to `copy_outcome`; a handle may be cancelled at any point. Work may
call `close()`, which protects its task. `cancel_submissions` is a task of the same loop.

**RuntimeShutdown** and **Lifecycle.** The actors are the threads that can be inside
`shutdown()`. `run()`'s finally block reads its two flags under two locks, and so does
the model. `Lifecycle` is implemented by `RuntimeShutdown` under the mapping that calls
the runtime *closed* when `_shutdown_complete` is done and *closing* once it stopped
accepting work; the refinement is the property `KeepsPromise`.

**DaemonExecutor**, **CrossLoopAwaitable**, **ForeignBridge**, **LoopHandler.** A step is one critical section
or one callback. The executor is shut down twice, by the loop and by the runtime, as the runtime does it. An awaitable is
waited for directly, behind a shield, by a thread, or by a callback.

**Request**, **Stream**, **Operation**, **UnaryCall.** The coroutine on the SDK loop is a program counter;
callers, cancellations, clocks and the native call are actions of their own, and meet the
coroutine in the flags that the code guards with a lock. The circumstances of a call (an authorization provider, a
transport of the caller's, deadlines, a closing SDK) are chosen in the initial state. Time is a flag
that says that a budget has run out.

**RenewableBearer**, **FileRenewal.** A step is the code between two awaits. A token is
abstracted to whether a receiver has reported it as rejected (or to whether it has expired), which is all that the properties
tell apart. A waiter of an event or of a shared future is woken in one step and
resumes in another, because other tasks run in between.

**FileTokenCache**, **CacheMap**, **CacheReceiver.** The file is a lock, a content and the buffer of the lock
holder; a writer truncates and fills it in two steps and may die between them. A token that is written loses the fraction of its expiry, as
`Token.to_dict` does. `CacheMap` is what readers rely on; `ImplementsMap` says that the file implements it, with
the buffer of the lock holder as the map while it writes.

**TokenSources**, **Login.** Requests share one source: a file that is rotated, the metadata
service, or an exchange over a channel that is handed over later. A login has a callback server, tabs with the right
state, a wrong one or an error, and a timeout.

**DirectMessage.** Objects with one field of each singular kind; the caller keeps every message it ever
got. **FieldMask**, **FieldMaskParser** and **Wire** translate the recursive code and compare it with definitions that
say what paths, texts and bytes mean. Widths are constants, so that boundaries are reached with small numbers.

## Runs

| Run | Question | Result | Distinct states |
|---|---|---|---|
| `pool_safety` | Can leases overlap, the pool go wrong, or `close()` strand a transport? | holds | 1,003,844 |
| `pool_live` | Does `close()` end, and every registered close settle, also if tasks fail to start? | holds | 89,556 |
| `sub_safety` | Is every awaitable run or disposed of once, every cancellation delivered once, and nothing left by the drain? | holds | 360,492 |
| `sub_live` | Does the drain end, and work that calls `close()` return? | holds | 209,231 |
| `sub_close_in_finalizer` | Also when `close()` is called in a finalizer of drained work? | deadlock | |
| `shutdown` | Is there one finisher, is a success true, is the promise of `Lifecycle` kept, is every caller answered? | holds | 155,361 |
| `shutdown_late` | Also when close is asked while a stopped owned loop is cleaning up? | a caller is stranded | |
| `bearers` | Can a waiting fetch get a rejected token, a renewal or a turn be lost, a refused token be sent again? Is every fetch, request and login ended? | holds | 240,202 |
| `calls` | Are transports given back once and never under a running call, are responses kept, does a stored operation never go back, is every caller answered? | holds | 136,621 |
| `tokens` | Is the token file an atomic map although writers die, are refused tokens not handed out again, does every fetch end? | holds | 234,794 |
| `runtime_parts` | Does the executor starve nothing, is no wake-up lost, does cancellation cross loops, does every way to close a channel stop its runtime? | holds | 159,373 |
| `messages` | Do ownership, presence and oneofs agree, do copies stay apart, do masks, parser and wire mean what they should? | holds | 156,655 |

The runs `bearers`, `calls`, `tokens`, `runtime_parts` and `messages` put parts together that share no
state: a behaviour is one of one part, chosen in the initial state by `what`. Their properties
are conjunctions of the parts' properties, which are stated in the parts' modules.

Each property of a passing run is paired in `PROJECT.json` with a mutant: a
definition changed as a plausible bug would change it, under which TLC finds the
property violated.

## Bounds

- *Pool*: one address, three wrappers, a free list limit of one, the loop and one
  caller thread; three native channels of which at most two are used in a behaviour (the state constraint `TwoInUse`), so that every pair of an ordinary
  channel, one of a foreign loop and one that a caller wraps itself occurs. Two channels compete for one
  place in the free list; a channel is lent, returned and lent again, with a
  stale holder. That the list is never overfilled by more is proved (`PoolIsConsistent`). The run for liveness has one channel and two wrappers.
- *Submissions*: two, so that one can be drained while the other calls close.
- *Shutdown*: two callers, three fall-back threads (no more than three
  can be asked for), one protected submission, one executor call. The constant
  `Environments` lists the surroundings one behaviour may have: an owned loop, with or
  without an executor call that needs it, with threads and tasks that may fail to start, with
  a loop that something else stops; and a borrowed loop that may stop or be closed.
  `EveryCallerAnswered` leaves out the owned loop that something else stops, which is
  the question of `shutdown_late`. A dependent executor call is not combined with starts
  that fail: the fall-back stops the loop before it drains the executor, and whether
  the call then ends depends on what it waits for, which the model does not tell apart.
- *Renewal* (`bearers`): two receivers of three fetches each (`MaxRetries`). Two are enough for one to break or
  reject what the other waits for; the third fetch joins a renewal after it. *Sources*: two requests of two trials, three tokens
  (`MaxVersion`): one refused, one that replaces it, one that is unknown to the cache. *Login*: two tabs.
- *Calls*: a request with two retries and one more authorization round (`MaxRounds`), under the
  circumstances of `RequestEnvs`; a stream with two operations that race; two calls on one operation that needs one more version to be final, with
  one failing poll (`MaxFaults`).
- *Tokens*: two clients in one process or two, two names, two tokens of which the first ages and has a fractional expiry; one client retries.
- *Runtime parts*: two workers, three items (one more than the workers); three waiters on two loops, two on the same; three SDKs on one loop, so that
  one in the middle can be undone; two closers and one piece of background work.
- *Messages*: four messages, which is a chain of three and a copy; masks of two names and the wildcard of depth two,
  compared on paths of depth three; every text of nine tokens, enough for a group that is continued; a byte of two bits, integers of five and seven bits, five bytes: the last byte of a
  varint overflows each width; six fields with two levels of groups.

Counters that the code leaves unbounded are bounded by these constants alone, and each is a guard of
the action that counts. Symmetry is used only in runs without liveness, over model values that no definition
distinguishes.

Deadlock is checked in the pool runs and in `sub_live`. The other systems come to an end by themselves; their liveness properties say that nobody is
left waiting when they do.

## Fairness

Every thread that is inside an operation goes on, and the loop runs what is in its
ready queue: weak fairness of the thread steps and of the loop's steps, strong where a
single action of the model has to compete with other callbacks for the loop (asyncio's
queue is first-in, first-out, so it gets its turn). Callers are never forced to call
anything, and nothing forces a server to answer: a call with a deadline ends because the clock advances. The one server that is
assumed to answer is the operation service in `WaitEnds`, and only for settings in which it is not silent. Native closes, executor calls, source fetches and sleeps end (source
fetches have timeouts). A token source that is asked infinitely often answers at
some time (strong fairness of `SourceOk`, `SourceEnds("ok")` and `StoreOk`), without which no bearer could answer a plain fetch.

## Proofs

All hold for every value of the constants. TLC checks the same properties on the small instances.

- **Pool** (`ChannelPoolInv`, `ChannelPoolSteps`, `ChannelPoolProofs`; from `PoolAssumption`).
  `PoolTypeOK`, `PoolExclusiveLease` and `PoolIsConsistent` follow from the
  inductive invariant `PoolInv`. It adds to the three properties what
  the threads inside an operation know (`JobsOK`: the wrapper a thread is about to
  lend, to pool or to close is used, and is in no free list and not leased),
  `WrappersOK` and `LeasedSole` (what a free list or the lease registry holds is the only live wrapper of its
  native channel). Without `JobsOK` nothing prevents a thread between its two critical
  sections from putting a wrapper into a list where it already is.
  `PoolLiveNotClosing` needs in addition that a native channel on its way to being
  closed has no live wrapper, and is proved under the assumption that accepted
  tasks start (`~TaskStartMayFail`; without it the property fails, see below). `PoolNeverRevived` is an action property.
- **Request** (`RequestProofs`). `RequestTransportKept` rests on `TransportInv`: besides the property, an open native
  call means that the coroutine waits for it, and a call being cancelled means that the lease is already given up. `RequestOutcomeKept` rests on `FlagInv`,
  which ties the flags of an attempt to the place of the coroutine and says that a cancellation is recorded before the response can be. It assumes
  that no UNAUTHENTICATED answer carries a retry hint (`\A e \in Envs : ~e.hints`); with one the flags of the attempt before are reused.
- **Token file** (`FileTokenCacheProofs`, `CacheReceiverProofs`; from `CacheAssumption`). `FileImplementsMap` is the refinement of `CacheMap`: initial states map to initial
  states and every step to a step or a stutter. The invariant `CacheInv` says that exactly the client in its write holds the lock, that a locked file is empty, and that
  stored tokens have whole seconds. `FileGetSeesMap` is about reads. `ReceiversKeepMap` and `ReceiversSeeMap` carry both over to the composition with the
  receivers, whose steps are steps of the file or leave it alone (`ReceiverStepsFile`).
- **Awaitable** (`CrossLoopAwaitableProofs`; from `AwaitableAssumption`). `WaitersAreServed` from `AwaitableInv`: whoever sleeps is registered or has its wake-up
  posted unless its loop closed, and nobody registers after the callbacks ran.
- **Executor** (`DaemonExecutorProofs`; from `ExecutorAssumption`). `ExecutorIsSound` from `ExecutorInv`, whose core is `Balance`: as long as threads may be
  started, queued items and permits of the semaphore together are as many as idle workers.

Only model-checked: all liveness (it needs ENABLED and fairness), `NothingStranded`, the refinement of `Lifecycle`, and everything
about the other modules. `FieldMask`, `FieldMaskParser` and `Wire` use recursive operators, which the prover does not support, and what recursive definitions compute for every input
would need induction over data.

## Findings

Each is a run that TLC refutes, with the quoted text in `PROJECT.json`.

1. `sub_close_in_finalizer` (`aio/_runtime.py:1593`): `close()` called by a finalizer of work that is being
   drained waits for the drain, and the drain for the finalizer.
2. `shutdown_late` (`aio/_runtime.py:931`): whether to recover a shutdown is decided before the cleanup
   during which a shutdown can still be accepted.

## Further disagreements

The models contain these behaviours, and the properties are stated around them; no run of
their own is kept. The first three are counterexamples that TLC found to the stronger property; the others were met while the code was
translated.

1. `aio/channel.py:3277`: a deferred release that fails to start closes the native channel of a
   wrapper that was returned before, under a later lease. `aio/base.py:80`: "A fresh wrapper prevents an old holder from
   releasing a later lease." (`LiveNotClosing` with `TaskStartMayFail = TRUE`.)
2. `aio/token/renewable.py:660`: stop and close leave waiting fetches waiting. Line 652: "Stop the
   renewal background task and unblock any waiters."
3. `aio/token/renewable.py:529`: a failed renewal clears the request, and the rejected token
   is handed out again to a plain fetch. Line 416: ":returns: A fresh :class:`Token` instance."
4. `aio/token/token.py:217`: `_latest` has no default, although its docstring says "or `None` if no token has been fetched yet". If the first fetch
   fails, `can_retry` of `file.py:85` and `imds.py:120` raises AttributeError, and `request.py:1440` raises it in place of the authentication error.
5. `aio/token/impersonated.py:106` awaits the deferred channel without a shield (`exchangeable.py:183` has one): a timeout cancels it for all, and a retry
   awaits a finished coroutine.
6. `file_cache/async_renewable_bearer.py:366` ("If the token is missing or too close to expiry a renewal is requested."): `is_renewal_required()` looks at the copy in memory alone, so neither a token that is gone from the file only nor one that is close to expiry leads to a request.
   Line 554: `_run` dies when its first read of the cache fails, against line 544 ("Failures are logged and the retry interval is increased"). Line 673 ("will not perform further renewals"): a renewal task that sleeps is woken by stop and makes one more attempt.
7. `token_cache.py:121` ("Clean up expired token"): check and removal use different locks, so a live token stored in between is removed. The docstring of `get` speaks of a shared lock; the
   exclusive one is taken.
8. `file_cache/renewable_bearer.py:98` ("Avoid reusing the same token after an error"): tokens are compared with their expiry, of which the file keeps whole seconds, so a refused text can come back
   as an unequal token.
9. `aio/request.py`: an UNAUTHENTICATED answer with a retry hint is retried with the flags of the attempt before; `done()` can turn false again
   when an UNAUTHENTICATED answer is classified after the budget ran out; `_await_native_call` can swallow the single cancellation of a closing SDK, and the request runs to its deadline.
10. `aio/operation.py:553` takes `min` of an empty list when all limits are None, although line 459 says "Use ``None`` for an unlimited timeout."
11. `aio/stream.py:518`: `aclose()` of a stream past its deadline times out, although "Close cleanup disables this limit".
12. `aio/channel.py`: a stub call that was cancelled while its native call ended with OK reports `cancelled()` and code OK; `code()` of a call cancelled before it was
    created raises CancelledError although the status is known.
13. `federation_bearer/auth.py:246` ("Timeout in seconds for the entire flow."): the exchange of the code at line 270 is outside the timeout; a login cancelled while the browser
    opens leaves its callback server listening (lines 112–149).
14. `base/fieldmask_parser.py`: one new node is shared by the members of a group, so `(a,b).c,a.c.d` also contains `b.c.d`. `base/fieldmask.py`: `subtract_reset_mask` drops a trailing wildcard whatever is
    subtracted.
15. `base/protos/direct.py`: `MergeFromString` on a child that was handed out lazily does not make it present in its parent; a detached child goes on sharing the recorded resets of its parent, although line 297
    says "Each message owns its Python state."

## Simplifications

- Time is abstracted throughout: a timeout, an expiry or a backoff is a step that may happen, or a flag. Retry
  delays, safety margins and jitter are not numbers.
- A token file is rotated forwards: it never goes back to an older token.
- Native gRPC, asyncio, locks and threads are modelled by how the code uses them, and marked external in `PROJECT.json`. Callbacks posted to a loop run in
  order where the code depends on the order (`Submission`), and in any order elsewhere, which allows more.
- Exceptions are told apart only as far as handlers tell them apart.
- Messages in `DirectMessage` have singular fields only. Repeated fields, maps and extensions have the same ownership rules through containers and are left out.

## Not modelled

Metrics observe only. Configuration and credential readers, keepalive options, resolvers, metadata, the
retry table of `service_error.py`, JSON, reflection and the dynamic messages of `base/protos` compute values from values in one
thread, and their difficulty is the formats, not the control. Client construction is glue. The documentation generator is a build tool. Generated clients in `api/` (more than half of
the package) repeat one pattern, a method that constructs a `Request` or a `Stream`, and have no behaviour that the models of those
two do not have; mapping them would claim lines that no definition translates. Of the hand-written code, about 30,000
lines with their documentation, the models translate about 9,300.

Worth adding next: a composition of `Request` with `ChannelPool` itself instead of its promise, of `Request` with
`RenewableBearer`, containers in `DirectMessage`, and proofs of `WorkAccounted`, `ShutdownSound` and `RenewedIsNew`.
