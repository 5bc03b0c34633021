# Nacos Rust SDK: specification and proofs

TLA+ modules of the client in `src/src`, the configurations that model-check
them with TLC, and theorems about them checked by TLAPS. Paths below are
relative to `src/src` of the repository unless they say otherwise.

To check a run: `tlc -config <cfg> <module>`, where a configuration `X.cfg` or
`X_Y.cfg` belongs to `MCX` if there is one and to `X` otherwise; a proof:
`tlapm <module>Proofs.tla`.

## The system

A client process talks to a Nacos server over one long-lived gRPC connection
per service object (naming or config). Everything runs as tokio tasks on the
SDK's own runtime (`common/executor`, one worker thread by default); tasks
interleave at every `await`, and spawned tasks run in no particular order.

| Component | State | Operations | Talks to |
|---|---|---|---|
| gRPC connection (`common/remote/grpc/nacos_grpc_connection.rs`) | `State`, retry count, `is_initialized`; shared with tasks: `health`, `last_active`; watch channel with the connection id | `poll_ready`, `call`, bi-stream task per attempt, health-check task, drop | transport, server list, handlers of server pushes, listeners |
| connection listeners (same file) | `previous_id` of each listener task | `connected_listener`, `disconnected_listener` | watch channel; call-backs of the naming service |
| gRPC transport (`tonic.rs`, `nacos_grpc_service.rs`) | channel, callbacks | unary and bi-directional calls | network |
| gRPC client (`nacos_grpc_client.rs`) | `Buffer`, auth plugin | `send_request`, builder | connection |
| naming redo (`naming/redo`) | map of redo tasks, active flag of each | `add_task`, `remove_task`, the executor's loop, reconnect and disconnect | client; naming service |
| naming service (`naming/mod.rs`) | none of its own | register, deregister, subscribe, unsubscribe, select | redo, client, observer, updater, cache |
| naming cache, observer, updater (`naming/observable`, `naming/updater`) | cached services, listener registry, update tasks | push handler, emit, observe, poll a service | cache, client |
| instance chooser (`naming/chooser`) | cumulative weights | choose | - |
| config worker (`config/worker.rs`, `config/cache.rs`, `config/handler.rs`) | cache of `CacheData`, `notify_change` channel | get, publish, remove, add and remove listener, list loop, notifier, push handler | client, cache, config filters |
| cache and disk store (`common/cache`) | `DashMap`, files | insert, get_mut, remove, load, save | file system |
| server list (`common/remote/server_list`) | index, cached list | next server, refresh | endpoint over HTTP |
| authentication (`api/plugin/auth`) | token, expiry | login loop, identity | HTTP server |
| config filters (`api/plugin/config_filter.rs`, `encryption.rs`) | - | filter | config worker |
| public api, properties, messages, macros | - | validation, builders, encoding | - |

What makes it correct, component by component:

* **Connection.** Requests end; after any fault the client comes back to a
  connection that lives and receives pushes; a flag or an id that many tasks
  share speaks of the connection that is up; a dropped client leaves no task.
* **Transport.** A call is made at most once and only while its caller waits;
  caller and call never wait for each other; replies to the server keep their
  order and none is swallowed.
* **Listeners.** Every connection and every loss is reported, once, in order.
* **Naming redo.** What the application has registered is registered in
  whatever session is up; what it has deregistered stays so; nobody is blocked.
* **Naming cache, observer, updater, chooser.** The cached service follows the
  server and never goes back; listeners come to know it; unsubscribing ends the
  updates; an instance that is selected may be used, in proportion to its weight.
* **Config worker.** The cache comes back to the server's content, no listener
  is lost, each comes to know the newest content; compare-and-set loses no
  update; what one client encrypts the others read.
* **Disk store.** What is loaded from a file is a value the cache once had for
  that key, also after a crash; no later step of the process puts a file behind a
  change that is done, and in the end it holds the newest.
* **Client, server list, authentication.** Building ends if the servers answer or
  are lost; a failed refresh
  keeps the last good list, which is never empty; every server gets its turn;
  a token does not end before it is renewed.

The hard behaviours are the interleavings of tasks around shared flags, the
half-dead connection, requests and answers that outlive their session, callbacks
spawned without an order, check-then-act around an `await`, lost pushes, stale
cache entries, crashes between two file operations, and timers that add up.
`PROJECT.json` lists each as a hazard at its line.

## Modules

    Session  <---refines---  GrpcConnection  <--EXTENDS--  GrpcConnectionProofs
       ^ EXTENDS
    Listeners
       ^ EXTENDS
    NamingRedo  <--EXTENDS--  NamingRedoProofs, MCNamingRedo
    GrpcCall  <--EXTENDS--  GrpcCallProofs, MCGrpcCall
    InstanceChooser  <--EXTENDS--  NamingInfo  <--EXTENDS--  NamingInfoProofs, MCNamingInfo
    ServerList, ClientProps  <--EXTENDS--  Client  <--EXTENDS--  ClientProofs, MCClient
    AtomicStore  <---refines---  CacheStore  <--EXTENDS--  CacheStoreProofs, MCCacheStore
    ConfigListen  <--EXTENDS--  ConfigListenProofs, MCConfigListen
    ConfigPublish  <--EXTENDS--  ConfigPublishProofs, MCConfigPublish

`Session` and `AtomicStore` are abstract specifications.
`Session` is the interface between the layers: the values an observer of the
connection id may see. `GrpcConnection` is shown to implement it, and `Listeners`
and `NamingRedo` are built on it, so that a property of the redo protocol does
not depend on how a connection comes about. Where a module needs another
component it takes what is shown of that one: `NamingInfo` the promise of a redo
task (a lost subscription comes back, `Resubscribe`), `Client` a connection that
is made or not, `ConfigPublish` a cache entry that is refreshed sometime.

**Session.** `watch` is the value of `connection_id_watcher`, `opened` the number
of attempts. `Open` withdraws the id, `Establish` announces a new one.

**GrpcConnection.** One action per arm of `poll_ready` (`OpenConnection`,
`ServiceMade`, `ServiceNotMade`, `InitComplete`, `AbandonUnhealthy`,
`ServiceNotReady`, `RetryElapsed`), the steps of `init_connection` between its
awaits (`SetupStream`, `ServerChecked`, `SendConnectionId`), the bi-stream task
of each attempt (`StreamOpens` to `StreamReset`), the health-check task
(`ProbeStart` to `ProbeQuits`) and one user request in the `Buffer`. `stream`,
`connId` and `link` are functions of the attempt, because tasks of old attempts
live on; `health` and `active` are single flags, because they are in the code.
`active` stands for `last_active` being less than an interval old. A transport is
`up`, `lost` (half-dead: nobody is told) or `closed`. `poll_ready` moves only
while the `Buffer` worker has a message whose caller still waits (`Polled`): a
future that was dropped on time-out is skipped by the worker.
`max_retries` counts attempts: with 1 there is one, and no retry.
A bi-stream may fail to open, or end, with its transport or on one that lives.
Only a task that was reading lowers the health flag, if it is up at that moment; a
task that ended otherwise is `unheard`, and a connection that has come up with
such a stream is `Deaf`: its probes succeed, and nothing ever opens a stream again.
The sequence of up to four health checks inside `init_connection` is one step
with the check of the server: its failures are ignored by the code.

**GrpcCall.** Below the connection: one unary call and the call that opens the
stream, each with a callback (the want by which the caller asks for the call to
be made, and a oneshot channel for its answer), the task of the call, and the
reading of the answer (`FromPayload`, `HandleResponse`). Callers may leave at any
time (`Drop`: a time-out). Then the bi-stream task: it takes the server's
messages one by one, runs their handler and puts the reply into the bounded
channel that holds the setup request first.

**Listeners.** Each listener task has an unseen mark and its `previous_id`. A
watch receiver sees the latest value only.

**NamingRedo.** A redo task is a number; `keyOf` gives its key, `active` the
tasks whose flag is set, `map` the executor's map. `todo` and `running` are one
round of the executor, during which it holds the read guard of the map
(`Guarded`); `add_task` and `remove_task` wait for it, and the callbacks and the
next round behind them (`WriterWaits`), for tokio's lock lets no reader pass a
waiting writer. A request is *waiting* in
the `Buffer`, *sent* on a session, *applied* or *rejected* at the server and
answered, or broken with its session. The server keeps the registrations of each
live session. The caller of a key makes one call at a time.
The environment's bad habits are switches (below).

**InstanceChooser.** `select_instances_async` as a filter, and
`RandomWeightChooser` over natural weights, with the running sums of the code, and
all draws of a grid fine enough to hit the inside and the borders of every share.
Both are functions of the number of hosts gone through. `IsGood` and `Fair` say
what a choice has to be, without the running sums.

**NamingInfo.** One service, whose n-th version has `last_ref_time` n and the
hosts `Hosts[n]`. Producers of a `ServiceInfo` are the push handler and the update
tasks (what `subscribe_async` returns, from the cache or from the server, is
thrown away by `subscribe`, its caller, and not put in the cache); `heard` is the
version of the last event a listener was called with, and `held`, a history, what
the cache held when it was added; `Emit` is `process_service_info` (protection against empty pushes,
comparison by address with the cached hosts, insert), the
channel to the observer has a bound, and each event to a listener is a task of its
own. An update task has its own running flag, back-off and `last_refresh_time`;
`ScheduleUpdate` and `StopUpdate` change the map of tasks. `ParallelSpec` takes
`Emit` apart into the comparison, the insert and the send: between the first two
the code has no await, so that only a runtime with several workers interleaves
them (the SDK's has one by default).

**ConfigListen.** One config and its `CacheData` (`entry`), the bounded channel
(`chan` counts keys, all the same here), each listener's call of `add_listener`,
the notifier and the list loop at each of their awaits, and the server as far as
the code relies on it: it answers queries, compares md5s and pushes to a
connection that has sent a listen request. `sent` and `seen` are history: what
was sent to a listener, and the content it knows of (what it found in the cache
when it was added, or was notified of).

**ConfigPublish.** Several clients read one config (`Get`: from the entry or from
the server, through the filters), add a mark and publish it in one of the ways of
`ConfigService`, with the parameters put together in the order of
`publish_config_inner_async`. A content is a set of marks under layers of
encryption; an encryption plugin puts a layer on and takes only its own off. The
server compares md5s; requests may be lost before or after they are executed, or
be executed late.

**CacheStore.** The map, and one task per change at each of its awaits: take the
bytes, open the temporary file, write, sync, rename; or unlink. Files are names of
inodes, as in a file system: a handle that is open keeps its inode when another
task renames or truncates it. `raced` are temporary files that two tasks have used
at once, `saved` is the last change of a key whose task is done. A task may write
a later value than that of its change, for it takes the bytes when it runs.
`write_all` of a tokio file only hands the bytes over: its error is put aside by
the `sync_all` that follows (`WriteFails`), and what was not written whole is
renamed into place; `unwritten` are the changes of which that is so. The directory
is made by a task whose error is dropped (`MakeDirFails`). The process ends at any
step (`Killed`), or the machine does (`PowerFails`): content that was not synced
may then be torn, and as nothing syncs the directory, each file name leads to what
it led to when it last reached the disk (`journal`), which may undo a rename whose
task is done long since. The process starts again with or without loading.

**AtomicStore.** What whoever uses the cache may rely on: a save replaces a file in
one step, by the value of a change that is not done yet or by a later one, or, if a
write has failed unseen, by what load does not take; a file vanishes only for a
removal of its key; the end of the process takes the map and no file, that of the
machine leaves each file as it was when it was last settled, which nobody waits
for; and what is loaded is what the files hold. Nothing is promised of a key whose
temporary file two tasks have used at once (`free`).

**ServerList, ClientProps, Client.** `ServerList` is what the parser and the
polling compute, `ClientProps` what the properties, the environment and the
builder make of a client. `Client` runs one from `build` on: it makes the
provider, connects and checks, starts all the same in emergency (also without a
cache on disk, which `api/props.rs:405` excludes: `Client_EmergencyHasCache`), logs
in, and then refreshes the list and the token while connections come and go. Time
is a counter in units of 10 s; a task that can run does so before time passes.

## Runs that pass

| Run | Bounds | Shows |
|---|---|---|
| `GrpcConnection` | 1 fault (4 attempts), budget 1, 2 probe attempts; 23 thousand states | `TypeOK`, `HealthOnlyWhenConnected`, `RetryBudget`, `SessionRefined`, `RequestCompletes`, `PushChannelRestored`, `ProbeStopsAfterDrop` |
| `NamingRedo` | 1 service, 3 sessions, 2 register calls, prompt tasks, callers may be refused; 174 thousand states | `RedoTypeOK`, `DisconnectNamesTheDead`, `RoundWithinMap`, `NoRedoAfterLeaving`, `CallsReturn`, `WantedIsRegistered` |
| `ConfigListen_safety` | 2 listeners, 2 contents, 1 change, 1 loss, channel of 1, the config may be missing, calls in sequence | `ConfigTypeOK`, `ToldIsSent`, `NoListenerLost`, `CacheConverges` |
| `ConfigListen_listeners` | 1 listener, 3 changes, 1 loss, the config exists | `ListenersConverge` |
| `ConfigPublish` | 2 clients, one with a listener, 2 marks each, plain or AES with two plugins for it, 1 request lost or late; 107 thousand states | `PublishInv`, `ReadsArePlain`, `NoUpdateLost`, `CasSucceeds` |
| `CacheStore` | 1 key, 3 changes, 2 tasks at a time, 3 attempts, 1 failing operation, 1 end of process or machine; 212 thousand states | `StoreTypeOK`, `FilesGenuine`, `StoreRefined`, `DiskCatchesUp` |
| `NamingInfo` | 1 listener, 2 versions, 2 update tasks, channel of 1, 1 fault, with and without clusters and protection; 381 thousand states | `NamingInv`, `CacheNeverGoesBack`, `CacheFollowsServer`, `ListenersInformed`, `OneUpdater` |
| `Client` | 8 ways to set up a client, 3 answers of the endpoint, refresh and login every 30 s, a token of 120 s, 4 indexes; 202 thousand states | `ClientInv`, `TokenOutlives`, `BuildEnds`, `ListCatchesUp`, `EveryServerTried` |
| `GrpcCall` | 1 request and the stream, 5 messages of the server, channel of 2, 2 failing calls; 12 thousand states | `CallInv`, `SentAtMostOnce`, `CallsComplete`, `EveryAskAnswered` |

The bounds. A fault concerns one attempt, and the properties of the connection
relate at most an old and the current one; the safety of every component is
proved for every value of the constants. The number of attempts is not bounded by hand:
`MaxAttempts` is what the faults can cause, and `PushChannelRestored` would fail
if the bound stopped an attempt that is needed.
Three sessions let a task survive two losses, two register calls replace a task
under its key. A channel of one is full as soon as a push and the list loop
coincide; with sixteen that takes sixteen pushes. Md5s are compared for equality
only, so two contents suffice for "same" and "other"; the third change lets an
old content come back.
Two tasks are enough to share a temporary file, and a third change follows the two
that have raced. The properties of the store speak of each key by itself; that the
temporary file of two keys may be one is checked with `CacheStore_shared` (2 keys,
1.6 million states, `FilesGenuine`, which holds there too). Two update tasks are one
that was stopped and has not noticed, and its successor. The two versions go from nothing usable to a choice with
instances that must not be chosen. The three lists of the endpoint have an
unreadable address, no address, and other servers; four indexes wrap at a number
that three does not divide. The token's 120 s keep the
proportion of a tenth that the code tests; `Tolerated` says how many failed logins
in a row it has to outlive, and with none it would be trivial; the times meet the
hypothesis of `TokenOutlivesTheorem` with equality, and with a token that lives 10 s
less TLC finds a counterexample. Five messages are
one of each kind the bi-stream task tells apart.

`CHECK_DEADLOCK FALSE` is given because each system may come to rest: the
client is dropped or not built, callers stop calling, changes and faults are
bounded.

## Runs that end in a violation

Each states what a comment, document or test of the repository says, and is
refuted by what the code does. `PROJECT.json` quotes the lines.

| Run | What happens |
|---|---|
| `NamingRedo_Rejections` | a redo request the server failed counts as done |
| `ConfigListen_ListenerLost` | overlapping `add_listener` calls: one listener is lost |
| `ConfigListen_FirstPublish` | the first publication is not notified |

Further configurations, not among the regular runs, give counterexamples. The
first four refute a line of the repository as well:

| Configuration | Counterexample | The line |
|---|---|---|
| `GrpcConnection_NeverDeaf` | a bi-stream that cannot be opened on a living transport: the connection stays healthy and without pushes | `nacos_grpc_connection.rs:223`: "the bi stream task has already quit", which is meant to fail such a connection |
| `NamingInfo_InitialData` | a listener subscribed on a cache hit is told nothing until the hosts change | `naming/mod.rs:537`: "The initial response data will come from cache (if available) or be empty." |
| `CacheStore_FlushedBeforeRename` | a buffered write fails unseen, and the torn file is renamed into place | `common/cache/disk.rs:49`: "Ensure data is flushed to disk before renaming" |
| `Client_EmergencyHasCache` | emergency start with `CacheKind::None`, and nothing loaded | `api/props.rs:405`: "so the emergency startup mode is not available with this kind" |

The others explain a switch or a remark in the modules:

| Configuration | Counterexample |
|---|---|
| `GrpcConnection_AbandonedStreamStops` | the "destroyed" connection goes on receiving pushes |
| `ListenersMissed` (`Listeners`) | a listener task that wakes late misses a connection |
| `NamingRedo_LeavingLasts` | a redo request in flight registers again after deregister |
| `NamingRedo_LateCallbacks` | spawned callbacks swap: the disconnect of the old session freezes what the new one needs |
| `NamingInfo_OtherListener` | `unsubscribe` of one listener ends the updates of the other: the cache stays behind |
| `NamingInfo_SameAddress` | of two instances with one address one falls ill, and the comparison finds no change |
| `NamingInfo_Parallel` | on several workers two producers compare before either inserts: the older version stays |
| `ConfigListen_Unfiltered` | an entry loaded from disk delivers unfiltered contents |
| `ConfigListen_RemovedStays` | a removed config stays in the cache |
| `ConfigPublish_Preloaded` | `get_config` from an entry loaded from disk returns the cipher text |
| `ConfigPublish_TwoFilters` | two filters that encrypt decrypt in the wrong order |
| `Client_ScheduledContinuously` | a login answer that is cut off ends the auth task (`api/plugin/auth/mod.rs:21`) |

The switches separate these from each other and from the passing runs:
`PromptTasks` (local tasks finish what a lost session has caused before the next
session starts, unless the lock holds them up, and callbacks run in their order),
`Zombies` (a session may live on at the server after the client has given it up: an
answer on it then freezes the task the new session needs), `Rejections` (the senders that may be answered with a failing
result code); `PromptListeners` for naming (events are spawned, and without it an
older one may reach a listener last, which refutes `ListenersInformed`); `Loaded`, `Missing`, `Overlapping`,
`Unordered` (spawned notifications arrive in any order, an older one last, which
refutes `ListenersConverge`) and
`Preloaded` for config. The passing runs hold under the switches their
configuration shows, and the violations say that they are needed. The passing runs
of `CacheStore` speak of files whose temporary file was used by one task at a time
(`Undisturbed`).

## Fairness

* A spawned task that can run does (weak fairness per task): the runtime polls
  every woken task.
* `poll_ready`, `ServeRequest`, `ServeProbe` and the two `GiveUp` actions are
  strongly fair: they are enabled only while a caller waits, and each wait lasts
  seconds, during which a transition that is possible is polled. The `Buffer`
  serves messages in order.
* A lost transport is closed by the keep-alive in the end (`config.rs:59`).
* `GapsSpec` adds that intervals without traffic recur. Without it a server that
  keeps pushing on an abandoned stream puts the probe off for ever, for every
  message stores `last_active`.
* In `NamingRedo` weak fairness of the callers is enough, for nothing overtakes a
  writer that waits for the lock.
* In `ConfigListen` `ListNotify` and `HandlePush` are strongly fair: both wait
  for room in the same channel, whose permits are handed out in order.
* In `Client` time passes, and not every request to the endpoint fails
  (`EndpointAnswers` is strongly fair, for `ListCatchesUp`). Requests over http have
  a time limit; those on a connection have none, so that no fairness makes a server
  answer: `BuildEnds` says that building ends unless a server leaves the check of
  the server, the set up or the health check open for ever, and `EveryServerTried`
  is about histories in which connections are made and lost again and again.
* In `NamingInfo` the redo task restores a lost subscription (`Resubscribe`);
  pushes may be lost for all that, and only the updater is relied on.
* Faults, losses, crashes, restarts, changes, user calls and drops are never
  required.

## Proofs

Every safety invariant and every action property of the passing runs is a theorem.

| Theorem | Statement | Supposes |
|---|---|---|
| `TypeCorrect` | `Spec => []TypeOK` of the connection | |
| `HealthTheorem` | the health flag is up only in `Connected` | |
| `RetryBudgetTheorem` | no more failures than `MaxRetries` before the first success | |
| `SessionTheorem` | `GrpcConnection` implements `Session` | |
| `CallInvTheorem` | replies leave in the order of the requests they answer, the channel never exceeds its size | |
| `SentAtMostOnceTheorem` | a call is made at most once, never before it is wanted, and was made if its caller is told ok | |
| `DisconnectTheorem` | the listeners never report the live connection as lost, alone and in `NamingRedo` | |
| `RedoTypeCorrect` | the types and bounds of the redo protocol, of the pending callbacks above all | |
| `RoundTheorem` | the executor's round is within the map | |
| `NoRedoTheorem` | no redo request for a key after its deregister | |
| `NamingTypeCorrect` | types, with the bound of the observer's channel: no producer waits with two changes | |
| `CacheNeverGoesBackTheorem` | a cached service is never replaced by an older version | |
| `NamingInvTheorem` | `NamingTypeOK`, and `SelectionSound`: a selected instance may be used, one is found if there is one, each has its share of the draws | no list names an instance twice (`NoTwins`) |
| `ConfigTypeCorrect` | types, with the bound of the channel to the notifier | |
| `NoListenerLostTheorem` | an added listener stays | `~Overlapping` |
| `ToldIsSentTheorem` | a listener is marked with the md5 of what it was sent last | `~Overlapping` |
| `PublishInvTheorem` | a content and the data key beside it belong together, in the server and in every entry | `Assumed` |
| `ReadsArePlainTheorem` | `get_config` returns a content as it was given to `publish_config` | `Assumed` |
| `NoUpdateLostTheorem` | a publication that compares takes away no mark its application has not read | `Assumed` |
| `StoreTypeCorrect` | types, with attempts, inodes and tasks within their bounds | |
| `FilesGenuineTheorem` | a file of an undisturbed key holds a value of it, no older than the change that was done last of those that survive, or what load leaves out because a write of that change failed unseen | |
| `StoreTheorem` | `CacheStore` implements `AtomicStore` | |
| `ClientInvTheorem` | the list held is never empty, the index within its width, no aliyun client is up without its keys | |
| `TokenOutlivesTheorem` | a token outlives `Tolerated` failed logins in a row | its life is `Timeout + Delay + (Tolerated + 1) * (Period + 2 * Timeout)` at least |

They hold for every value of the constants under the named assumptions of the
modules (counts are natural numbers, the executor is not a key, a list of hosts
has natural weights) and the hypothesis of the third column. Each of these is
needed. `ConfigListen_ListenerLost` is the counterexample for overlapping calls,
and with `ToldIsSent` in its place for the other theorem. `Assumed` is that no algorithm is known to
two filters (without it: `ConfigPublish_TwoFilters`) and that no entry was loaded
from disk (`ConfigPublish_Preloaded`). The token of the run `Client` meets its
bound with equality, and one that lives 10 s less does not outlive. `NoTwins` is
what the server keeps: the share of an instance is spoken of by its name, and two
entries of one name would have it twice.

*Connection.* `HealthOnlyWhenConnected` is not inductive: `InitComplete` raises
the flag, and only `PhaseInv` (`init_connection` exists exactly in
`Initializing`) says from which state. `BudgetInv` adds that `Connected` is
reached only with `is_initialized`, so that `ServiceNotReady` and
`AbandonUnhealthy`, which do not look at the budget, cannot exceed it. `WatchInv`
says that the id stays withdrawn from `Idle` to the success; with `AttemptInv` it
makes `InitComplete` an `Establish` of `Session`. `OutsideStep` is the lemma for
the many actions that touch neither the state machine nor the watch.

*Calls.* Two invariants that know nothing of each other. For the unary calls
`AskedFor` orders the caller, the want and the task, and `Truthful` follows an
answer from the task to the caller: whatever reads as a success in the task, in
the oneshot channel or in the hands of the caller has been done once. For the
bi-stream, `InLine` says that the replies sent are older than the message being
handled, and that one older than the messages still to come; from this the order
of the replies.

*Listeners.* `SeenInv`: no listener has seen an id that was not announced, and
while the id is withdrawn none has seen the latest. `LostInv`: an id told as lost
is older than the latest, and than the one that will be told next.

*Redo.* `RoundWithinMap` needs that a task in the map lies under its own key
(`OwnKeys`) and that the writers wait for the round (`Guarded`);
`NoRedoAfterLeaving` follows with `LeftInv`, a key left has no task in the map.
That callbacks stay bounded is a fact about two modules: every one that is
spawned is one of an id told (`PendingInv`), and the ids told increase
(`ListenersInv`). `RedoImplementsListeners` carries the latter over, for each step
of `NamingRedo` is one of `Listeners` or leaves its variables alone.

*Naming.* The type invariant bounds the channel by its size and one waiting change
for each producer; it is inductive with `WaitingApart` and `TasksInv`: a task that
queries has nothing waiting. The selection is a fact about the operators of
`InstanceChooser`, for hosts of any number and weights: `Chosen` finds the first
running sum beyond a draw, `SharesApart` and `ShareSize` say that the draws of an
instance are those between its sum and the one before, and `SelectedIsFair` that
their number is within one of what its weight asks for.

*Config listening.* Between the check for an entry and its creation a call of
`add_listener` holds no lock; `OneAdder` (calls in sequence) makes it safe, and
`EntryFirst` that an entry is there when listeners are added to it. `NotifierInv`:
from its snapshot to the dispatch nothing changes the md5 under the notifier.

*Config publishing.* `IInv` follows a content through its life: in the server, in
entries, with the applications, in requests on their way and in late ones it is
`Genuine`, that is, a plain content under what the filter chain puts on it for
one algorithm. The chain is a fold over any number of filters; `FoldExists` and
`FoldPath` unfold it, and as one filter only knows the algorithm (`Uncontested`),
all others pass the content on, there and back. For `NoUpdateLost`: `CasFits`, the
md5 a request compares with is that of a content whose marks the request
contains; and as equal md5s mean equal marks, an executed request takes none away.

*Store.* The property that comes to mind, a file never goes back to an older
value, does not hold: a late task may write the value of a later change than its
own, and the task of a change between the two then puts that one in its place. TLC
finds this on instances with more changes at once than the run's. What holds
is that the file is never behind a change whose task is *done*. `TaskInv`: a task
writes its own value or a later one. `NamesApart` and `HandlesApart`: an inode has
one name, and a handle was opened by the temporary name of its task. `TurnsInv`:
where tasks take turns, the task at work is the first of them in time, has the
temporary file for itself (`WorkInv`), and in it what it has written, or a torn
content if that write failed unseen (`Written`). `FilesInv` follows with each
rename: what a file name leads to is genuine, synced and not behind `saved`, and
what it leads to on the disk (`journal`) not behind `settled`; so the end of the
machine, which makes file and `saved` those of the disk, tears no file and leaves
the invariant as it is. Tasks that end one way or the other share the lemmas
`RetiresInv`, `WorksInv` and `FinishesFacts`. With the same invariants `StoreTheorem` maps each step to one of `AtomicStore` or none:
`FilesUntouched` (no task has the file of an undisturbed key open) makes everything
a task does before its rename invisible; the rename is the `Save`, by `TurnsInv` and
`AskedInv` (a task does a change of its own key) of a change that is next; and a
task that starts out of turn is a `Disturb`.

*Client.* `Left` is the time until the login under way, or the one after the
sleep, is over. `BudgetInv`: during the hold, the age of a token and the rest of
the hold make no more than the hold, a request and a unit; after it, the age and
`Left` no more than that many cycles as logins have failed, and one. A cycle is a
sleep, a refresh of the list and a login, each of the two up to a time-out.

*Induction over data.* The running sums, the filtered hosts and the folds are
recursive functions. What they compute is proved first-order: a recursive function
on `0..N` has the values its definition says (`Recursion`, `FoldExists`), and a
fact about all of them holds because there is no least counterexample (`Least`,
from the library's `WFMin`; `UpTo`).

Each inductive invariant was checked by TLC on the instances above before it was
proved. What stays with TLC is everything under fairness, which is out of reach of
the prover: `RequestCompletes`, `PushChannelRestored`, `ProbeStopsAfterDrop`,
`CallsReturn`, `WantedIsRegistered`, `CacheConverges`, `ListenersConverge`,
`DiskCatchesUp`, `CacheFollowsServer`, `ListenersInformed`, `OneUpdater`,
`BuildEnds`, `ListCatchesUp`, `EveryServerTried`, `CallsComplete`,
`EveryAskAnswered`, `CasSucceeds`.

## Not modelled

* Encoding, field names and generated stubs, logging, argument checks: no
  concurrency of their own. Client abilities and labels: data that nothing reads.
* What a digest or a cipher computes; which requests the Aliyun plugin signs
  and whether it has keys, and the order and key of the encryption are modelled.
* `get_service_list`, `get_all_instances` for a service nobody listens to: single
  requests that leave no state. Batch registration uses the redo protocol of
  `NamingRedo` under a key of its own, and has no deregistration.
* The tokio runtime, tower and tonic: modelled by what the code relies on.
* Panics on answers the server does not give: `fill_data` on an incomplete
  response (`config/worker.rs:424`). A panic of a login is modelled (`Panic`).
* Ports above 64535: `GrpcPort` wraps as a release build does; a debug build
  panics. No configuration has such a port.
* More than one config, service or request at a time per caller. The redo key has
  no ip and port (`naming/redo/automatic_request.rs:45`), so that a second
  instance of a service replaces the redo task of the first: `NamingRedo` has the
  replacement (two register calls of a key) as what the caller of the key wants.

## Plan

1. A service registry ("what is wanted is registered, what was left is not") that
   `NamingRedo` implements, proved with the invariants above.
2. `ConfigListen` with two configs (one channel, one notifier).
3. More of the naming service: batch registration and a service with two
   listeners.
