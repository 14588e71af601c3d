# tx-lcn in TLA+

Models, checks and proofs of the core of tx-lcn, a distributed transaction
framework for Java: transaction clients (TCs) wrap business methods and keep
their database connections open, a transaction manager (TM) collects the
branches of a transaction group and tells them to commit or roll back. Paths
below are relative to the repository; `protocol`, `tc` and `tm` stand for
`txlcn-protocol`, `txlcn-tc` and `txlcn-tm` under
`src/main/java/com/codingapi/txlcn/`.

## The system

| Component | State it keeps | Operations | What makes it hard | What makes it correct |
|---|---|---|---|---|
| TC control: `tc/aspect/TransactionAspectContext`, `tc/control`, `tc/control/step`, `tc/control/commit/LcnCommitor` | thread-local `TransactionInfo` (group id, state, `successReturn`), connections by group id in `JdbcContext` | create, business method, join, notify, asynchronous wait for the commit event | RPC that fails while the callee runs on, requests that time out and are handled later, dropped events | a group never ends half committed; nobody waits for ever |
| TM group handlers: `tm/repository`, `tm` event classes `TransactionCreateEvent`, `TransactionJoinEvent`, `TransactionNotifyEvent` | one group record per group id in Redis | create (SET), join and notify (GET, change, SET) | GET and SET are not atomic, handlers run on several threads and TMs | the record of a committed group is complete and final |
| Waiting for answers: `protocol/await/LockContext`, `Lock`, `protocol/message/Connection`, `AbsMessage.handle` | map from key to lock, pool (`cacheList`, `freeList`), flag and answer of each lock | `addKey`, `await`, `getRes`, `clear`; `getKey`, `setRes`, `signal` | a lock is pooled again before its waiter has read it, signal before wait, late answers | an answer reaches its request; no lock has two holders; no lock is lost |
| Ids: `tm/id/Snowflake` | last timestamp, sequence | `nextId` | clock set back, full millisecond | no id twice, ids ascend |
| Worker ids: `tm/node`, `RedisTmNodeRepository` | leases of node numbers in Redis | take, renew, give up | lease time against renewal time, read-then-write | a running TM has a number of its own |
| Load balancer: `tm/loadbalancer`, `TmManagerReporter` | status flags in the message, the leader of a TM | execute here or forward to another node, copy the answer, send it back | the flags travel with the message, the leader is shared by all handlers, connections come and go | an event is executed once and its TC answered |
| Connections: `ConnectionService`, `ProtocolChannelHandler`, `ProtocolServer`, runners | registry of connections by peer | dial by a schedule, add, remove | a dial ends later, check-then-put, removal by key, a schedule that dies | a live peer is registered, over a connection that works |
| Id cache: `tc/cache/Cache`, `tc/id` | group id and log id of the TC | ask once, forget after 12 h | check-then-act; the id may be missing | every transaction has a group of its own |
| JDBC interception: `tc/jdbc` | thread-local `JdbcTransaction`, one connection per group id, log table | hold connection, save and delete log | thread-locals, one TC twice in a group | what is held is ended |
| RPC tracing: `tc/rpc` | the group id in a header, the thread-local `TransactionInfo` | `build`, `invoke` | what is bound is unbound elsewhere, or not at all | a request runs in its own group |
| SQL analysis, `txlcn-p6spy`, Spring configuration, admin pages | none of their own | | | not modelled, see below |

How they interact: the aspect of the *starter* asks the TM to create a group,
runs the business method, and notifies the TM of the result. The business
method calls other TCs by RPC with the group id in a header; their aspects run
the called method, join the group at the TM, return to the caller, and wait on
another thread for the TM's `TransactionCommitEvent`. Every message to the TM
goes through `Connection.request`, which waits on a lock from `LockContext`.

## Modules

### `LcnTransaction`, and what it implements, `GroupCommit`

`GroupCommit` is the promise: the starter decides once; it may decide to commit
only while every branch can still follow; a branch commits only after that
decision and is never rolled back against it.

`LcnTransaction` is the protocol. Branch 0 is the starter, branch `j` is called
by `Caller[j]`.

| Variable | Code |
|---|---|
| `pc[b]` | where the aspect, the step or the executor's thread of branch b is |
| `ok[b]` | `TransactionInfo.successReturn` |
| `callee[b]` | the RPC the business method is blocked in |
| `work[b]` | the connection kept in `JdbcContext`: none, open, committed, rolledBack |
| `group` | the `TransactionGroup` in Redis: its state and the branches in its list |
| `requests`, `handling`, `replies`, `events` | messages sent, handlers between GET and SET, answers, commit events |

| Actions | Code |
|---|---|
| `SendCreate`, `CreateAnswered`, `CreateFails` | `TransactionStepCreate.run`, the aspect's `finally`; a create fails without an answer, without a TM to ask or without a lock to wait on |
| `HoldConnection` | `LcnCommitTransactionJdbcEvent`, `LcnRollbackTransactionJdbcEvent`: both keep the connection |
| `Call`, `RpcReturns`, `RpcFails` | `RpcTransactionContext`; the RPC framework is external |
| `BusinessSucceeds`, `BusinessFails` | `TransactionAspectContext.runWithTransaction`, `tryEndTransaction` |
| `SendJoin`, `JoinAnswered`, `JoinTimedOut`, `JoinThrows`, `AwaitCommit`, `CommitEventArrives`, `AwaitEnds` | `TransactionStepJoin`; `AwaitEnds` is the end of the wait without an event, or `addKey` that throws |
| `SendNotify`, `NotifyAnswered`, `NotifyRetried`, `NotifyTimedOut`, `NotifyThrows` | `TransactionStepNotify` |
| `HandleCreate`, `ReadGroup`, `WriteJoin`, `WriteNotify` | the TM's event handlers and `RedisTransactionGroupRepository` |
| `ConnectionBreaks` | the database, external |

A request is answered or times out at any moment; it may be handled long after
its sender gave up, by any TM thread, in any order with the others. `requestMsg`
may also throw, when no TM is connected, when no lock is free or when the
message cannot be written: a join that throws does not roll back
(`JoinThrows`), and a notify that throws takes even a starter that succeeded out
of its retry loop (`NotifyThrows`). Either branch is then "failed", with its
connection as it was. The model
takes from `Connection.request` what its contract says, an answer or null. (At
this commit no answer to a transaction message ever reaches its waiter, see
`LockContextNoId` below: the program then only shows the behaviours in which
every wait times out, which are among those of the model.)

Two constants describe the environment. `Propagates` are the branches whose
business method lets a failed RPC fail it; the others swallow the failure and
go on. `Fragile` are the branches whose connection may break: the database
rolls their work back, and `LcnCommitor` swallows the exception it then gets.

### `LockContext`

The pool of locks, at the grain at which threads really interleave: `addKey` is
synchronized but reads the pool and writes the map in two steps that `getKey`
can come between; `getKey` and `clearKey` take no monitor and are `LookUp`,
`Free`, `RemoveKey`; the handler then does `SetRes` and `Signal`; the requester
does `Await`, `AwaitTimedOut`, `GetRes`, `ClearUsed`, `ClearRes`. A request is
made once; the lock it creates and the answer it gets are named after it.
`Slow` requests may time out before their answer has been handled, `Joins` are
the executor's threads of `TransactionStepJoin`, which never clear their lock,
and `MessageId` says which answers carry an id. The `Creates` register under the
group id, which is null while the TC has not got one: `addKey` then takes a lock,
and the map throws (`PutThrows`): the lock is in `cacheList`, and in `freeList`
never again.

### `Snowflake`

One generator in each TM and the system clock it reads, which moves to any
reading at any time. The shifts and ors of `nextId` are the sum
`(timestamp * Nodes + Node) * SequenceSize + sequence`; field sizes and the
tolerance (2000 ms in the code) are constants. The spinning `tilNextMillis` is
a state of its own, in which the monitor is held while the clock moves. `threw`
records whether `tilNextMillis` has thrown.

A generator is a static field (`SnowflakeHandler.SNOWFLAKE`) that starts with no
last timestamp: `Restart` ends the process at any moment, a spinning one
included, and puts another one with the same node number in its place, a restart
of the same TM or one that took the pair over. `former` is the last timestamp
its predecessors reached, `behind` whether some process issued its first id no
later than that; what ids the processes of one node number hand out, one after
the other, is in `issued`. Processes that have the number at the same time are
those `LossHasCause` of `WorkerIds` is about.

### `WorkerIds`

Every TM process takes a (dataCenterId, workerId) pair with a record in Redis
that expires, and a cron job renews it. The pairs are numbered in the order in
which `nextKey` goes through them, 961 in the code.

| Actions | Code |
|---|---|
| `Start`, `TryInit`, `HasKey` | `TmNodeInitiator.init`, `tryInit`, `nextKey`, one Redis call each; with every pair taken `stopTrying` ends the search and the TM goes on with pair (1, 1) |
| `GetInfo`, `GetNothing`, `SetInfo` | `resetExpire`: GET, which may find nothing and throw, and the unconditional SET |
| `Destroy`, `Exit` | `destroy`, which deletes the record of the pair whosever it is; the end of the process, orderly or not |
| `Tick` | time, the expiry of records, the cron instants of `TmNodeSchedule` |

Time is discrete. A cron job may end up to `Late` ticks after its instant;
`Tick` waits for it and for the second of `tryInit`'s two calls. `stray` is
history: the TMs that gave up or whose record has not been their own since they
took their pair. The model lets a TM's cron job start with the first instant
after `init`: a Spring context that takes longer to come up makes the first
renewal later, which is a larger `Late`.

### `LoadBalancer`

TMs and TCs with connections between them that open and close at any moment. A
TM with exactly one connection executes an event; otherwise the first TM that
has it sends a blank event of the same class to another node, waits, copies the
answer into the first event and sends that back.

| Variable | Code |
|---|---|
| `links` | the connections in both ends' `ConnectionService` |
| `leader[n]` | `TmManagerReporter.leader`, a field of the one bean of TM n |
| `net` | events on the way: class and group id (`of`, `named`), `messageId`, `isFirstNode` (`first`), `isBusinessExecuted` and `isReadyCallBack` (`done`), the generated id |
| `pc[r]`, `at[r]`, `via[r]`, `answer[r]` | the handler that forwards request r, its TM, the TC's connection, what it copied |
| `tc[r]`, `got[r]` | the TC that asked |
| `executed`, `sentTo`, `crossed`, `unled` | history |

| Actions | Code |
|---|---|
| `TcAsks`, `TcGivesUp`, `TcHandles` | `TxManagerReporter.requestMsg`, `Connection.request`, `AbsMessage.handle` at the TC |
| `TmExecutes`, `TmIgnores`, `TmForwards` | `AbsMessage.handle`, `LoadBalancerInterceptor.handle` with `onOneConnection`, `onFirstNode`, `onBusinessExecuted`, and the events' own logic |
| `SelectLeaderWithoutTc`, `SelectLeader`, `RequestMsg`, `CheckLeaderFails` | `TmManagerReporter`, one access of the shared field each |
| `RecordExpires` | `TmNode.getOtherNodeList`: a record that is gone when it is read |
| `TimesUp`, `ReadyCallBack` | the wait for the other node, the rest of `onFirstNode` and `onReadyCallBack` |
| `Open`, `Close` | the channels' events at both ends |

A handler that forwards keeps its thread until its own answer is there. The
thread is one of the pool (`Threads`, 30 in the code) that all connections a TM
has accepted share (`ProtocolServer.start` makes one handler for them); a
connection the TM has dialled has a handler and a pool of its own, and what
comes over that one are answers and forwarded events, whose handlers never wait.
An event over an accepted connection is handled only while a thread of the
pool is free (`HasThread`).

Two things matter beyond the flags. The object that wakes the waiting thread is
the one the handler goes on with, so `Wake` may copy an id that is just being
replaced. And `getAbsMessage` makes a blank event: a transaction event that is
forwarded has lost its group id, so its handler throws (`Execute`). With any
number of connections but one, a TM thus never executes transaction events:
what `LcnTransaction` says of groups is about TMs with a single connection, or
about waits that time out.

### `AspectThread`

One TC whose threads serve one request after the other. `info[t]` and `jdbc[t]`
are the thread-locals `TransactionInfo` and `JdbcTransaction`, `held[g]` the
connection `JdbcContext` keeps for group id g, `conn[r]` what became of the
connection of request r, `groupId` the cached id, `task` and `lock` the
executor's wait for the commit event. `ran`, `threw` and `adrift` are history:
the latter are the requests that could not ask the TM in their end step, or
whose task ended without an event.

| Actions | Code |
|---|---|
| `Ask`, `IdArrives`, `NoId`, `GrowsOld` | `SnowflakeInfo.getGroupIdAndLogId`, `Cache` |
| `Serve` | `RpcTransactionContext.invoke`, the begin of `TransactionAspectContext.runWithTransaction`, `tryBeginTransaction` |
| `CreateAnswered`, `CreateFails`, `BusinessEnds`, `PlainEnds` | the aspect; `ToEnd` is `tryEndTransaction` up to the step |
| `Connect` | `TxDataSourceInterceptor`: the business takes a connection, which gets a proxy whose `close` does nothing, and a `JdbcTransaction` on the thread |
| `Keep` | the local commit or rollback on it: `JdbcContext.push`. It need not come: the connection may be used in auto-commit, `saveLog` may throw before it, and without a group id the map refuses it. The connection then stays "open" |
| `NotifyAnswered`, `NotifyTimedOut`, `JoinAnswered`, `JoinTimedOut` | the end step with `LcnCommitor`, then `clearTransaction` or the exception that skips it; `CanEnd` says when the committor throws: without a connection under the group id, and in a commit also without a `JdbcTransaction` on the thread, whose log ids `TransactionLogExecutor.delete` reads |
| `RequestThrows` | `requestMsg` of the end step throws |
| `TaskWaits`, `CommitEvent`, `TaskTimesUp` | `TransactionStepJoin.executeJoin`, and its wait that ends without an event or finds no lock |

TM, database and the other TCs are external: answers come or do not. A request
is served once and uses one connection. Since a TC fetches one id for all the
transactions it starts, `ids` rarely moves: two requests of one TC usually share
a group, which is how they take each other's connection.

### `Connections`

One link, from a node that dials (a TC or a TM) to a TM, with the channels it
may have at a time. `net[c]` is the channel, `side[c]` how far the dialler's
handler has come with it, `registered` the entry of the dialler's
`ConnectionService` under the TM's resolved address and port, `accepted` and
`left` the same at the TM, where each channel's port makes a key of its own.
`schedule` is the runner's task at a fixed rate.

`byName` says how the TM is configured. `connectTo` looks for the host as it is
written, `addConnection` and `removeConnection` for the address of the channel:
a TM given by a host name is never found by the former (`ExistConnect`), though
it is registered for the latter (`Previous`), and each round dials it again.

| Actions | Code |
|---|---|
| `ConnectTo`, `ScheduleEnds` | `TmServerRunner.init`, `TmNodeServerRunner.init`, `ProtocolServer.connectTo` |
| `DialSucceeds`, `DialFails` | the future of the dial |
| `GetPrevious`, `Refuse`, `Put` | `channelActive`, `addConnection`, by the key of the channel: the look into the map and the put are two steps |
| `Inactive` | `channelInactive`, `removeConnection` |
| `Accept`, `Leave` | the same at the TM |
| `Break`, `Forget` | the network or an idle handler; a channel that both ends have dropped |

The events of one channel follow each other, those of different channels run on
different threads. `overlaps` counts the dials made while an earlier one had not
reached the registry, `doubles` the others that were made while the TM was
registered.

### How the modules fit together

`LcnTransaction` is the protocol between one group's branches and the TM.
`LockContext` is the wait behind each of its requests, `LoadBalancer` the way
such a request takes among the TMs, `Connections` the registry that both read,
`Snowflake` and `WorkerIds` where its group id comes from, `AspectThread` what
becomes of groups when one TC serves many. They meet in their contracts and not
in one state space: to `LcnTransaction` a request is answered or not, handled
early, late or never, which covers what the others let happen.

The `MC` modules give the constants that a configuration cannot write down:
call trees, keys, node numbers, headers, sets of TMs.

## What the runs check

| Run | Shows |
|---|---|
| `LcnTransactionTree` | The starter calls 1 and 3, 1 calls 2; failures propagate, connections hold. `Agreement`: no branch committed and another rolled back. `ImplementsGroupCommit`: every step is a step of `GroupCommit` or none. `NoFailedBranchCommits`: a branch whose method failed after its local transaction had ended is not committed. `CommitKnownToTm`, `CommittedGroupIsComplete`, `CommitStands`: although join and notify can overwrite each other's SET, once anything is committed the record says COMMIT, lists every branch that was called, and stays. The reason is in the TC: a caller returns only after its callee's join was answered, so a successful starter has no join under way. (A ROLLBACK does not stand: the join handler of a branch whose RPC timed out may write JOIN over it, which nobody reads.) `AgreementInv` is an inductive invariant of the proofs. |
| `LcnTransactionEnds` | A chain; branch 1 swallows a failed call, its connection may break, the TM is not fair. `NoCommitAfterFailure`: even so nothing commits for a failed starter. `NobodyHangsWithoutTm`: joiners and failed starters end without any TM. (For a joiner, giving up in doubt is such an end.) `StarterFollows`: if the TM handles notify messages and answers in time, the starter ends, and unless an exception has taken it out of its notify step, it does not leave its connection open beside a joiner that committed. |
| `LockContextPool` | Four requests, one pooled lock; one request may give up early, one is a create without a message id and perhaps without a group id. `OneHolder`; `AnswerIsOwn`: an answer goes astray only if some holder of the same lock could stop waiting early (it does: `clearKey` pools the lock before `setRes`); `AnsweredHasAnswer`: on a lock that is not reused, the answer is there when it is read; `RefusedOnlyAtLimit`: `addKey` throws only when as many locks as are pooled are out for answers that have not come, or never will, or were lost to requests without a key; `EveryRequestEnds`: signal or no signal. |
| `SnowflakeClocks` | Two node numbers. `IdsAscend`: ids ascend through full milliseconds, clocks set back and restarts, until `tilNextMillis` throws (with the sequence already 0, so that the next calls number that millisecond again) or a process starts with a clock that is not past its predecessor's last millisecond. `IdsDifferAcrossTms`. |
| `WorkerIdsLeases` | Two TMs, two pairs. `LossHasCause`: however SETNX, EXISTS, GET, SET and DEL of the TMs interleave, a TM loses its pair only to a time to live shorter than `Period + Late`, to having found no free pair, or to a TM on the same pair that is stopping or lost it before. `RevivalHasCause`: nobody sets or renews the record of a TM that does not use the pair, except the cron job of a TM on that pair that went astray or is being stopped. `DeadIsForgotten`, which needs that: the record of a dead TM goes away, as long as no TM goes astray. `StartEnds`: the recursion of `init` ends. `LeaseInv` is the inductive invariant of the proof. |
| `LoadBalancerNodes` | Two TMs, a TC that wants an id and sends a transaction event. `ExecutedAgainOnlyAlone`: only a TM with one connection executes an event again, since `onOneConnection` does not look at the flags. `NoPingPong`: between TMs an event goes there and back, plus once for each such execution. `AnswerIsForTheRequest`: whatever the two threads that share the object do, the TC gets an id that was generated for it. `TransactionsStayLocal`: no forwarded transaction event is ever executed. `UnledHasCause`: a handler alone on its TM with unchanged connections finds a leader. `NobodyWaitsInVain`: while connections stay, what a handler that forwarded an id request or its TC waits for is on its way, to somebody who will act on it once a thread is free. `Served`: a forwarded id request is answered, or connections change, or a wait times out, or its event stays for ever without a thread, because it came over a connection its TM has accepted and all threads for those are kept by handlers that forward. That happens: here to a TM with one thread, and likewise to two TMs whose pools are full of forwarders, which wait for each other until their time is up. |
| `AspectThreadPool` | Two threads, two requests of clients, and one of another TC to a method without annotation, whose left-over `TransactionInfo` makes a client's request join. `LeakHasCause`: a pooled thread carries a `TransactionInfo` only after an exception in the end step or a call to a method without annotation. `AbandonedHasCause`: a connection that `JdbcContext` was given and that nobody will end has a reason: the TM was not asked, its task's time was up before the event, its method is not annotated, or another request under its group id had one kept too. (One that `JdbcContext` was never given, see `Keep`, stays open anyhow.) `RequestsEnd`: each request leaves its thread, each joiner's task ends. |
| `ConnectionsLink` | Four channels. `TypeOK` holds that the registered connection is one whose end has not been reported. `OrphansPaidFor`: of the connections that work, no more are missing from the registry than dials were made while an earlier one was not finished; for a TM given by a host name also those made while it was registered count, which its configuration brings every 30 s. `StaysConnected`: for a TM given by its address, when nothing breaks any more and the schedule runs, the link ends up registered at both ends, over one open channel, for good. A TM given by name has no such promise: the close of each refused duplicate takes the connection that works out of the registry. |

Four runs end in a counterexample, each to something a comment of the code says:

| Run | Comment | What the code does |
|---|---|---|
| `LockContextNoId` | `AbsMessage.java:42`: wake the waiting message | Transaction messages wait under the group id and carry no `messageId`: `handle` wakes nobody, every create, join and notify times out. |
| `WorkerIdsHeartbeat` | `TmNodeSchedule.java:9`: the renewal every 30 s tells the other TMs that this one is alive | A record lives 30 to 39 s. Set for 30 s, it is gone when the next renewal is a second later within its period than this one; `resetExpire` then throws at every later renewal, so the TM stays unlisted and its pair free. (The class comment of `TmNodeInitiator`, lines 25 and 27, speaks of 24 h.) |
| `LoadBalancerForward` | `TmManagerReporter.java:57`: choose another TM; line 64: filter out the connections of TCs | Line 118 calls `selectLeader` after `selectLeaderWithoutTc`, and the first connection of the registry becomes the leader: the event may go to a TC, even back to the one that asked. |
| `AspectThreadLeak` | `TransactionAspectContext.java:33`: `transactionInfo == null` shows that a transaction starts | A request of a client on a thread with a left-over `TransactionInfo` does not start a transaction: it joins the old group, or notifies it. |

### Bounds

- A tree of three joiners, and a chain of two: every race in the protocol is
  between a handler and one or two others, or between a branch and its caller.
  Messages are sets: a message sent twice and handled twice is a member that
  comes and goes.
- One pooled lock instead of 1024: reuse and exhaustion happen with the second
  request. Four requests: an early leaver, two that meet on its lock, and one
  whose lock does not come back, for want of an id or of a key. It stands for a
  joiner's wait too, and does not clear; nobody else ever gets its lock.
- Two node numbers, two ids per millisecond, three clock readings, tolerance 2:
  milliseconds fill up, the clock is behind by less and by as much as the
  tolerance. `MaxIds` = 3 bounds the ids each node number hands out, over any
  number of restarts: a full millisecond and one more, before or after a restart.
- Two TMs and two pairs: a TM can find every pair taken (one of them by its own
  record from before a crash), and two can be on one pair. Period 2, times to
  live 2 and 3, one tick of lateness: the shorter lapses, the longer does not.
  `WorkerIdsHeartbeat` has the code's 30 s, 0 to 9 s and a lateness of 1 s.
- Two TMs, one TC, two requests of different kinds: the smallest world with a
  node to forward to, a connection that is not the TC's, and two handlers that
  share a leader. `MaxChanges` = 2: a TM can lose all but one connection and be
  alone, or a new first connection can appear. `MaxExecuted` = 4 executions of
  two requests: each may be executed again. One TM has two
  threads in its pool, the other one: two handlers of the first share its leader,
  and one that forwards keeps the only thread of the second. The circle of two
  full pools takes more requests; it ends in the same exception of `Served`, an
  event without a thread.
- Two threads and three requests: a thread is used again after a leak while
  another one ends the same group. `MaxIds` = 2: two clients may share an id, or
  the cache forgets it and the second gets another one, or none. The invariants
  are proved for any number of either.
  `AspectThreadLeak` needs one id, and has a request of another TC to an annotated
  method besides.
- Four channels, one break or failed dial, two dials that overlap or repeat a
  registered one: a duplicate of a duplicate, and a break while it is refused. If
  dials took longer than the 30 s of the schedule for ever, duplicates would come
  for ever too: `StaysConnected` is about a schedule that is slower than its
  dials in the end.

### Fairness

`TcFairness` is weak fairness of the TC's own steps: threads are scheduled, a
business method ends (`BusinessFails` stands for its end), an RPC returns or
times out, a timed wait ends. Nothing is assumed of the TM. `StarterFollows`
has `TmFairness` as its premise: notify messages are taken and handled (weak
fairness), and a starter that asks again and again is answered in time at last
(strong fairness of `NotifyAnswered`: the wait between two retries is a second,
an answer that is never in time means a TM that is down for it). In
`LockContext`, threads that wait and handlers of answers that are not `Slow`
are weakly fair.

In `WorkerIds` time goes on (strong fairness of `Tick`, since it waits for Redis
calls that TMs make again and again), and the steps of `init` and `resetExpire`
are weakly fair: they wait for nothing but Redis.

In `LoadBalancer` the handlers' steps are weakly fair, and the handling of each
request's events is too while it has a thread; nothing makes a wait time out, so
`Served` shows when answers come without that. In `AspectThread` a thread's own steps are weakly fair:
methods return, a create fails when it is not answered, and a TM answers a
notify in the end, unless the request throws before; the executor's waits are timed. In `Connections` the schedule
comes round (weak fairness of a dial by some channel, as long as it runs), dials
end, and netty delivers the events of both ends. `StaysConnected` assumes the
schedule runs on and the TM is given by its address.

Deadlock is checked in `LcnTransaction`, `LockContext`, `Snowflake` and
`WorkerIds`, where `Finished` is enabled exactly where the system has nothing
left to do. The other three may stop: a request that was dropped is never
answered, all requests have been served, a link is up and breaks no more.

## What is proved

The proofs hold for every value of the constants; TLC checks the same
statements on the instances above. The proof modules are named after the module
they are about.

- Type correctness of all seven modules: `TypeCorrect`,
  `LockContextTypeCorrect`, `SnowflakeTypeCorrect`, `WorkerIdsTypeCorrect`,
  `LoadBalancerTypeCorrect`, `AspectThreadTypeCorrect`,
  `ConnectionsTypeCorrect`.
- `FailedStarterNeverCommits` (`NoCommitAfterFailure`), for any number of
  joiners, any call tree, whatever breaks. `DecisionInv` is inductive
  (`DecisionInvHolds`, and `AgreementInvHolds` for the next): all
  notify messages, handlers, answers and events carry the starter's result
  (`MessagesTellTheResult`), and only they make anyone commit.
- `GroupsAgree` (`Agreement`), assuming `Sound`: failures propagate and
  connections hold. `AgreementInv` adds that a called branch that has not
  returned successfully holds its caller back or has failed it
  (`UnfinishedHoldsCaller`), and that a rollback has a reason
  (`RolledBackHasReason`). By induction up the call tree, carried by the
  invariant from each branch to its caller, a successful starter means that no
  branch failed its join. `Agreement` itself is not inductive: it says nothing
  of messages still under way.
- `ProtocolImplementsGroupCommit` (`ImplementsGroupCommit`), under the same
  assumption: `Decide` is the end of the starter's method, at which the
  invariant gives that no branch has failed; every step that commits or rolls
  back a branch is the abstract one because a commit event carries the decision.
- `FailedBranchesNeverCommit`, `CommitIsRecorded`, `CommittedRecordIsComplete`,
  `CommittedRecordStands` (`NoFailedBranchCommits`, `CommitKnownToTm`,
  `CommittedGroupIsComplete`, `CommitStands`, in `LcnRecordProofs`), assuming
  that all failures propagate; connections may break. `RecordInv` says that as
  long as nothing has failed the call tree runs one branch at a time
  (`OneTip`), so that one join at most is on its way and no handler's copy of
  the record is stale (`JoinsOK`, `NotifyOK`). Once something has failed it
  stays so (`Doomed`), and the starter cannot succeed: the record may then be
  overwritten, but never with COMMIT.
- `LocksHaveOneHolder` (`OneHolder`), for any keys and pool. Inductive with
  `Fresh` (a lock does not exist before its request creates it) and
  `HeldIsUsed` (a held lock has its flag set, so `findRpcContent` passes it
  over even though it is back in `freeList`).
- `AnswersAreThere` (`AnsweredHasAnswer`), assuming `OwnKeys`.
- `RefusalsAreAtTheLimit` (`RefusedOnlyAtLimit`), assuming `OwnKeys`, for any
  pool. `PoolAccountedFor`: every lock of the pool is in `freeList` or belongs
  to a request whose answer is outstanding or that lost it for want of a key; one
  whose holder left stays used until its handler frees it, and no handler frees a
  lock of another key. When `addKey` throws, nothing free is left, so each of the
  `CacheSize` locks has such a request of its own.
- `StrayAnswersComeFromEarlyLeavers` (`AnswerIsOwn`), assuming `OwnKeys`:
  random keys. `AnswerInv` says that a key leads to its request's lock, that an
  answer stays on the lock of its request, and that on a lock with only
  punctual holders nobody wakes before its own answer has been handled.
- `IdsAscendUntilThrown` (`IdsAscend`), across restarts: what has been issued is
  at most `UsedUpTo`: the last id, all of the millisecond while a thread spins,
  and all of the predecessors' last millisecond for a process that has issued
  nothing.
- `NodesNeverShareIds` (`IdsDifferAcrossTms`): the fields are digits of a
  number and tell the node.
- `LossesHaveCauses` (`LossHasCause`), for any TMs, pairs and times, from the
  invariant `OwnRecordsAreFresh` (`LeaseInv`): the age of a TM's own record is
  at most the ticks since the last cron instant, plus a period while its job is
  due. A record that expires is then younger than `Period + Late`, and two TMs
  on one pair cannot both hold its record.
- `PairsAreUnique`, from the same invariant: of the TMs that are not astray no
  two use one pair. `LongLeasesKeepPairs` is about the draws of `randomDigits`:
  in a behaviour in which each record was set to live for `Period + Late` at
  least, no TM is stopped in order and none finds every pair taken, `stray` stays
  empty. The code draws 30 to 39 s, so with a lateness of one second this is nine
  draws in ten; the tenth is the run `WorkerIdsHeartbeat`.
- `RevivalsHaveCauses` (`RevivalHasCause`) from the same invariant: what a cron
  job read is its own TM's name unless the TM is astray, so a renewal in another
  TM's name comes from a TM that is. This and the expiry of records is what
  `DeadIsForgotten` rests on; that time passes is left to TLC.
- `AnswersAreForTheRequest`, `ExecutedAgainAlone`, `TransactionsAreLocal`,
  for any nodes, connections and requests, from `EventInv`: at most one event of
  a request that nobody has executed is on its way or in a handler's hands, and
  an event that is marked as executed holds an id that was generated for that
  request. `EventsDoNotBounce` (`NoPingPong`) adds `CrossingInv`, which counts
  an event once when it is forwarded, once when it is answered, and once for
  each execution of an answer. `UnledRequestsHaveCause` adds `LeaderInv`: as
  long as no connection changed, the TC's own is there for `selectLeader`.
- `WaitersAreServed` (`NobodyWaitsInVain`), from `WaitInv` on top of these: while
  no connection changes, a forwarded event is on its way to the other TM until it
  is executed there and then back, since the other TM neither forwards it again
  nor ignores it; and `ReadyCallBack` finds the TC's connection.
- `LeaksHaveCauses` (`LeakHasCause`), from `ThreadInv`: what a busy thread has
  bound is the group of its request, or was left by an earlier one.
  `AbandonedConnectionsHaveCauses` (`AbandonedHasCause`) adds `KeptInv`: the
  connection `JdbcContext` holds for a group is one of that group. If it is the
  only one that was kept there, then whoever ends the group's step ends it, and
  it has the `JdbcTransaction` a commit needs, since a thread with a connection
  has one (`BusyOK`); if it is not, the other one is the reason.
- `DuplicateDialsPayForOrphans` (`OrphansPaidFor`), by counting. Call
  superfluous the channels that were registered or refused, are not dropped yet
  and are not the registered one; an orphan is one. `OrphanInv`: they are at most
  `overlaps + doubles`, and with the pending ones and the registered one at most
  one more. A dial that is neither is made when nothing is pending and nothing is
  registered, so it fits into the one; every other one pays for itself. A TM given
  by its address has no `doubles`.
- `GroupCommitMeansAgreement`: `Agreement` follows from `GroupCommit` alone
  (`FollowsDecision` is inductive there). With `ProtocolImplementsGroupCommit` it
  shows that the abstract specification says enough.

Only model-checked: the liveness properties (`NobodyHangsWithoutTm`,
`StarterFollows`, `EveryRequestEnds`, `DeadIsForgotten`, `StartEnds`, `Served`,
`RequestsEnd`, `StaysConnected`), which are out of the proof system's reach
here. Every invariant and every action property of the passing runs is proved.

## Not modelled, and why

- An annotated method that calls another annotated method in the same thread:
  the inner one ends and clears the outer one's transaction. `AspectThread`
  serves one method at a time.
- `LcnTransaction` gives each branch a TC process of its own, and database work
  before its method ends or none; the same TC twice in a group is in
  `AspectThread`. An `Error` that leaves `successReturn` null is in neither.
- The `leader` field of the TC's `TxManagerReporter` is shared by its threads
  like the TM's, but any TM does for any request, so a replaced leader changes
  nothing and a closed one is a lost message. `LoadBalancer` lets each TC choose
  for itself.
- A node that leaves in an orderly way (`Protocoler.leave`) closes all its
  connections, which to the others are connections that break. Java's `HashMap`
  under concurrent writers, in `ConnectionService`: a put that is lost or an
  iteration that throws is not modelled.
- Two TMs that have one node number at the same time: their ids meet whenever
  their clocks and sequences do. `Snowflake` has the processes of a node number
  one after the other, and `LossHasCause` in `WorkerIds` says when there may be
  two.
- txlcn-p6spy is a fork of JDBC wrappers that only delegate. The SQL analysis
  for TXC rewrites statements and has no state. The log table is written and
  deleted but never read by the protocol. Spring configuration, starters and
  examples wire beans. `static/admin/js/index.js` of the TM is the minified
  bundle of its admin pages, the only JavaScript of the repository: generated
  code that shows what the TM has stored.

## Plan

Done: all the modules above, with their runs and proofs. Worth doing next:

1. Nested annotated methods in `AspectThread`, as a stack of methods per thread.
2. The leads-to properties whose safety half is proved (`Served`,
   `DeadIsForgotten`): for the others (`RequestsEnd`, `StaysConnected`), state
   and prove what stays true of a thread, or a link, that is on its way.
