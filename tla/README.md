# Iris-message-processor in TLA+

Iris-message-processor takes incidents from the Iris API, escalates each along
the steps of its plan, and sends the resulting messages through rate limited
vendors (mail, Slack, Twilio, push).  It is one Go process of about ten
long-lived goroutines and many short ones that share maps under mutexes, talk
through channels, and call Iris and the vendors over the network.

The modules here model the path of an incident through the process: the incident
manager and what it puts into messages, the aggregation of messages, the message
queue manager, the fair queue and the rate limit of a vendor, the vendors'
senders, the tables of messages and their statuses with the callbacks and the
query, and start and shutdown of the whole.  Every definition is written from the
Go source; `PROJECT.json` ("map") names the lines each one stands for.

## 1. The system

### Components

| component | state it keeps | operations |
|---|---|---|
| vendor queue (`vendor.go`, the loop of `runVendor`) | `PlanQueue`, a channel of plans; `PlanQueueTracker`, the plans that are in it or being served; `MessageQueue`, a FIFO of message ids per plan; a mutex for the last two | `AddToVendorQueue`, `GetNextPlan`, `GetNextMessage`, `AdvanceQueue`, `QuitVendor` |
| message queue manager (`messageQueueManager.go`) | `messageTrackerMap`: every message handed over and not yet deleted, with its flags `active`, `queued` and its retries; `queueFull`; the peer count | `AddMessage`, `CheckMessage`, `UpdateMessage`, `DeleteMessage`, `CheckQueueFull`; `RunOnce`, once per tick; one `runVendor` goroutine per vendor |
| incident manager (`incidentManager.go`) | `escalationMap`: for each incident its plan, current step, messages, counters of repeats, message ids | `RunOnce`, once per tick: fetch the active incidents, `deleteIncident` of those that are gone, `addNewIncidents`, one `escalate` goroutine for each |
| aggregation manager (`aggregationManager.go`) | for each plan the settings, the count of incidents, the aggregation status, two time stamps and a batch id | `countIncident`, `checkAggregation`, `resetAggregation`, `updateSettings` |
| message status store (`dbClient.go`, `mysql.go`) | tables of messages, statuses and change logs | `persistMsg`, `writeStatus`, callbacks of the vendors |
| message query (`mysql.go`, `api.go`) | none | the WHERE clause of a set of filters; the search |
| HTTP API (`api.go`) | none | `postNotification`, the status callbacks, the queries |
| authentication checker (`hmacAuth.go`) | the map of application keys | refresh loop, check of a signature |
| Iris client (`irisClient.go`) | none | calls to Iris, with retries and timeouts |
| senders (`emailVendor.go`, `slackVendor.go`, `twilioVendor.go`, `fcmVendor.go`, `dropVendor.go`, `dummyVendor.go`, `errorVendor.go`) | connections | `SendMessage` |
| start and shutdown (`main.go`) | the quit channels | start of all loops, `Quit` of all loops on a signal |
| configuration, logging, metrics | read once; none | none that matters to the rest |

### How they interact

The incident manager hands messages to the message queue manager with
`AddMessage`, and polls the same call in every loop: it returns the item that
the tracker holds, and an item that is no longer `active` has been sent or
given up.  `postNotification` and the aggregation notices hand over messages
that nobody polls.  `RunOnce` of the message queue manager copies every item
that is not `queued`, asks the aggregation manager whether its plan is
aggregated, rewrites the item, and starts a goroutine that puts its id into the
queue of a vendor.  The vendor's goroutine takes ids from its queue, looks the
items up in the tracker, sends them, and writes the outcome back.  The incident
manager deletes the messages of incidents, the vendor all others.  Iris holds
the only durable state of an escalation: its current step and whether it is
active.

### What is hard, and what makes each part correct

- *Vendor queue.*  A goroutine sends on a bounded channel while it owns the
  mutex; the tracker has to agree with the channel and the FIFOs at every
  release of the mutex; reading and dropping the head of a FIFO are two critical
  sections with other appends, the retry's too, in between.  Correct: every
  plan with messages is in exactly one place and gets turns in order; the head
  that is dropped is the one that was sent; no send waits for ever with the
  mutex; every message is served.
- *Message queue manager.*  Items live in the tracker and in local copies of
  `RunOnce` and of every vendor; clients poll, add and delete at any moment.
  Correct: no message is lost, tried again after a success, worked on by a vendor
  other than its routing says, or brought back after its deletion; retries are
  bounded; every message ends; the back-pressure goes away, unless what
  `deleteIncident` leaves behind fills the queue (finding 3).
- *Incident manager.*  Calls to Iris fail, or fail after they took effect; the
  process restarts; batches of incidents are lost; users claim incidents at any
  moment; notifications of a step are repeated and waited for independently.
  Correct: no step is left before its notifications are through, Iris' step
  never goes back, an escalation always ends, and leaves nothing behind.
- *Aggregation manager.*  Two windows, a counter with a threshold, and settings
  that change under them, driven by concurrent incidents.  Correct: aggregation
  starts after more than the threshold of incidents of one window, ends after
  its own window, and every message of an aggregated plan has a batch id that
  was announced.
- *Rate limit.*  The ticker keeps a tick, is reset when the number of peers
  changes, and the vendor that reads it may be late at any point.  Correct: the
  vendor is never far ahead of its share, and comes to use it.
- *Senders and message status store.*  Several goroutines write the row of a
  message, its status and the vendor's callbacks with no common lock or
  transaction; statements fail, and fail after they took effect.  Correct: each
  message leaves one record, about its last attempt; a status that was
  acknowledged was written, to the message it is about; no callback of a known
  message is lost.
- *Message query.*  Filters that make no sense are dropped without a word.
  Correct: the answer hides nothing that was asked for, and is never the whole
  table.
- *Content of messages.*  The notifications of a step share one map of variables
  by reference, and notices of an aggregation are gathered from several answers of
  Iris.  Correct: each notification is rendered with its own variables (it is
  not, see section 5), nobody is forgotten or told twice.
- *Start and shutdown.*  Every loop watches a quit channel, `main` waits for all
  of them, but not for the goroutines of `AddToVendorQueue` and `persistMsg`.
  Correct: the wait ends (it does not while Iris is down, section 5), loops and
  vendors have ended when it does, nobody sends on a channel that was closed
  (somebody may, finding 1), and a process that is ready stays so.

`PROJECT.json` ("hazards") lists these at the lines where they bite, each with
the properties that would show it going wrong, or the reason why none does.

## 2. Modules

```
VendorPool      <-- implemented by -- VendorQueue          VendorQueueProofs
    ^ used by, one per vendor
MessageTracker  <-- implemented by -- MessageQueueManager  MessageQueueManagerProofs
    ^ used by
IncidentManager                                            IncidentManagerProofs

StatusRegister  <-- implemented by -- StatusStore          StatusStoreProofs
                                          | extends
                                      Senders

AggregationManager   AggregationManagerProofs
RateLimiter          RateLimiterProofs
Process              ProcessProofs
Notifications        NotificationsProofs
MessageQuery         (its theorems are in StatusStoreProofs)
```

The abstract modules are the seams.  `VendorQueue` implements `VendorPool`, and
`MessageQueueManager` uses its vendors only in ways `VendorPool` allows, so it
need not model channels and locks.  `MessageQueueManager` implements
`MessageTracker`, with the progress that `IncidentManager` assumes of it.
`StatusStore` implements `StatusRegister`: a status is written as if at once,
though `writeStatus` takes three statements.  The other modules stand beside
these.  The answer of `AggregationManager` to `checkAggregation` is the choice
`aggregated` of `Route` in `MessageQueueManager`, and an escalation of
`IncidentManager` that begins is one `CountIncident`; `SendMessage` of
`MessageQueueManager` is a choice that `Senders` and `StatusStore` refine with
what is recorded; `RateLimiter` and `Process` look at the loops of `runVendor`
and `Run` for their pace and for their end.

A definition whose comment begins with "mutant" is a deliberately wrong variant
of the one after it: with it in place the property that `PROJECT.json`
("mutants") names is violated, which shows that the property is about the code.

### VendorPool
A set of waiting messages and the one the vendor works on.  `Put`, `Take`,
`Release` (done with it), `Again` (back into the pool for a retry).

### VendorQueue
State: `planQueue` is the channel's buffer, `planQueueTracker` and
`messageQueue` the two maps, `mutex` the goroutine that owns
`VendorQueueMutex`, `pc`, `plan` and `hand` the program counter, `nextPlan` and
`msgUUID` of the vendor's loop, `adder[m]` the goroutine that runs `go
AddToVendorQueue` for `m`, `shutdown` how far the end of `Run` has got.

A critical section is one action when it does not send on the channel:
`AddLock` when the plan is tracked already, `GetNextMessage` (the read lock),
`AdvanceQueue` when the last message goes.  When it sends, it is two:
`AddLock` then `AddSend`, `Requeue` or `AdvanceQueue` then `VendorPush`; in
between the goroutine owns the mutex and waits for room in the channel.
`GetNextPlan` receives without the mutex, in between.  What happens to a
message in a turn is a choice (`SendMessage`): done, or queued again; so
retries are unbounded here.  `TypeOK` says more than the types: a turn has a plan
and a message, so `GetNextMessage` never has to answer with the zero UUID.
`QuitVendor` closes the channel without the mutex:
later sends, and sends that wait, panic.  `overtakers` is a history variable
for `RoundRobin`.

### MessageTracker
Per message: `none`, `active`, `inactive`, `gone`; and `queueFull`.

### MessageQueueManager
State: `tracker` is `messageTrackerMap` (an item keeps `active`, `queued`,
`retries`, and `batched` for the mode that aggregation sets), `unqueued` the
copies that `RunOnce` is going through, `adding` the goroutines it started,
`pool` the vendors' queues, `pc`, `msgUUID`, `msgItem` the loop of each
`runVendor`, `client` where the owner of each message stands.  Kinds of
messages: `incident` (polled by `escalate`, cleaned up or dropped by it), `oob`
(`postNotification`, with its check of `queueFull` and its slow call to Iris
before `AddMessage`), `error` (`escalate`, about a notification that failed to
build).  Each accessor of the tracker is one critical section.  A client that has
handed over an incident message may `Forget` it at any time, as `deleteIncident`
does with the messages of a repeat (finding 3): nobody polls or deletes those.

`RouteOf` is the choice of the vendor: the dummy for what is aggregated, with
`SenderDryRun`, and for a mode that is not known (`VendorOf`).  The vendors in
`Storing` cannot fail and reach nobody.  What any other returns need not be what
happened to the message: `succeeded` counts the calls that returned true,
`notified` is the set of messages that went out.

`RunOnce` is the part that runs under both locks; `Route` is the body of the
loop after it, for one copy.  `Route` is one action although it takes the
tracker's lock and reads the aggregation status: until the goroutine that it
starts has run, nobody but the routing reads or writes those fields, so the
steps inside it commute with all others.  `escalate` calls `AddMessage` for
each message of a notification in a row; they are separate messages with
separate states and `inactive` never becomes active again, so one `Poll` per
message loses nothing.

### IncidentManager
State: `irisStep` and `irisActive` are what Iris has stored; `loop` and
`fetched` belong to `RunOnce`; `escalationMap[i]` is the `Escalation` with the
number of its life, `step`, `sentCount`, the notifications that need not
`wait`, `messageMap` and `messageIDList`; `turn`, `todo`, `doneWithStep` are
the locals of the `escalate` goroutine of `i`; `status` and `queueFull` are
those of `MessageTracker`.  `lives`, `handled`, `claimed` and `faults` are
history variables.

The UUID of a message is the tuple of incident, life, notification, round and
part, since the code draws new ids exactly when one of these changes.
`escalate` visits the notifications of a step in any order (a Go map), one
action each; its first call to Iris, the visits, and the end of the step are
separate actions, between which the other goroutines, Iris and the vendors
run.  `PostEscalateIncident` may succeed, fail, or fail after it took effect.
`deleteIncident` is one action here; `MessageQueueManager` splits it into
`DropMessage` and `DropDelete`.  `Crash` restarts the process with empty
memory.  A failed `GetIncidentIDs` ends the loop and changes nothing, so it is
no action.

### AggregationManager
State: `planAggregationMap` is the map of that name, `loop` and `resp` belong to
`Run`, `irisSettings` is what Iris has; `triggered` and `stored` collect the
batch ids that `countIncident` returned to be announced and under which
messages were stored; `age` and `fresh` are history variables, the times at
which escalations were counted and which of them may still count.

Every operation holds the mutex and is one action: `CountIncident`,
`CheckAggregation`, `UpdateSettings`, `ResetAggregation`; the fetch of the
settings is an action of its own, so settings can change between the answer and
its use, and it may fail.  A time stamp is kept as its age, which `Tick`
increases up to `MaxAge`, past every window.  A new batch id is named by the
escalation that triggered it.

### Senders, StatusRegister, StatusStore
`Senders` gives each vendor's `SendMessage` as the set of its outcomes: what it
returns, whether the service accepted the message, what `persistMsg` is asked to
store, and whether there is a vendor's id.  Where a call fails decides whether
the message went out: an error after `w.Close()` of a mail, or a timeout of
Slack, leaves both open.

`StatusRegister` is the promise: per message a status or none, and writers that
begin, write, and get their answer.  `StatusStore` is the code: `pc`, `retries`,
`tracked` are `runVendor` and the tracker as far as they decide how often a
message is recorded, `inserting` and `writer` the goroutines in `writeMessage`
and `writeStatus`, `rows` and `table` the tables.  Each SQL statement is an
action; it succeeds, fails, or fails after it took effect (`Failing`).  Writers
are the vendor (`PersistMsg`, whose two goroutines run in any order), the
deletion of an incident (`Drop`, `DropDelete`), and a callback (`Callback`),
which names the message, the vendor's id, or both.  `Stop` is the end of the
process, which cuts everything off: at any moment in a `Crash`, and in an orderly
`Exit` once no vendor is in a turn and no `deleteIncident` under way, since `main`
waits for these but not for the goroutines of `persistMsg` or for callbacks.

### RateLimiter
Time is discrete.  `ticker` and `rateLimitUpdateTicker` keep the time left to the
next tick and the one tick that a Go channel holds; `Reset` starts the period
again and leaves a kept tick where it is.  `LoopTop`, `GetNextPlan`,
`SendMessage` or `SkipDeleted`, and `TakeTick` are the loop of `runVendor`, each
as late as it likes; `GetPeerCount` is `RunOnce`'s call to Iris.  `debt` is a
history variable: the time that the messages sent so far are worth, less the
time since.

### Process
`main`, the four loops with their quit channel, the authentication checker with
its keys, and the vendors as far as their end goes: `vendorQuit`, the closing of
the channels of plans, the waits of `Run` and `main`.  Fatal errors
(`ServerFails`, `LoadFails`) and the panic of finding 1 (`SenderPanics`: a vendor,
or a goroutine of `AddToVendorQueue`) end the process at any point where they can
occur.

### Notifications
`iris` is the entry of that name in the incident's `Context`, of which every
`Notification` holds a reference; `InitNotification` overwrites it for one
notification after the other, and `GetBuildMessage` renders when all are set up.
Beside it `Resolve`, `ResolveFails` and `AddMessage` are the goroutine
`triggerAggregationMessages`.

### MessageQuery
No state: a request is a function from keys to lists of values, and
`GetMessages(request, table)` the set of answers it may get.  `Usable` says which
parameters `buildWhereClause` makes a condition of; `Compare` is MySQL's.

## 3. Runs

| run | instance | what it shows |
|---|---|---|
| `vendor_queue` | 3 plans, 4 messages (one plan has two), channel of 3, fairness | `QueueInv`: mutex, channel, tracker and FIFOs agree and the dropped head is the served one. `SendNeverBlocks`: whoever owns the mutex and must send has room. `RoundRobin`: a waiting plan is overtaken by each other plan at most once. `Served`: each queued message gets a turn. `ImplementsPool`: refinement of `VendorPool`. |
| `vendor_queue_shutdown` | 2 plans, 3 messages, channel of 2 | violation of `NeverSendsOnClosed`, finding 1 |
| `message_queue` | a message of each kind, a vendor that can fail, the error vendor and the dummy, one retry, back-pressure from one message on, fairness | `OnePlace`: a message is in one place between tracker and vendor, and in some place while it is queued and active. `SuccessIsFinal`: no attempt after one that returned true. `RetryBudget`. `SendFollowsRoute`: a vendor works only on what its copy of the item says is routed to it. `NoResurrection`: a deleted message stays deleted. `UsesPools`: vendors are used as `VendorPool` allows. `EventuallyGone`: every message leaves the tracker, but for repeats that are left behind, which are at least settled. `BackPressureClears`: the queue is not full for ever unless those fill it. `ImplementsTracker`: refinement of `MessageTracker` with its progress |
| `message_queue_dropped` | one incident message | violation of `DroppedNeverDelivered`, finding 2 |
| `incidents` | one incident, a step of two notifications (one repeated), then one with two messages, back-pressure at one message, 2 faults, fairness | `NoStepSkipped`, `IrisStepMonotone`, `OnlyRepeatsLeftBehind`, `EveryIncidentEnds` |
| `incidents_orphans` | no fault | violation of `NoOrphans`, finding 3 |
| `incidents_lost_batch` | one fault | violation of `RemovesOnlyInactive`, finding 4 |
| `aggregation` | one plan, four settings (thresholds 0 to 2, windows of 1), four incidents, a loop that may be late by 1, fairness | `NeverOverThreshold`; `StartsForAReason`: aggregation starts only if more incidents than the threshold came within the collection window and the lag of the loop, none of them used before; `EndsForAReason`: it ends only with its window or by a change of settings; `BatchesAnnounced`, `FreshBatch`: messages are stored under announced ids, a new one for each aggregation; `AggregationEnds` |
| `status_store` | one message with any of the seven vendors, one retry, a callback, the deletion of its incident, a failing statement, a crash, an exit, fairness | `RecordIsFinal`: a record is about the last attempt; `ImplementsRegister`: refinement of `StatusRegister`; `EveryOutcomeRecorded`: short of faults, while the process runs, every message that is over has its rows |
| `status_store_callback` | one message with any vendor, a callback, no fault | violation of `CallbackApplied`, finding 5 |
| `rate_limiter` | two messages a second, a second of four units, up to three processors, fairness | `RateKept`: at most three messages ahead of the limit; `AdoptsLimit`: it comes to its share |
| `process` | one vendor, two applications, fairness | `ReadyHasKeys`; `GracefulExit`: when `main` exits by itself all loops and vendors have ended; `ShutdownEnds`: after the signal the process ends, or waits for the authentication checker alone, and not for that if Iris answers; `AdoptsKeys`: so do the keys follow Iris |

`Notifications` and `MessageQuery` have no run: what they say is proved, for all
plans and all requests, in section 4.

### Bounds, and why they are enough

- *Plans, messages, channel.*  The channel holds exactly as many plans as there
  are, so one plan too many in it would block; two messages of one plan are
  needed for `AdvanceQueue` to send the plan again, and two more plans for an
  overtaking that is not a swap.  The proofs below have no such bound.
- *One message of each kind.*  Messages meet only in the queues (which
  `VendorQueue` covers), in the single turn of a vendor, and in the
  back-pressure count.  `MaxQueueLength` is 0 there, so that any message raises the
  back-pressure and a single one that is left behind keeps it.
  No message of the run has an unknown mode; `RouteFollowed` covers that.
- *MaxMessageRetries 1* has a first attempt, a retry and the last failure.
- *MaxFaults.*  A failed call that took effect followed by a crash takes two
  faults, and is the shortest way to a step that is repeated from Iris' word.
  Every life after the first is the price of a fault, so `Lives` loses nothing.
- *One incident.*  Escalations share only the tracker's count and the loop.
- *Tracking* is off in `incidents`: a tracking message is one more message of the
  first step, under an id that is never drawn again.
- *Aggregation.*  Four incidents make two aggregations with a threshold of one,
  so what the first leaves behind can harm the second.  They begin in the order of
  their names (`CONSTRAINT InOrder`): the definitions and properties treat all
  incidents of a plan alike, so every other behaviour is one of these with the
  names exchanged.  `MaxLag` bounds how late
  the loop is; the code has no such bound (a call to Iris may hang until its
  timeout), and `StartsForAReason` is relative to it.  Plans do not interact.
- *Status store.*  The only contact of two messages in the table is a callback
  that knows the vendor's id alone, and ids are unique (`RowInv`); one message, a
  callback and three writers have all races there are.  `StatusStoreProofs` has no
  such bound.
- *Rate limit.*  One and two messages' time between ticks differ from a second,
  and three processors make the period longer than the second that
  `rateLimitUpdateTicker` waits; `RateKept` is proved for all limits.
- *Process.*  Vendors meet only in the wait for all of them.
- `attempts` and `succeeded` are bounded by what the model allows, not by a guard.

### Fairness, and why the code justifies it

- Both managers and the vendors run off tickers for as long as the process
  lives, and started goroutines run: weak fairness of their steps.
- A Go mutex hands itself to a waiter that has waited for over a millisecond
  (starvation mode), so a goroutine that finds the mutex free again and again
  gets it: strong fairness where `VendorQueue` acquires it.
- `MessageQueueManager` assumes strong fairness of each `GetNextMessage`; that
  is `Served` of `VendorQueue`.  Of clients it assumes only that they go on with
  what they have begun, and that `escalate` polls a message for as long as it knows
  of it (`OwnerGoesOn`): after `Forget` nobody does anything.
- `IncidentManager` assumes weak fairness of `VendorSettles`; that is the
  `Progress` in `ImplementsTracker`.
- `StatusStore`: goroutines run, and vendors and database answer, be it with an
  error.  A mail has a deadline for its connection only: a server that stops in
  the middle of the dialogue blocks the vendor, and nothing in the code ends
  that.  So this is an assumption, in `Process` too.  It is about a process that
  runs: `Crash` and `Exit` leave nothing to schedule, and `EveryOutcomeRecorded`
  promises nothing after them.
- `RateLimiter`: time passes, the goroutine runs, Iris answers now and then.
- `Process`: every loop is scheduled, `SendMessage` returns, and each call of the
  authentication checker is over in the end, answered or not.  That Iris answers
  some of them (`IrisAnswers`) is nothing the process can see to, so it is a
  premise of the properties that need it, `AdoptsKeys` and the second part of
  `ShutdownEnds`; without it both are violated.
- Nothing makes a user claim, a call fail, a process crash, or a client start.

## 4. Proofs

`VendorQueueProofs` proves, for every finite set of plans, every set of
messages, every assignment of messages to plans and every channel size:

- `TypeCorrect`: `Spec => []TypeOK`, a consequence of `IInv` below: that a turn has
  a message follows from the agreement of tracker and queues.
- `QueueCorrect`: `Spec => []QueueInv`.  `QueueInv` alone is not inductive: a
  step of a vendor that has no plan, or the wrong one, would break it.  The
  inductive invariant is `IInv == TypeInv /\ RightPlan /\ QueueInv`, where
  `TypeInv` is `Types` with what each value of `pc` says of `plan` and `hand`,
  and `RightPlan` that a message is in the queue of its own plan and that a
  retry finds its plan tracked, so that it never has to send.  There is one
  lemma for each action that disturbs a part of it (`AddLockStep`,
  `AddSendStep`, `GetNextPlanStep`, `RequeueStep`, `AdvanceQueueStep`,
  `VendorPushStep`) and one for all others (`QueueStepElsewhere`).
- `NeverBlocks`: if the channel has room for every plan, then
  `Spec => []SendNeverBlocks`.  By `OnePlace` the plans in the channel are
  distinct and the one to be sent is not among them, so the channel holds fewer
  than all plans (`DistinctLeavesRoom`, a counting argument with the library's
  theorems on injections between intervals and finite sets).

- `QueueIsPool`: `Spec => ImplementsPool`.  The pool is the set of waiting messages,
  the head that is being served excepted.  A set does not see a message that is
  there twice, or waiting while it is in hand, so `OnceInv` is needed beside
  `IInv`: neither happens, and what is still to be added is in no queue.  Each
  action is then `Put`, `Take`, `Release` or `Again` of the pool, or nothing.

- `FairTurns`: `Spec => RoundRobin`.  The strengthening is `TurnInv`: whoever
  has overtaken a plan in the channel is behind it there; what has overtaken a
  plan that an adder is about to send is not in the channel, because the vendor
  needs the adder's mutex to send it again; a plan that has its turn or has no
  messages has not been overtaken.

The assumptions are those named in `VendorQueue`: finitely many plans, `None`
is neither a plan nor a message, every message has a plan, the capacity is a
natural number.  The channel of the code has 5000 slots: the premise of
`NeverBlocks` is that there are at most 5000 plans.

`MessageQueueManagerProofs` proves, for any messages of any kinds, any vendors,
retries and limits:

- `TypeCorrect`, `KeptInOnePlace` (`OnePlace`), `SuccessIsFinalCorrect`
  (`SuccessIsFinal`), `BudgetKept` (`RetryBudget`) and `RouteFollowed`
  (`SendFollowsRoute`).  None of these is inductive: a vendor works on a copy of an item that clients may delete
  and that it writes back later.  `IInv` follows a message on its way.  `Alone`
  says that it is in one place only, `Clients` what its owner has done, and
  `Items`, `Copies`, `Queues` and `Turns` relate, for each place, the item in the
  tracker, the vendor's copy of it and what has been done with the message: in a
  queue they agree; during a turn the tracker lags behind the copy from the send
  to the write-back.  What they say of the tracker is said of messages that are
  still in it; one that was deleted may finish its way, and its last write finds
  nothing.
- `NothingResurrected` (`NoResurrection`): `UpdateMessage` writes only what is
  there, and a message is added once; so what is gone, which only grows, and what
  is present stay apart (`Clients`).
- `ClientsSeeTracker`: `Spec => Tracker!Spec`, what `ImplementsTracker` says without
  its progress.  Only additions, the write-back of an inactive item, deletions and
  the flag of `RunOnce` change what clients see; all else is a stutter there.
- `QueuesUsed` (`UsesPools`): a vendor takes what is there, and nothing is put into
  a pool that is in it or in hand.  With `QueueIsPool` this is why sets may stand
  for the queues here.

The assumptions are that `None` is neither a message nor a vendor nor an item, that
every message has a kind and a vendor, that the dummy is among the vendors that
only store, and that limits are natural numbers.

`IncidentManagerProofs` proves, for any incidents, any plan of at least one step,
any numbers of repeats and parts, and any bound on the faults:

- `TypeCorrect`, `NobodySkipped` (`NoStepSkipped`) and `IrisNeverGoesBack`
  (`IrisStepMonotone`).  What Iris shows is the result of a call about a decision
  that a goroutine made after it had visited the notifications one by one, and any
  call may be lost.  `IInv` therefore adds what the escalation knows (`StepInv`:
  Iris is at most one step ahead, the steps behind it are handled), what the
  goroutine knows so far (`TurnInv`), when it may run at all (`LoopInv`), and that
  every life after the first was paid for with a fault (`LivesInv`).
- `NothingElseLeft` (`OnlyRepeatsLeftBehind`), from `LeftInv`: where a message in
  the tracker can be (`Placed`), and that the ids of a first round are all listed
  (`FirstListed`), so that `deleteIncident` reaches them.
- `OrphansAreRepeats` and `RemovalsFollowFaults` delimit findings 3 and 4: with a
  plan that repeats nothing `NoOrphans` holds, and an incident that Iris has as
  active is only removed after a fault.

The assumptions are that the plan is a nonempty sequence of disjoint sets of
notifications, each with finitely many parts and at least one, and that `None` is
neither a step nor an escalation.

`AggregationManagerProofs` proves, for all plans, settings, escalations and time
bounds, `TypeCorrect`, `ThresholdCorrect` (`NeverOverThreshold`),
`BatchesCorrect` (`BatchesAnnounced`), `FreshBatchCorrect` (`FreshBatch`) and
`EndsForAReasonCorrect` (`EndsForAReason`) and `StartsForAReasonCorrect`
(`StartsForAReason`).  `BatchesAnnounced` is not inductive:
`BatchInv` adds that the batch of an aggregated plan has been announced and that
announced batches carry the names of escalations already counted; that a new
batch is named by an escalation that was not is why it is fresh.
`StartsForAReason` counts: by `CountInv` the counter of a plan that collects never
exceeds the number of different escalations that began since its window did, and
the window is never open for longer than its length and the lag of the loop; the
escalation that crosses the threshold is one more of them.  The
assumptions are that settings are natural numbers, that `MaxAge` is past every
window, and that `None` is neither a number nor a record.

`StatusStoreProofs` proves, for any messages, callbacks, number of retries,
faults and crashes, with and without an exit:

- `SendersCorrect` (`OneRecordEach`): a vendor in `Recording` makes a record of an
  attempt exactly when there will be no other; the vendors outside it (FCM always,
  mail, Twilio and drop under some configurations) never make one; and only what
  went out is recorded as sent.
- `TypeCorrect` and `RecordFinalCorrect` (`RecordIsFinal`).  The inductive
  invariant `Inv` adds to the types what a call of `writeStatus` knows of its
  message (`CallInv`), that the vendor's id in a row belongs to its message
  (`RowInv`), and that a message a vendor has reported is not tried again
  (`Reported`); the last rests on `SendersCorrect` and on `runVendor` comparing
  the retries as `SendMessage` does.
- `RegisterCorrect` (`ImplementsRegister`): `Spec => Register!Spec`.  Every
  statement of `writeStatus` is one of two things (`StatementEffect`), nothing
  or a write of its status to its message, whatever the other writers and the
  faults do in between; so each step is a step of `StatusRegister` or none.
- `AcknowledgedIsStored`: a writer that names its message and gets no error has
  written, and the message has a row from then on (`SavedInv`).  It delimits
  finding 5: only a callback that knows no more than the vendor's id can be
  answered with a 200 and lost.

`RateLimiterProofs` proves `TypeCorrect` and `RateCorrect` (`RateKept`) for every
limit, number of peers and delay, if a second has at least as many units as the
limit has messages.  The invariant is `Credit`: what was sent, plus a message
each for a turn in hand and for a kept tick, is less than two messages plus the
time left to the next tick.

`ProcessProofs` proves `TypeCorrect`, `ReadyCorrect` (`ReadyHasKeys`) and
`GracefulExitCorrect` (`GracefulExit`) for any set of vendors.  `QueueWaited`
carries the latter from the vendors to the loop of the message queue manager, and
`LoopsEnded` from the loops to `main`.

`NotificationsProofs` proves for every plan `ContextOfLastCorrect` (the notices of
a step share the last one's variables, an observation of section 5), and that
the notices of an aggregation go to everyone (`NobodyForgottenCorrect`), once
(`OneNoticeCorrect`), and nowhere else (`OnlyWhereOfferedCorrect`).

The last part of `StatusStoreProofs` is about `MessageQuery`.  It proves for every
request and table that an answer hides no message that is all the request asks for
(`NeverHides`), never ignores all of the request (`NeverUnfiltered`), and is exact
when no filter is of those silently left out (`ExactWhenUnderstood`, where
`Understood` lists the others).

So every safety invariant, every action property and the safety part of every
refinement that a passing run checks is proved.  Only model-checked is what needs
fairness, which is out of the proof system's reach: `Served`, `EventuallyGone`,
`BackPressureClears`, the `Progress` in `ImplementsTracker`, `EveryIncidentEnds`,
`AggregationEnds`, `EveryOutcomeRecorded`, `AdoptsLimit`, `ShutdownEnds` and
`AdoptsKeys`; and the five violations, which are counterexamples.

## 5. Findings

1. `NeverSendsOnClosed`: `Run` closes `vendorQuit` and then every `PlanQueue` at
   once (`messageQueueManager.go:474-478`), while goroutines of
   `AddToVendorQueue` and the vendor's own `AdvanceQueue` may be about to send
   on it.  The wait that is to make the end graceful comes after the close.
2. `DroppedNeverDelivered`: `deleteIncident` records a message as dropped
   (`incidentManager.go:535`) that the vendor may be sending, or have sent,
   before it is deleted.
3. `NoOrphans`: the ids drawn for a repeat are not added to `messageIDList`
   (`incidentManager.go:414`), so an incident that is claimed during a repeat
   leaves that message in the tracker.  Nothing else does (`OrphansAreRepeats`).
  Such messages count for the back-pressure, which `messageQueueManager.go:362`
  says is momentary: once they fill the queue it is not, the exception that
  `BackPressureClears` makes.
4. `RemovesOnlyInactive`: a batch that cannot be fetched
   (`incidentManager.go:600`) is missing from the list of active incidents, and
   its incidents are removed as if they had been claimed.  Without a fault that
   cannot happen (`RemovalsFollowFaults`).
5. `CallbackApplied`: a callback that knows only the vendor's id finds no row
   when it is quicker than the goroutine that stores the id, or when the row was
   made by a writer without that id (`dbClient.go:112`); nothing is updated and
   the vendor gets a 200.  A callback that names its message is safe
   (`AcknowledgedIsStored`).

### Observations

Not findings, because nothing in the repository says otherwise or no property of a
run is about them:

- The notifications of a step share the map `Context`; when they are rendered its
  entry `iris` is that of the last of them (`incidentManager.go:276`), so target,
  priority and template are right for that one only (`ContextOfLast`).  With an
  incident that has no context the map is nil and the assignment panics.
- A vendor may send three messages back to back after a pause, where
  `messageQueueManager.go:230` speaks of adhering to the limit (`RateKept`
  says that it is never more).
- `resetAggregation` keeps the batch id (`aggregationManager.go:124`), which
  `checkAggregation` still returns; no caller looks at it, and `FreshBatch` shows
  that it does no harm.
- Somebody may be notified twice: an error of `Quit` after the mail was taken
  (`emailVendor.go:148`), or a timeout of Slack or Twilio after they accepted the
  message, is reported as a failure and tried again.  `SuccessIsFinal` says that
  a message that was reported as sent is not tried again.
- An error of `smtp.NewClient` is not looked at (`emailVendor.go:109`).
- While Iris does not answer the authentication checker goes on to its next tick
  without a look at `Quit` (`hmacAuth.go:161-164`), and a shutdown waits for it for
  as long (`OnlyCheckerLeft`).
- A shutdown waits neither for the goroutines of `persistMsg` (`vendor.go:108-110`)
  nor for those of `AddToVendorQueue` before `main` returns (`main.go:147`): the
  record of a message that was just sent may be lost, as after a crash.
- `postNotification` looks at the back-pressure before a call to Iris and adds the
  message after it (`api.go:48`), so the queue may be exceeded meanwhile; nothing in
  the repository says by how much it may.
- A query with `in` and one value, with a list and no filter, or with `sent` and
  an equality loses that filter, and `created` is ignored when `sent` is given.

## 6. Not modelled

- The formats and protocols of the senders, the HMAC of `CheckAuth`, JSON, SQL
  text, logging, log rotation, metrics and configuration: pure I/O or data.
- `StorageDryRun`, under which nothing is stored; the rows of change logs, which are
  inserted and read and nothing else; the heartbeat, which touches no other state.
- The time calls take.  In particular `GetPeerCount` is called with two locks
  held (`messageQueueManager.go:370`); that delays everybody, which an untimed
  model cannot tell from any other delay.
- A `PostEscalateIncident` that takes effect only after the caller has gone on
  to a later call: a failed call takes effect at once or never.
- Several processes that share the incidents: Iris assigns each incident to one
  of them, and moving an incident elsewhere looks like a claim (`Claim`).

## 7. Plan

Every component that has behaviour of its own is modelled, and what the runs check
without fairness is proved.  What is left, in this order:

1. The theorems that delimit findings 1 and 2, as there are for 3, 4 and 5: until
   `Run` closes the channels nobody sends on a closed one, and a message that was
   dropped and delivered all the same was in a turn when it was dropped.
2. The composition: that a `VendorQueue` in place of each pool is still used as
   `MessageQueueManager` expects, from `QueueIsPool` and `QueuesUsed`.
3. `IncidentManager` composed with `AggregationManager`, if it is settled whether an
   incident that is forgotten and fetched again should count again.
