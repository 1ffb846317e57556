# hookmill in TLA+

hookmill is a durable webhook sender: commands enqueue messages for named
endpoints into a write-ahead log, `hookmill deliver` (run from cron) POSTs what
is due, failures are retried along an explicit schedule, and what is left goes
to a dead-letter state from which it can be requeued. This directory holds TLA+
specifications of it, the TLC configurations that check them on small instances,
and proofs checked by TLAPS. Source paths are relative to the repository.

## 1. Inventory

| component | state | operations | interacts with |
|---|---|---|---|
| `internal/backoff` | none; a schedule is a list of waits | `Parse`, `String`, `MaxAttempts`, `NextDue` | the store keeps a schedule as text in the log; the engine asks for the next due time |
| `internal/wal` | `wal.log`, the open handle, `nextSeq` | `Open` (replay, repair), `Append`, `Rewrite` | the file system; called by the store |
| `internal/store` | schedule, endpoints, messages, two creation orders | `Init`, `Open`, `AddEndpoint`, `RemoveEndpoint`, `RotateSecret`, `Enqueue`, `MarkAttempt`, `Requeue`, `Compact`, `Due`, lists, `Counts` | every mutation is one record appended to the log, then `apply`, the same function replay uses |
| `internal/deliver` | the due list of the round | `RunOnce`, `Drain`, `attempt` | reads `Due`, POSTs through an `http.Client`, records with `MarkAttempt` |
| `internal/cli` | none between commands | one process per command: open, mutate or print, exit | every command opens the store, so every command may repair the log |
| `internal/cli/queue.go`'s `http.Client` | the exchange under way | follows redirects, times out over the whole exchange | between the engine and the receiver |
| `internal/signature`, `verify`, `sign` and `verify` commands | none | sign with one or two secrets, parse and check a header, tolerance | the engine signs; receivers verify |
| `internal/cli/listen.go` | two counters behind a mutex, the server | a receiver for trying things out | stops itself after `--max` deliveries |
| `cmd/hookmill`, `internal/version` | none | call `cli.Run`, exit with its code | |

What is hard in it, and what makes each part correct:

* **Log.** A process may be killed, or the machine lose power, between any two
  system calls, and the repair of a torn tail is itself a sequence of them.
  Correct means: what was acknowledged survives, the damage a crash leaves is
  never taken for corruption, and a process appends to exactly what it replayed.
* **Store.** Long mixtures of legal calls: remove, re-add, requeue, compact.
  Correct means: memory equals a replay of the log, a waiting message can be
  delivered, delivered is final, history is only added to, and every queueing
  gives the number of attempts the schedule promises.
* **Engine.** The receiver may accept what the engine records as failed, and a
  run may end between the POST and its record. Correct means: duplicates come
  from these two only, waits are respected, and no message starves.
* **Commands.** A command of several calls fails in the middle; `init` is two steps; an
  error after a write leaves a record that counts. Correct means: what was printed as done
  is kept, exit 0 means all of it, and no crash shows a log that is not the store's.
* **Processes.** Nothing locks the data directory, the repair goes by path, the append
  handle stays with its file. Correct means at least: nothing is lost in silence, no
  record of a stale memory is replayed, and reading does no harm.
* **Signatures.** A rotation meets requests under way and a receiver that is switched some
  time later. Correct means: what is accepted was signed so and in time, and the rotation
  itself never costs a delivery.
* **HTTP client and listener.** Redirects, bodies that stall, handlers and a shutdown that
  run concurrently. Correct means: an attempt ends and counts by its answer; the listener
  fails as many as it says and ends when it says.

`PROJECT.json` lists the hazards line by line with the properties that cover them.

## 2. Modules

| module | what it is | code |
|---|---|---|
| `Backoff` | schedules, their text form, `NextDue` | `internal/backoff/backoff.go` |
| `StoreState` | the store's state, the log's records, `apply` for each record type, `Due`, the engine's outcome; operators only, no steps | `internal/store/store.go`, `deliver.go:147-161` |
| `Store` | one open store: `st` and `log`, an action per mutation, `requeue --all`, `Compact` | `internal/store/store.go`, `cli.go:340-374` |
| `Outbox` | the abstract promise about each message's life; `Store` and `Deliver` are shown to keep it | |
| `StoreStateProofs` | theorems about `Backoff` and `StoreState`: the operators that the rest is built from | |
| `StoreProofs` | theorems, over `StoreStateProofs` | |
| `LogLines` | the lines of the log: what replays, what is torn, what is corrupt; operators only | `wal.go:56-161` |
| `Wal` | `wal.log` system call by system call, kills and power losses | `internal/wal/wal.go` |
| `DurableLog` | the abstract promise of a durable log; `Wal` keeps it, and so do the turns of `Processes` | |
| `WalProofs` | theorems | |
| `Processes` | several commands on one directory, over `LogLines` | `internal/wal/wal.go`, `store.go:482-502`, `cli.go:156-168` |
| `ProcessesProofs` | theorems | |
| `Commands` | one process per command over `StoreState`, step by step with its exit code and crashes; refines `Store` | `internal/cli/{cli,endpoint,queue}.go`, `store.go` |
| `CommandsProofs` | theorems, over `StoreStateProofs` | |
| `Deliver` | deliver runs over `StoreState`, with clock, receivers, kills and the commands between runs | `internal/deliver/deliver.go`, `cli/queue.go:67-120` |
| `DeliverProofs` | theorems, over `StoreStateProofs` | |
| `Exchange` | one attempt on the wire | `deliver.go:102-166`, `queue.go:80-84`; net/http is external |
| `Signature` | what is signed and the check; operators only | `internal/signature/signature.go` |
| `Receiver` | one request as it arrives, and what the handler or the verify command makes of it | `verify/verify.go`, `cli/signcmd.go` |
| `Rotation` | `StoreState`, `Receiver`, the engine's runs and the operator together | `store.go:406-421`, `endpoint.go`, and the above |
| `RotationProofs` | theorems, about Receiver too | |
| `Listen` | the test receiver, handler by handler | `internal/cli/listen.go` |
| `HttpProofs` | theorems about `Listen` and `Exchange` | |
| `MCStore`, `MCWal`, `MCProcesses`, `MCCommands`, `MCDeliver`, `MCExchange`, `MCRotation`, `MCListen` | the instances TLC checks | |

Definitions that a comment calls a mistake are used by no specification: the properties
are checked to notice them (section 8).

**Store.** `st` is the struct `Store` without its handle: `schedule`, `endpoints`
(name to secrets), `epOrder`, `messages` (id to message), `msgOrder`. `log` is the
sequence of records a reopen would read. Each action has the guard of the method it
is named for and ends in `Commit`, which appends the record and applies it, as
`commit` does. A record keeps the schedule as *text*: `ScheduleText` and
`ParseSchedule` are what `Schedule.String` and `backoff.Parse` do, so a schedule that
did not survive the trip would show in `ReplayReproduces`. `RequeueAll` is the loop
of `requeue --all` in closed form: the ids `Reached` before the first refusal. That this
is what the loop does, one call after another, is `RequeueAllIsTheLoop`; each call has a
reading of the clock of its own. `Counts` is the loop over the messages in any order, as Go walks
a map, with the zero time for a due time not found yet.

**Wal.** A line is a record with a sequence number, the operations it stands for and
a *frame*: whole, valid but without its newline, or damaged; these are the cases
`parseLine` and `Open` tell apart. `file` is what a read returns, `disk` the set of
contents a power loss may leave, `prior` those it may leave under the name while the
name is not durable. `pc` is the system call the process is at. `Open` checks and
replays; `Truncate`, `Terminate`, `TerminateSync` are the repair; `Write`, `Sync`,
`Report` are an append and the command's report; `WriteSnapshot` to `Reopen` are a
compaction; `WriteCutShort` is a write that fails or is interrupted. `Exit` ends the
process anywhere. An `Open` that would return `ErrCorrupt` is not enabled.

**Processes.** Files are told apart by number; `log` is the one named `wal.log`. Each
process has what `Open` gave it (`good`, `nextSeq`, `mem`) and a `handle` that stays with
its file. `Read` is the read and check, `Truncate`, `Terminate`, `OpenFile` what `Open`
then does by path, `Write` to `Report` an append, `OpenCompacting` to `Rename` and `Reopen`
a compaction. A truncation at an offset that is no longer where the read found it may fall
anywhere (`Truncated`). `base` remembers what the writer of an operation had in memory.
A behaviour plays one `use` of the directory: whether writers take turns, whether a read
may see half a write, and the bounds.

**Commands.** `disk` is the log with its past: every record ever written that led to it, also
those a compaction has folded away, and the store they amount to. `spared` is what a power loss
may leave. A command opens, takes the `todo` of its arguments and works through it record
by record: `Refuse` is the method's error return, `Write`, `Sync` and their failures the
append, `Rewrite` the compaction, `Finish` exit 0, `Kill` and `PowerLoss` the rest. `told` is the
past when something was last reported done. `init` is `InitStarts`, which leaves an empty
log, and the same `Write`. `Methods` is `Store`, with `disk`'s store and records for `st` and `log`.

**Deliver.** `due` is the list of the round, made once when the round begins. `Post`
chooses what the engine saw: a request that the receiver accepted is failed when its answer
is lost or late. `Mark` is `MarkAttempt` with the outcome computed at that moment. `known` and
`lastEnd` are history: acceptances that a run or the log knows of, and when the last recorded
failure ended. The log itself is left out: what is applied was appended and synced first, so
`Kill` loses only the attempt in hand. `Promise` is `Outbox` over the messages of `st`: a run
changes them in `Mark` alone. `attempt`'s guard against an unknown endpoint is in
`Post` and ends the run; it is never taken, `PendingHasEndpoint` is a theorem of `Store`.

**Exchange.** `Follow` is net/http's redirect, with the method it changes; `Answer` the header
that `Do` returns, `Drained` the body read and dropped, `Expire` the timeout, an error before
the header and nothing after it. `direct` remembers what the configured endpoint itself said. The operators
of its specification carry its name, so that one module can extend it beside `Listen`.

**Signature, Receiver, Rotation.** A text is the sequence of its pieces between dots, so that
`SignedContent` joins id, timestamp and body as `signedContent` does, and says as little about
where the id ends. An HMAC is the record of the secret and the content it is over. `Arrive` is a
request with any id, timestamp and body together, and with all, some or more than the signatures
made; `Handle`, `VerifyCommand` and `VerifyUntimed` are the three
ways it is checked. `Rotation` takes Receiver's variables and actions as they are: `Send`
gives it a request signed with what the run `held`, `Check` is one of the three, `Record`
is the engine's record of the answer. `Rotate`, `RotateUnprinted` (the record is in the log, the
secret was not printed), `ListSecrets` and `Switch` are the operator's.

**Listen.** A request goes through `Lock`, `Refuse` or `Choose`, `Fail` or `Succeed`, `Return` (the
deferred unlock) and `Flush` (the buffered answer is written). `Shutdown` closes the listener
from its goroutine, `Exit` is `Serve` returning and the process ending.

## 3. Runs

| run | question | instance | result |
|---|---|---|---|
| `store_messages` | is what the store says of a message consistent, final and what `Outbox` promises | 2 ids, 2 endpoints, 3 secrets, schedules `none` and `1m,1h` | holds |
| `store_requeue_all` | does `--all` requeue every dead message | 3 ids, 2 endpoints | violated, section 6 |
| `wal_crash` | what do kills and power losses leave | 4 operations, 2 compactions | holds |
| `processes` | what do overlapping commands do to the log, and is it one durable log to those that take turns | 2 appenders, a compacter, a reader, 4 uses | holds |
| `processes_overlap` | can every state be reproduced by reopening | 2 appenders, a reader | violated, section 6 |
| `commands` | is what a command reports kept, and its log the store's | 2 ids, 1 endpoint, 2 secrets, 3 logs to begin with, 3 new records | holds |
| `deliver` | duplicates, waits, order, rounds, settlement, and do runs keep what `Outbox` promises | 2 ids, `--limit` 0 and 1, with and without `--drain`, schedules `none`, `0s,0s`, `0s,1s`, one kill | holds |
| `deliver_limit` | is `--limit` a limit of the run | as `deliver` | violated, section 6 |
| `exchange` | does an attempt end, and count by its answer | 2 URLs, 10 requests | holds |
| `exchange_redirect` | is a 3xx retried | as `exchange` | violated, section 6 |
| `rotation` | does a rotation, with all that may be under way, cost a delivery, and what is accepted | 3 secrets, 3 clock offsets, 2 tolerances, 2 s of delay, one changed request, one kill | holds |
| `listen` | `--fail-first`, `--max` and the exit | 5 requests, 4 that verify, 2 and 2 | holds |

Bounds, and why they are enough:

* `store_messages`. Two messages, for one endpoint or for two, are what `RemoveEndpoint`
  and the orders tell apart; `requeue --all` has its third message in its own run.
  Three secrets and two rotations reach the cap of two. Schedules of zero and two waits
  have the first, a middle and the last attempt. `MaxHistory` = 4 lets a message use up
  its three attempts and start a second cycle. TLC's view is `st`: these properties do not
  read the log, and no step of `st` depends on it (`MaxLog` is out of reach). Ids, names and
  secrets are symmetric.
* `wal_crash`. Four operations: a durable one, one under way, one cut short and one after
  a repair. Two compactions: one of a replayed log, one of a compacted log.
* `processes`. Two writers are what a stale memory needs, three operations beside the
  first let the stale one be followed by another; the reader's repair is the third party.
  The uses: appends that overlap; the same with reads that see half a write and an append
  cut short; that again, with one operation more, for writers that take turns; and
  compactions by writers that take turns. Together they would be out of reach, and most of
  what they share is in one of them. `Durable` is `DurableLog` over what the named file replays to.
The theorems have no such bounds.
* `commands`. Three new records after each of the three logs: nothing yet; a message that has
  failed once; two that are dead, so that `requeue --all` and `deliver` have two calls and
  can end between them. From nothing, three are the configuration, an endpoint and either
  a rotation or a message. TLC's view leaves out the exit code of what was not 0.
* `deliver`. Two messages are enough for a limit of one to leave something out. The clock
  moves at any step up to `MaxTime`, and after it only to the next due time (waits and
  histories are finite, so the state space is). `MaxRounds` = 4 stands for
  `maxDrainRounds` = 1000: one message with three attempts cannot reach it, two can.
  `MaxKills` = 1 puts a kill at any one step; `MaxHistory` bounds requeues and nothing else, so
  no attempt is ever blocked.
* `exchange`. Ten is the client's own limit on redirects; two URLs make a circle.
* `rotation`. Three secrets are two rotations, the second after the switch: the one that
  retires the receiver's old secret. A clock 3 s behind is beyond every tolerance, one that is
  1 s off is within; delays of 2 s carry a request from one side of a tolerance to the other.
  The message's text can be divided after each of two numbers, so a changed request may have the
  signed content under three ids. Integers have 6 bits (`MaxInt` = 31): a clock at 4 is 32 away
  from the stamp -28, and their difference overflows.
* `listen`. Four genuine requests are the two to fail and the two to count; the fifth is refused.

Deadlock checking is off where the system may stop: bounds end the store's, the log's and the
commands' runs, a log that `Open` refuses stops for good, an attempt and a listener end, and
a delivered message leaves nothing to send. `deliver` has it on: another run can always start.

Fairness:

* `Deliver`: the clock goes on, a started run takes its next step (a request ends because the
  client has a `--timeout`, 10 s by default), and deliver is started again and again, as
  README.md asks of cron. Kills are bounded because a run killed for ever delivers nothing. No
  fairness is put on enqueueing, removing or requeueing.
* `Exchange`: the timer fires and the engine goes on; nothing is asked of servers.
* `Rotation`: runs are started, send, and what is sent is checked and its answer recorded; the
  operator and the receiver's switch may stop anywhere.
* `Listen`: every client sends, every goroutine goes on, and Go's mutex starves no one (strong
  fairness of `Lock`; `sync.Mutex` hands over to a waiter of more than 1 ms).

## 4. Properties

* `Store`: `PendingHasEndpoint`, `DueIffPending`, `StatusAgreesWithDue` (in whatever order the
  map is walked, `status` shows a due time that has come exactly when `deliver` has something to do), `OrderMatchesMap`,
  `HistoryHonest`, `RetryBudget` (a message is dead of exhaustion exactly when its streak has
  used the schedule's attempts), `HistoryKept` (action property), `ImplementsOutbox`.
* `Wal`: `AckedSurvive` over *every* content a crash may leave, not only the current one;
  `NeverRefused`; `AppendContinues`; `ImplementsDurableLog` (an operation enters the log on
  top of exactly what its writer had in memory, and a crash takes away nothing
  acknowledged and nothing that a surviving operation was written after).
* `Processes`: `NothingStale` (what the log replays to is one history: the shared sequence
  number keeps the stale record out), `NothingLostSilently` (in the log, or the log is
  refused), `ReadersAreHarmless`, `TurnsKeepTheLog` (action property: commands that take turns see,
  on a log without damage, a `DurableLog` that loses nothing, whoever reads it). Their
  conditions on compactions, cut appends and turns are not for convenience: without each of them the
  property is false (section 6).
  `NothingStale` is promised to writers that take turns, and to any others on a log without
  damage (`Undamaged`).
* `Commands`: `ToldIsKept`, `ReplayReproduces` (every content a crash may leave replays to what its
  records, folded or not, amount to, and the running command's memory is that of its log),
  `ConfiguredFirst`, `ExitZeroMeansDone`, `ImplementsStore` (a refinement: each change of the
  log is a step of `Store`, `init`'s record, or a loss of what nobody was told).
* `Deliver`: `ReceiptsExplained` (at-least-once, and no more than the lost acceptances
  explain), `Spaced`, `MostOverdueFirst`, `DrainSettles`, `EveryMessageSettles` (liveness).
  `DrainSettles` bounds a drain by all the attempts its messages have: a bound by the
  attempts of one, which zero waits would give, is false when failures of one message fall
  due while another is tried, or with a limit. `ImplementsOutbox`: clock, kills, rounds and
  the commands between them add up to what `Outbox` promises of each message.
* `Exchange`: `AttemptEnds` (liveness), `AnswerStands`.
* `Rotation`: `AcceptedWasSent` (Receiver's: what is accepted has the signed content, is the signed
  request where the ids have as many dots, and is in time where the distance of the times is an
  int64), `SentIsAccepted` (Receiver's), `ReceiverCovered`,
  `RefusalExplained`, `EventuallyDelivered` (liveness).
* `Listen`: `FirstOnesFail`, `ServesUntilMax`, `ExitsAfterMax` (liveness).

## 5. Proofs

Every invariant, every action property and every refinement that a run finds to hold is also a
theorem, for every value of the constants; so are the types of `Wal` and `Listen`, and some facts of
the operators alone. Only liveness stays with TLC.

**Assumptions.** They are named, and TLC evaluates them in the runs. Bounds are natural numbers
(`BoundsAssumption`, parts of the others). Schedules are sequences of at most 32 waits, as
`backoff.Parse` demands, and clock readings are positive (`SchedulesAssumption`,
`TimesAssumption`, `DeliverAssumption`, `CommandsAssumption`). The logs a behaviour of Commands
begins with are finitely many, replay, and configure nothing later than their first record
(`PastsAssumption`). Which fsync makes a name durable is a yes or a no
(`FsyncCoversNameAssumption`); a command that appends does nothing else (`RolesAssumption`), and
the uses of a directory are uses (`UsesAssumption`). The marks for a missing value are not values
(`HeaderAssumption`, `MessageAssumption`, `ListenAssumption`, which also has finitely many
requests, `ExchangeAssumption`), the receiver's clock reads times (`ClockAssumption`), and the
largest integer and the default tolerance are natural numbers (`IntAssumption`). Ids and bodies
are sequences of pieces (`TextAssumption`), and clocks, timestamps and tolerances are int64
(`RangeAssumption`), however far apart. One group of theorems has a hypothesis: all of Wal's
assume `FsyncCoversName`.

**`StoreStateProofs`.** What the other proofs know of the operators.

* `DurationRoundTrip`, `ScheduleRoundTrip`: trimming the zero units of a printed duration loses
  nothing, so a record's schedule is the schedule.
* `ListingProperties`: a list sorted by a total order has exactly the elements chosen, each once,
  none before one it should follow. From it come `DueProperties` and `WithoutProperties`
  (what is left of an order when one entry is removed).
* `CountsAgreeWithDue`: what `status` shows is due is what `deliver` acts on. The loop finds the
  least due time in any order (`EarliestIsLeast`), because a waiting message's is never zero
  (`WaitsHonestly`, which `DueIffPending` gives): with a zero one the loop would start over.
* The lemmas on `Replay` and on that loop (`ReplayAppend`, `ShownExists`): both are recursive
  functions; that they have a value for any length, and that two logs agree as far as they are
  the same, is shown by the least counterexample, which needs no induction rule. That live
  mutation and replay agree is `ReopenReproduces`, below.
* `SnapshotApplied`: a snapshot replayed from nothing is the store it was taken of.

**`StoreProofs`.** `TypeCorrect` is inductive by itself. `MessagesHonest`: `DueIffPending`,
`HistoryHonest` and `RetryBudget` are conjuncts over single messages and inductive
together. `MessageSteps` reduces every action to what it does to one message: kept,
created, tried, cancelled or revived; each theorem is then five cases about a record
instead of eight about the store. `HistoryIsKept` follows from the same five cases.
`PendingAlwaysDeliverable`: `PendingHasEndpoint` alone is not inductive, because removal
walks `msgOrder`; it becomes so with `MessagesListed`, which says that the order misses
no message. `OrdersComplete` adds the same of the endpoints' order, and `StatusIsTrue` is
`CountsAgreeWithDue` on top of both. `StoreImplementsOutbox` maps each action to `Accept`,
`Deliver`, `Fail`, `Cancel`, `Requeue` or a stutter. `ReopenReproduces` is the first promise of
the package's comment: a reopen would take the log and give back `st`. It is proved and not run,
for the view leaves the log out. `RequeueAll` needs the most: `RequeueAllIsTheLoop` shows it to be
`Requeue` call by call, each in the state the one before left. What holds after some of the calls
(`RequeuedUpTo`) is again shown for all of them by the least counterexample.

**`WalProofs`.** Without `FsyncCoversName` TLC refutes the first theorem.
The invariant `IInv` speaks of every content in `Recoverable`, not only of the file, because a
power loss makes any of them the file. Each is `Sound` (whole lines in sequence, and a
last line that may be torn), which is what `Open` repairs, and `Safe`: it holds what
is acknowledged, nothing the file has not, and each operation with all it was written
after. `AtStep` says what the process knows at each system call (an append is written to
a log that ends in a whole line; the snapshot in the temporary file replays to what the log
replays to; when a report is due the synced file is all that can be found). `AckedSurvive`
is not inductive without it. `SameContentsSafe` disposes of the steps that leave the
replay as it is; `NewOpSafe`, `ReportSafe` and `PowerLossSafe` are the others.
`AlwaysOpens` follows: a sound content that `Open` refuses is a single damaged line, which
replays to nothing, so nothing was acknowledged.

**`ProcessesProofs`.** A command's memory is worth something against a file only up to its place
in it, the sequence number it is at. `OneHistory`: where commands overlap on a log without damage,
the place is never beyond the end, and while all lines replay the memory is what is before the
place; so a record whose number fits the end of the log was written by a command that had seen all
of it, and any other breaks the sequence. With turns it is the other way round: the one writer's
place is never short of what replays, whatever was cut and repaired. `Undisturbed` (no line is
damaged, so nothing is repaired and the file only grows) gives `LossIsReported`. These are about the
time before the first compaction, when there is one file (`OneFile`); `ReadersDoNoHarm` has an
invariant of its own, `InOrder`: with turns and without damage the log is in order at every
moment, and the one writer's memory is the log's. `TurnsAreDurable` adds `InHand`, that a record
being written is new and its writer has all that the log has: when its last byte is there the
operation enters on top of exactly what was, which is `DurableLog`'s write.

**`CommandsProofs`.** `IInv` has four parts. `Logs`: every content a crash may leave lies between
what was told and what is in the file, and replays to its store. `Memory`: the running command's
store is its log's, up to the record being written. `Work`: what is left to do is one call
whose arguments suit the store, or several of the two commands that repeat theirs. `Progress`:
the calls done are the last records of the log, and told. The four properties are read off
it; the replay rests on `ReplayAppend` and `SnapshotApplied`. `CommandsImplementStore` is the
refinement in full: `StepIsMethod` maps each step to a method of `Store`, to `init`'s record, to
a loss of what nobody was told, or to a stutter. Store's operators under the instance are shown
to be Commands' own (`SameApply` and its neighbours); `RoomInLog` shows that the bound on the
log, which Store has and the refinement gives a value, is never what stops a write.

**`DeliverProofs`.** `RoundPending`: the list of a round holds pending messages that are due, which
stays right because only the run changes messages while it lasts. With it `ReceiptsExplained`
and `MostOverdueFirst` are inductive; the first of a round is the most overdue by
`DueProperties`. `RecordedEnds` (a waiting message's due time is the end of its failure and the
schedule's wait) gives `AttemptsAreSpaced`. `DrainsSettle`: an attempt is a message and a number
up to the schedule's; `RoundsPaid` says that each round but the last has used one up for good,
so rounds are bounded by the attempts there are. `EngineImplementsOutbox` is the refinement: the
commands between runs are `Accept`, `Cancel` and `Requeue`, an attempt's record is `Deliver` or `Fail`,
and clock, posts and kills are stutters.

**`RotationProofs`.** `RotationInv`: the receiver's own secret is one of the endpoint's, and what
the operator saw last is the newest one, or after a rotation that was not printed, the
receiver's. This is what makes a second rotation retire the right secret; `ReceiverCovered` alone
is not inductive. `RunInv` and `RequestInv` follow a request from the run that signed it to the
verdict. The receiver's part is about any requests and any secrets (`ReceiverJudgesRightly`, more
than `Rotation` reaches): an entry of the header that matches is one that was sent
(`HeaderOnlyLoses`); a content has one division into an id of so many pieces, a timestamp and a
body (`DividedOnce`); and what the check computes from two times is their distance where that is
an int64 (`SkewIsDistance`).

**`HttpProofs`.** For `Listen`: handlers hold the mutex in turn (`Exclusive`), so what was chosen
is still right when it is counted (`ChoiceStands`), and the counters are the numbers of answers
(`Counted`). For `Exchange`: a status comes from the answer that ends the attempt and from nothing
else, so an error of `Do` is one without a status (`AnsweredOrErred`).

Model-checked only, because liveness is out of the provers' reach: `EveryMessageSettles`,
`EventuallyDelivered`, `AttemptEnds` and `ExitsAfterMax`.

## 6. Where the code and its words part

Shown by runs:

* `requeue --all` says "requeue every dead message" (`cli.go:342`); it returns at the first
  dead message whose endpoint was removed (`cli.go:368`), and does so again each time.
* `--limit` is "max messages to attempt this run" (`queue.go:69`); under `--drain` it limits
  each round (`deliver.go:93`).
* State is "reproducible by reopening the data directory" (`store.go:4`); `openStore` takes no
  lock, and two commands that overlap append the same sequence number, after which every
  `Open` returns `ErrCorrupt`.
* "Anything else (including 3xx) makes hookmill retry" (`docs/signing.md:52`); the client
  follows redirects, and a 302 whose target answers a GET with 2xx is a delivery.

Behaviours of the models, met when a property was first stated without the condition it now has;
no run is kept for them:

* A command that opened the log before a compaction appends to the file the rename has unlinked
  and reports success; the next command finds a sound log without the record (`store.go:494`).
  `docs/wal-format.md:41` has hookmill "refuse to open the log rather than silently drop records".
* A command that only reads, and found a torn tail, truncates by path (`wal.go:112`) after another
  has repaired the tail and appended: the acknowledged record is gone.
* A command that reads while a record is being written sees half a line, and truncates it after
  the writer has finished and reported it (`wal.go:112`).
* After such a repair the file can end where a third command, which opened before, believes it
  does: its stale record has the number that comes next, and is replayed. This is why
  `NothingStale` asks for turns or for a log without damage.
* Two compactions share `wal.log.compact` (`wal.go:228`): the log can be half a snapshot.
* Sequence numbers start again after a compaction, so a stale append can fit by accident.
* `init` killed between its two steps leaves an empty log (`store.go:166-171`): commands
  work on it with the default schedule, and `init` refuses for good.
* A command shows what it replays without an fsync (`wal.go:57`), and a power loss can take it
  away, although "any state a command shows you is exactly what a fresh replay
  reconstructs" (`docs/wal-format.md:6`).
* No directory is fsynced when the log is created (`wal.go:124`), and `syncDir` drops every error.
  Where fsync of a file leaves its name volatile (`FsyncCoversName` = `FALSE`), the first
  acknowledged record can go with the name.
* A malformed entry refuses a header that also has a matching one (`signature.go:102`), where
  `docs/signing.md:38` says that any match will do.
* The signed content `id.timestamp.body` does not mark where the id ends, and no verifier asks
  whether an id has a dot (`signature.go:59`). Signed as id `a`, time `t` and body `u.rest`, a
  request is also accepted as id `a.t`, time `u` and body `rest`, when `u` is in time or
  `verify --tolerance none` does not ask. `signature.go:56-58` and `docs/signing.md:29-31` say that
  a body cannot be replayed under a different id or at a different time; `AcceptedWasSent` says so
  where the id has as many dots as the signed one (those `newMessageID` draws have none).
* The distance of two times may be no int64 (`signature.go:134`): the difference wraps, and the
  negation of the least int64 is itself, so that some such distances pass for small ones. These are
  `Overflows` in `Receiver`, and the run meets one.
* An operator who answers a failed rotation by repeating it retires the secret the receiver has:
  the first one counted, unprinted (`store.go:417`). `Rotation`'s operator looks first.
* `listen` can end before its last answer is written (`listen.go:75`): `Serve` returns when the
  listener is closed and nothing waits for `Shutdown`.
* A drain can exceed its rounds on a healthy queue that keeps falling due, or is longer than
  `--limit` allows; the error asks only about schedules "all zeros" (`deliver.go:99`).

## 7. Assumptions, and what is not modelled

The file system: bytes of one file become durable in the order written, an fsync that
succeeds makes all of them durable, a rename is atomic, and a write holds its file against
other writes and truncations. `newMessageID` and `GenerateSecret` never draw a value in use.
Durations are whole seconds. The clock does not go back during `Deliver`. net/http's client and
server do what their documentation says.

Not modelled: HMAC's bytes, URLs, bodies, JSON, printing and flag parsing (no state, and no
property reads them); the entry point; `Deliver` and `Commands` have one process at a time, and
what several do to the log is in `Processes`; power losses in `Processes` (they are in `Wal`). An
endpoint re-added under its old name gets the old one's requeued messages (`store.go:473`): the
model allows it, as the code does, and no document says what should happen.

## 8. Running it

`tlc -config MCStoreMessages.cfg MCStore.tla`, and likewise for the other configurations;
`tlapm StoreProofs.tla`. Every `mutants` entry of `PROJECT.json` replaces one definition by a
mistaken one, after which its property is violated.
