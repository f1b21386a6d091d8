# QueueUp in TLA+

QueueUp joins a Rust server for a player who is away from the PC. The phone asks
the **relay** (a Go server with an SQLite database) for a join; the relay hands
the job to the **agent**, a program on the Windows PC that dialled in over a
WebSocket; the agent starts the game through Steam, follows the game's log, and
reports what it sees until a slot on the server is held.

This directory holds the specification of that system: modules in TLA+, runs for
TLC, and proofs for TLAPS. Source paths below are relative to `src/`.

    tlasany M.tla                            parse
    tlc -workers 2 -config X.cfg M.tla       model-check (module per cfg: see Runs)
    tlapm MachineProofs.tla                  check the proofs: invariants
    tlapm MachineRefinement.tla              check the proofs: refinement
    tlapm SchedulesProofs.tla                check the proofs: planned joins
    tlapm RunnerProofs.tla                   check the proofs: the job at work
    tlapm RelayJobsProofs.tla                check the proofs: the jobs of a PC
    tlapm BillingProofs.tla                  check the proofs: subscriptions
    tlapm AccountsProofs.tla                 check the proofs: accounts and email
    tlapm PartsProofs.tla                    check the proofs: the five small parts

## 1. Inventory

| Component | State | Operations | Talks to | What makes it correct |
|---|---|---|---|---|
| Job state machine, `internal/job/state.go` | state, attempt, flags of the attempt, launch times, wipe wait | `Handle` of one input, under a mutex | returns transitions and orders to the runner | launches bounded and rate limited; a wipe launch is explained; every wait ends; one end |
| Runner, `internal/runner/runner.go` | the loop's pending exit, whether the log was heard | one `select` over tick, status, log line, launch answer, exit, cancel | machine, launcher, log, feed | a player's quit is obeyed; a lost game is noticed; a won one is kept |
| Launcher, `internal/game/windows.go` | `closing`, exit channel of one slot, watcher goroutine | `Launch`, `Close`, `watchProcess` | Steam, the process list | an exit is reported once and for the right reason |
| Launch waiting, `internal/game/steamwait.go`, `steamapp*.go` | update state, stall clock | `judgeLaunchWait`, nudges | Steam's files | patience during an update, blame afterwards |
| Server feed, `internal/serverstat` | last status | `Push`, `Poll` | relay reports to runner | no report is invented |
| Log tail and parser, `internal/logtail`, `logparse` | position, head, identity of the file | `Follow` | game log to runner | each line of the session once, none of the one before |
| Agent application, `internal/agentapp/app.go` | current job, memo of finished jobs | `OnAssign`, `OnCancel`, `OnServerStatus`, `Stop` | client, runner | the current job is the one the relay wants |
| Relay client, `internal/relayclient` | queue of 64, connection, refusals in a row | `Run`, `Send`, reader, writer | relay | statuses are delivered or made up for |
| Relay hub and socket, `internal/relay/hub.go`, `server.go` | connection per PC, queue of 64, subscribers | register, send, read loop, publish | agent, phone | a stop or an assignment is never lost for good |
| Jobs, `internal/store/jobs.go`, `server.go`, `expiry.go` | a row per job, its events | create, apply, finish, expire | all of the relay | one job per PC; an end is final |
| Schedules, `internal/relay/scheduler.go`, `store/schedules.go` | a row per planned join, the free join of the account | create, cancel, claim, fire, resolve | jobs, hub | fires once; wins over a running join |
| Watcher, `internal/relay/watcher.go`, `internal/a2s` | last answer and poll time per job | sweep, apply, note | game servers, hub | reports reach the job they are about |
| Job events, `handleJobEvents`, `Hub.Subscribe` | 32-slot subscriber | replay, follow | phone | nothing missed, nothing twice |
| Pairing and devices, `store/devices.go`, `relayclient/pair.go` | code, claim, pending token, revocation | start, claim, collect, unlink | agent, phone | one PC per account; the token collected is the one stored |
| Subscriptions, `relay/billing.go`, `storebilling.go`, `store/billing.go` | status, ending, trial | checkout, webhooks, sync | Stripe, RevenueCat | what the account shows is what was paid |
| Referrals, `relay/referral.go`, `store/referral.go` | referrer, rewarded, banked, earned | award, spend, apply | Stripe | one reward per mate, one month per credit |
| Accounts, `relay/auth.go`, `start.go`, `oauth.go`, `reset.go`, `account.go`, `store/auth.go`, `reset.go`, `identities.go` | account, password, identity, sessions, reset links, day of erasure | register, start, sign in, change, reset, leave, stay, erase | mail, subscriptions | who was thrown out stays out; a link works once; nobody is erased who stayed |
| Emails, `relay/marketing.go`, `winback.go`, `onboarding.go` and their stores | claims, opt-out, campaigns | four loops that list, claim, send | mail provider | nothing twice, one a day, stop means stop, campaigns reach all |
| Free plan, throttle, server cache | counters, windows, bounded maps | check, record, evict | handlers | limits hold |
| Leads, feedback, support, web app, simulators, update, Windows UI | — | — | — | not modelled: text, cryptography or I/O, see 7 |

What is hard here. The loop of the runner gives launching, closing and watching
to goroutines and hears of them through channels, one of which drops. The game,
Steam and the player act on their own. The relay believes in a dead connection
for up to three heartbeats; `dispatch` may look an address up for ten seconds
while cancels overtake it; every handler is a goroutine whose statements
interleave with the others'. Either program may restart at any point and keeps
only the rows. Stripe, RevenueCat and the mail provider are told and asked over
a network that loses answers, and tell in their turn late, twice and out of order. `PROJECT.json` lists these hazards with the line where each bites.

## 2. Modules

| Module | What it is |
|---|---|
| `JobPromise` | abstract: what a join job promises. Five stages, one game at a time, at most `MaxAttempts` launches, one end, a win only for a slot held without a break, a backoff that ends |
| `Machine` | `internal/job/state.go`, one action per input. Implements `JobPromise` (`KeepsPromise`) |
| `MachineProofs` | theorems about `Machine`, for every value of its constants |
| `MachineRefinement` | the proof that every step of `Machine` is one that `JobPromise` allows |
| `Runner` | `Machine` at work: the loop of `runner.go`, the launcher of `windows.go`, the feed, and around them Steam, game, player, server and relay |
| `RunnerProofs` | theorems about `Runner`, and that every step of the job at work is one of `Machine` |
| `MCRunner` | the instance of `Runner` that is explored in full |
| `RelayJobs` | the jobs of one PC across relay, hub, socket, client and agent application |
| `RelayJobsProofs` | theorems about `RelayJobs` |
| `MCTakeover` | the instance of `RelayJobs` with two jobs |
| `Schedules` | the planned joins of an account, the scheduler, the gates of the free plan and the unlinking of the PC |
| `SchedulesProofs` | theorems about `Schedules`, for every value of its constants |
| `Billing`, `MCBilling` | what an account has paid for at Stripe and in the phone's store, and the relay's copy of it; the instance for TLC |
| `BillingProofs` | theorems about `Billing` |
| `Pairing` | a code, a PC that polls, and an account that claims it |
| `Referral` | months earned, banked and handed to Stripe |
| `Timeline` | the rows of one job, those who write them, and one browser that watches |
| `LogTail` | the reading of the game's log across sessions |
| `LaunchWait` | the wait for the game to appear while Steam updates |
| `MCParts` | the five parts above, side by side |
| `PartsProofs` | theorems about each of the five, and that the composition implies each |
| `Account` | the ways in and out of one account |
| `Mail` | the four loops that send email of their own accord |
| `MCAccounts` | `Account` and `Mail`, side by side |
| `AccountsProofs` | theorems about both |

**Machine.** The variables have the names of the struct's fields. Absolute times
became distances: `connectIn` is how long until `connectAt`, `held` and `waited`
how long since `inServerAt` and `waitingSince`, `launchAges` the ages of
`launchTimes` within the minute; `Elapse` lets a unit of time pass. An age of the
server is judged only in the report that carries it. What `Handle` returns to
the runner is the value of `action`. Positions, details and notes are left out;
`reason` is the one the last transition carried, its kinds merged where nothing
depends on the difference.

**Runner.** A step of the loop is a step of `Machine` conjoined with `Obey`,
which is `Runner.feed`. The goroutine that performs a launch is `launch[n]`,
with a phase for each thing it waits for (`begun`, `closing`, `waiting`, `handing`,
`ok`, `failed`); a close is `closeAsked`, then `killing`; `watchProcess` is `watcher`,
and one that outlives the next launch is `straggler`. `owed` is a link Steam was
handed. The nudges of `watchProcess` hand Steam the link that it owes already
and are no step of their own; the startup grace and the stall watch are the one
choice `WatcherGivesUp`. A run that ends by the agent's stop is not modelled.
`current` is `App.current`, together with any `OnCancel` that has read it: a cancel
(`CancelPressed`) calls `Launcher.Close` whatever the state of the machine is, until
the app has let go of the job (`Returns`), so it may come in after the job has been
won; `crossed` remembers that one did. `missed` remembers that a close of a cancelled
job was over while a launch or Steam had a game to bring, or with a game that even the
forced kill left. A `Close` lasts fifteen seconds at most (`windows.go:314-318`); the
twenty that a launch may wait on top of it (`windows.go:120`) are `LaunchWaits`, in
which nothing is closed.
Two launches may be under way at once: `feed` starts each in a goroutine and
waits for none, and the `Close` a launch begins with may outlast the backoff
before the next. `NothingComing` says that no such launch is under way and that
Steam owes no link; what is said of a game that ended is said of one that nothing
else of the job's is about to follow.

**RelayJobs.** `row` is the table of jobs, `hub`, `greeted`, `up` and `down` the
connection as the relay sees it, `session` and `out` as the agent sees it,
`current` and `finished` are the fields of `App`. A connection is `stale` when
the agent has lost it and the relay does not know. A step is what a goroutine
does between two looks at the database or the hub; a look and the write or send
that follows it are one step where nothing in between could change the outcome
(`handleCancelJob` reading the row, `fireSchedule` reading the active job), and
two where it could (`joining`, `firing`, `finishing`, `applying`, `dispatching`,
`handing`). The heartbeat, the address lookup (but not the time it takes), the
events and the failure branches of `OnAssign` are left out. Finishing a job
sets `finished` and clears `current` in one step.

**Schedules.** `state` and `recorded` are the columns of the `schedules` table
that tell how a planned join turned out (`recorded`: its `job_id` is set), `job`
and `thisMonth` what the count of the free plan reads of the `jobs` table,
`wipeUsed` and `paid` what the gates read of the account. `adding`, `joining` and
`unlinking` are handlers between two of their statements; `found`, `taken`,
`plan` and `step` are the scheduler in `DueSchedules` and `fireSchedule`. A read
that fails lets the join through, as in the code; a failed claim ends the tick.
An ignored failure (`_ = ResolveSchedule`) is the same as a stop at that point.
`Stop` is the relay's restart: handlers and scheduler are gone, the rows stay.
The order of `fire_at` and the hand-over to the PC are left out; the latter is
`RelayJobs`.

**Billing.** `at` and `leaving` are the truth at the tills, `row` the account's
columns, `work` a handler of a webhook: `ask` before Stripe or RevenueCat is
asked, `read` before the row is read, then one value for each write. What has
been read stays in `work` and may be old when it is used. `odd` notes what else
has happened (webhooks that overlap, a second purchase before the relay was
through with the first, a checkout heard of after its end, a write by hand, a
second checkout page), so that a property can say what it needs. A failure at any
step, and the relay's stop, put the webhook back. Refunds, the portal and prices
are left out.

**Pairing.** `owner`, `mark` (the token's hash) and `revoked` are columns of
`devices`, `parked` is `pending_tokens`; an entry goes through the four
statements of `ClaimPairingCode`. A poll is the two of `CollectPairingResult`: it
reads the parked token (`reading`) and deletes it (`Collect`). The connection of a poll
may break in between (`Lose`): the agent polls again, while the relay is still at the
old one (`adrift`), which then deletes too, or fails (`CollectLost`). `overlapped` are
the rows whose token two polls had read together.

**Referral.** One account that has sent mates. `step` is where a handler is
between the statements of `maybeAwardReferral` and `applyReferralCredits`;
`AwardReferral` is one transaction and one step. A handler of an award goes on to
the bank by itself; one of a renewal begins there.

**Timeline.** `rows` holds who wrote each row, its number is its place. A writer
is at `row`, `read` (it reads the rows back) or `publish`. `passed` is what the
channel had no room for, or another's publishing hid.

**LogTail.** `content` is the session in a file and its length in lines. A look
is three steps (`look`, `read`, `head`), between any two of which the game may
write, begin again in place or in a new file, or the file may go.

**LaunchWait.** One look a minute; `left` is the deadline's distance, `stall` and
`still` the clock that all launches share. `Runner` has this wait as the choice
`WatcherGivesUp`.

**Account.** A request goes through the statements of its handler, each once, in
`at`. An address has one account; sessions and links have the name of the request
that made them. A failed statement ends the request and keeps what it did; a failed
look at the subscription (`MayLeave`) lets a request to leave pass, as in the code, and
is noted in `odd`. The sweep and the administrator (`AdminErases`) share `EraseAccount`.
Disconnecting the PC of an erased account is left out. The
throttle and tokens' secrecy are left out.

**Mail.** A loop has its list, as it was read, and the one email in hand between
claim and send. A campaign is listed once in a round (`DueCampaigns`), and what is left
of its day and who is due are read later (`SendCampaigns`), when it may have been
cancelled: both are asked in one step, since nobody but this loop adds to either, and the count
is from the midnight before the round began (`counted`). `booked` is `marketing_sends` and the `*_reminder_at` and
`winback_stage` columns. Of the three stages of the win-back sequence there are
two; `joins_low` is `joins_out` with other bounds; the segment of the campaign is
that of free accounts. A list may leave people out (`Passes`), which stands for
the conditions on joins that are not followed.

## 3. Runs

| Run | Module / cfg | Shows | Distinct states |
|---|---|---|---|
| machine | `Machine` / `Machine.cfg` | type, rate cap, explained wipe launches, refinement of `JobPromise`, the wait for a wipe ends | 100 096 |
| runner | `MCRunner` / `MCRunner.cfg` | the player's quit is respected, a cancel ends the game, a won game is kept, a crash is noticed | 1 635 979 |
| relay_one_job | `RelayJobs` / `RelayOneJob.cfg` | a result arrives, a stop arrives, an assignment arrives | 86 768 |
| relay_takeover | `MCTakeover` / `MCTakeover.cfg` | the agent's word is final, a job stood down stops | 468 225 |
| schedules | `Schedules` / `Schedules.cfg` | a planned join fires once, is never forgotten, keeps its word; the free wipe join is spent once | 336 496 |
| billing | `MCBilling` / `MCBilling.cfg` | nobody open for nothing, who pays is let in, one trial | 2 302 052 |
| parts | `MCParts` / `MCParts.cfg` | one PC, a token that opens; months earned and not wasted; a whole page, a watcher that falls silent; a log read in order; a wait that is just | 2 553 476 |
| accounts | `MCAccounts` / `MCAccounts.cfg` | a change of password throws out, a link works once, erasing is rightful; email is sparing, stops, reaches all | 943 144 |
| waits_for_the_wipe | `Runner` / `WaitsForTheWipe.cfg` | counterexample, see Findings | |
| cancel_stops_the_job | `RelayJobs` / `CancelStopsTheJob.cfg` | counterexample, see Findings | |
| nothing_is_dropped | `Schedules` / `NothingIsDropped.cfg` | counterexample, see Findings | |
| given_is_kept | `Billing` / `GivenIsKept.cfg` | counterexample, see Findings | |

Bounds, and why they suffice.

* `Machine.cfg`: three attempts, so that the budget ends after a retry that
  itself followed a retry; a cap of one launch in a minute of three units, so
  that every backoff (one unit, then two) runs into the rate limit; a jitter of
  zero or one; holds and waits of two units, so that they can be interrupted
  half-way. The proofs remove the bounds for the safety properties.
* `MCRunner.cfg`: two attempts, because everything left over from an attempt
  (a watcher, a close, a goroutine, lines of the log) meets the next one; one
  unread line, because the loop treats each line alone and the order that matters
  is line against exit. Lines that decide nothing between goroutines are covered
  by `machine`. A third attempt, the first that can overlap another, multiplies the
  states many times; the safety properties are proved for any number. A slot is held
  for two units and a close takes less than one (`CloseTime`), so that a close of the
  attempt before can still be under way when a slot is found. A wipe job is
  followed through one launch in `MCRunner`, with a readable
  log and no game running before; the server and the feed of the other job stand still.
* `RelayOneJob.cfg`: two troubles (a broken link and a restart, either twice),
  so that what recovers from the first meets the second; queues of two, the
  smallest in which a hello and a status meet and a third message is dropped.
* `MCTakeover.cfg`: two jobs and one trouble, without the player's own cancel,
  which the run before covers.
* `Schedules.cfg`: two planned joins, so that one can take over from, be cancelled
  beside or compete for the free wipe join with the other; one join of the
  player's own; one free join a month, the smallest allowance that can run out;
  one restart. One scheduler, because the relay is one machine (`fly.toml`); the
  theorems cover any number.
* `MCBilling.cfg`: two website subscriptions and one of the store, so that one can
  replace another of its own kind or of the other; three changes, which is bought,
  ended and bought again, with webhooks one by one; two while two handlers work at
  once (`MaxCrowded`).
* `MCParts.cfg`: two PCs, codes and accounts, so that any two of them meet; three
  mates and a cap of two, so that one is marked at the cap; three rows and a channel
  of two, so that it fills; three sessions, so that a file is replaced by another
  and emptied, of up to three lines, longer and shorter than the one before; the
  code's own numbers for the wait. One poll of a row at a time is lost with its
  connection (`Lose`), which is enough for two to meet.
* `MCAccounts.cfg`: three requests, since a change, a sign-in and a second change
  or link are the most that a property relates, and a request about leaving with
  another one (`Leaving`), because alone it meets nobody; two people of whom one changes
  (`Busy`), four settings of what email a relay has switched on, each with the
  flows that share a list or a cap; a campaign of one email a day, so that the
  day's limit and the batch are met.
* `MaxWire` bounds messages in flight to the relay at one: more would only let
  the agent's queue drain earlier.

`CHECK_DEADLOCK FALSE` stands where the modelled part really stops: a finished
job of `Runner`, a relay whose jobs are used up, and the parts whose requests,
sessions or changes are. `Machine` has an explicit
stutter (`Finished`).

### Fairness

* `Machine`: `Tick` and `Elapse`, because `Runner.Run` owns a ticker and time
  passes; `PolledSpec` adds that a server that is up keeps being reported, at
  least as one that is old (the report that helps least), because the loop polls the feed every two seconds (`runner.go:88-105`).
* `Runner`: the reader of the log, the loop's cases for an exit and a launch
  answer (Go's `select` takes every case that stays ready), the grace timer, the
  two-second look of the watcher. Nothing obliges Steam, the game, the player,
  the server or the relay to do anything.
* `Schedules`: the scheduler goes on, because `RunScheduler` owns a ticker, and the
  database does not fail at every claim. The player, the jobs, the calendar and
  the handler that unlinks are never obliged.
* `RelayJobs`: every goroutine goes on, the agent redials, and both ends read
  and write while connected. `AgentReads` is strong: the relay may drop a
  connection whose queue of 64 is full, but not again and again before the agent
  has read a message. `ReportingSpec` adds that a job at work keeps reporting,
  which it does at each transition and note, and `machine` shows that its waits
  end; a job that waits for hours with nothing to tell is held to more than the code
  promises, and hears of its stop only when it next reports. Trouble, cancels, joins, schedules and the end of a job are never obliged.

* `Billing`, `Pairing`, `Referral`, `Timeline`, `LogTail`, `LaunchWait`, `Account`,
  `Mail`: none. Their properties are safety properties, those that sound like
  progress included: that the wait ends is a bound on its minutes, and that a page
  is whole or a copy true is said of moments when all is quiet.

### Modelling assumptions

* The exit grace is four polls of the log, so the log is read before the timer.
* A unit of time is longer than a goroutine's start, a log poll, a watcher's look
  and the grace together. A slot is held for thirty seconds before it counts as won,
  and a close goes on for fifteen (`CloseTime < InServerConfirm`, `Prompt`): one that
  was under way when the slot was found is over when the job is won. The two seconds
  between two looks of the watcher let a running loop read its channels (`Idle`), which
  takes for granted that the loop is not held up for as long as that; an exit that is
  pushed out by one that the loop has not read for two seconds is therefore not among
  what `ExitIsNoticed` speaks of.
* A connected writer keeps up with the agent (`Room`), and reports leave room
  for a hello and come after what has arrived was read (`JobReports`).
* The write of an abandoned handler is done before the next connection's
  messages are handled (`applying` is one slot).
* The sweep does not expire a job that is being dispatched (six hours against
  ten seconds). A player cancels a job once.

## 4. Proofs

`MachineProofs` proves, for every number of attempts, cap, minute, delay and
wait that is a positive natural number (`CountAssumption`, `TimeAssumption`):

| Theorem | States |
|---|---|
| `TypeCorrect` | `Spec => []TypeOK`, in it `attempt <= MaxAttempts` |
| `LaunchesAreCapped` | `Spec => []RateCap` |
| `WipeLaunchesAreExplained` | `Spec => []WipeLaunchExplained` |

None is inductive alone. `IInv` adds:

* `Budget`: a job that may still launch has an attempt left. `BeginLaunch` does
  not look at `MaxAttempts`; `RetryOrFail` did, one state earlier, and the wipe
  wait can be entered again from a backoff, so the fact has to be carried there.
* `Untouched`: nothing has happened to an idle job, so that `Start`, which
  launches without asking `RateLimited`, stays under the cap.
* `Armed`: a timer set in the wipe wait has its explanation, since the launch
  comes a jitter later, in a tick that asks only whether the server is up.

`Invariance` (`Spec => []IInv`) has one lemma per action. `AddLaunch` and
`AgeLaunches` are the facts about cardinalities: a launch adds at most one to the
set of recent launches and ageing adds none (the aged set is an image of the old
one, `FS_Surjection`).

`MachineRefinement` proves `KeepsSafePromise`: every job starts as `JobPromise`
starts, and each of its steps is a step of `JobPromise` or a stutter. There is one
lemma for each way the stage moves (`Launches`, `Wins`, `Retries`, ...) and one
for each input. Besides `IInv` it needs `OpenHasNoReason`: a reason is given only
by the transition that ends the job, so a job at work ends with a reason of its
own. `TypeOK` and this invariant are carried from `MachineProofs`.

`SchedulesProofs` proves, for any planned joins, own joins, number of schedulers
and number of restarts (`ScheduleAssumption`):

| Theorem | States |
|---|---|
| `ScheduleTypeCorrect` | `Spec => []ScheduleTypeOK` |
| `PlannedJoinFiresOnce` | `Spec => []FiresAtMostOnce` |
| `SettledStaysSettled` | `Spec => WordIsKept` |
| `FreeWipeJoinIsSpentOnce` | `Spec => []FreeWipeOnce`, if there is one scheduler |

The inductive invariant says who may create a job: a planned join is held by at
most one scheduler (`Exclusive`), is marked fired and not recorded while it is
held (`Held`), and has no job before the step that creates one (`NotYet`). What
is fired is never found again, so a restart that forgets the holder forgets the
join too: that is `nothing_is_dropped`, the price of firing at most once. The
assumption of `FreeWipeJoinIsSpentOnce` is needed: two schedulers can both read
that the free wipe join is unspent, and the second does not notice that its
UPDATE changed no row.

`RunnerProofs` proves, for any number of attempts, any of the log's lines and any
length of unread log (`RunnerAssumption` beside those of `Machine`):

| Theorem | States |
|---|---|
| `RunnerTypeCorrect` | `RunnerSpec => []RunnerTypeOK` |
| `WonGamesAreKept` | `RunnerSpec => []WonGameIsKept` |
| `CancelsAreObeyed` | `RunnerSpec => []CancelIsObeyed` |
| `QuitsAreRespected` | `RunnerSpec => QuitIsRespected` |
| `RunnerDrivesTheMachine` | `RunnerSpec => Spec` of `Machine` |
| `RunnerKeepsSafePromise`, `RunnerLaunchesAreCapped` | what was proved of `Machine` holds of the job at work |

`RunInv` adds to the invariant of `Machine`: `Fresh`, an order to close belongs to
an attempt that is over, so that it cannot be carried out in the next; `Kept`, once
a slot has been held for longer than a close takes no goroutine is left to close or to
launch, unless a cancel crossed the win, which is where `RunnerAssumption` and `Prompt`
are used; `Obeyed`, a cancelled job has a close to come, had one that was over too
early, or has nothing running and nothing coming;
and `Remembered`, between the player's goodbye
and the end of the job the loop has the goodbye in front of it or has read it, and no
other game can say anything. `Shape` sorts what an input may do to the machine into
beginning, losing, ending and going on, so that each case of the loop is one lemma.
The attempt to prove `QuitIsRespected` without `NothingComing` failed where two
launches overlap, and TLC confirmed the counterexample with four attempts.

`RelayJobsProofs` proves, for any number of jobs, lengths of queues and troubles
(`RelayAssumption`):

| Theorem | States |
|---|---|
| `RelayTypeCorrect` | `Spec => []RelayTypeOK` |
| `AgentsEndIsFinal` | `Spec => []AgentsWordIsFinal` |

`ApplyStatus` looks whether the job is open and then writes without asking again.
What saves it is that statuses of a PC have one reader: `StillOpen`, a status about
to be written is not of a job the agent has already ended.

`BillingProofs` proves, for any purchases, handlers and number of changes
(`BillingAssumption`: the store's purchase is none of Stripe's):

| Theorem | States |
|---|---|
| `BillingTypeCorrect` | `Spec => []BillingTypeOK` |
| `NobodyRidesFree` | `Spec => []NoFreeRide` |
| `WhoPaysIsLetIn` | `Spec => []PaidIsOpen` |
| `OneTrialEver` | `Spec => []TrialOnce` |

The three properties speak of a quiet moment; the invariant says what holds on the
way to it. `OneByOne`: what a handler has learnt is so, or the purchase will be heard
of again; and an open account is right, or its purchase is still to be heard of or
handled. `NothingOdd`: the one purchase there is is known to its handler and written
or yet to be. `PageSpent`: a checkout page that was paid for and heard of has taken
the trial.

`AccountsProofs` proves, for any requests, people, daily limit and batch
(`AccountAssumption`, `MailAssumption`; the first asks that no request bears the name
of a note in `odd`, which holds both):

| Theorem | States |
|---|---|
| `AccountsTypeCorrect` | `MCSpec => []AccountsTypeOK` |
| `ThrownOut` | `AcctSpec => []ChangeThrowsOut` |
| `OnceAndTheNewest` | `AcctSpec => []LinkWorksOnce` |
| `NobodyIsErasedWrongly` | `AcctSpec => []ErasedRightly` |
| `NobodyIsPestered` | `MailSpec => []MailIsSparing` |
| `StopIsHeard` | `MailSpec => []StopEndsIt` |
| `DoneMeansDone` | `MailSpec => []DoneReachedAll` |

For accounts (`AInv`): a session that is not fresh is about to be deleted
(`StaleEnds`); a link that was used is about to be marked by the one request that
used it (`UsedOnce`); between dropping the links and minting one there is none
(`OneGood`); who was told they stay is on no list to be erased (`KeptStays`), nor is
who pays on the website and did so before the look, if the look could be made
(`PaidStays`); both but for the administrator. For
email (`MInv`): the email in hand is claimed and not sent (`Once`), the person in hand
is within the day's cap and the people listed are not (`Capped`), and what is left of
a campaign's batch fits both limits (`Batched`, with cardinalities), also of one that
was cancelled after its round began: nothing of it had gone since the cancel when the
batch was read.

`PartsProofs` proves about each of the five small parts, with only the assumptions
of their modules:

| Theorem | States |
|---|---|
| `OnePCPerAccount`, `TokensOpen` | `PairSpec => []OnePC`, `PairSpec => []TokenOpens` |
| `NoMonthFromNothing`, `NoMonthIsWasted` | `RefSpec => []MonthsAreEarned`, `RefSpec => []MonthIsNotWasted` |
| `NothingInBetweenIsMissed`, `WatcherEndsToo` | `TimelineSpec => []PageIsWhole`, `TimelineSpec => []WatcherFallsSilent` |
| `ReadFromTheTop` | `LogTailSpec => []TailIsTrue` |
| `LaunchTypeCorrect`, `WaitsAreJust` | `LaunchSpec => []LaunchTypeOK`, `LaunchSpec => []WaitIsJust` |
| `PartsStayApart` | the composition `MCSpec` implies the five specifications |

* Pairing. For an account or a row that no two entries raced for, one entry is under
  way (`OneEntry`, `RowTrue`), and the token parked, stored, read by a poll and collected
  is the token of that entry (`TokenTrue`). Until two polls have read it together it is
  in one place: parked, in the hands of one poll, or collected once.
* Referral. `given <= spent` is not inductive: a handler that has taken a month off
  the bank has still to tell Stripe. The months told of and the handlers on their way
  to tell (`Cardinality` of those at `apply`) make at most the months spent; each step
  moves at most one handler into or out of that set. `Alone`: unless two met, one
  handler is handing out, and it saw no discount because there is none.
* Timeline. `NoneLeft`: a row that was not passed over has been seen, waits in the
  channel or is in a goroutine's hands; `ShownOnce` counts what the page did with it.
  Once all is quiet only the first is left.
* Log. Until the session begins again in the middle of a look (`broken`), what was
  read is the sessions in order, the last as far as the position (`Tailing`).
* The wait. The lower half of `WaitIsJust` needs `GraceIsKept`: what is left of the
  deadline and the minutes since progress make at least a grace, and a verdict is
  reached only at the deadline. The upper half is a potential: while nothing moves,
  the quiet minutes are at most the stall clock, the grace used up and one for every
  nudge that was spent (`NoPatience`, `Patience`, `PatienceEnds`). That holds wherever
  an earlier launch has left the clock, because a clock that is ahead only makes the
  wait shorter. `LaunchWaitAssumption`: a nudge comes before a stall is reported.

With these every invariant that a passing run checks, and both action properties
(`WordIsKept`, `QuitIsRespected`), are theorems. Model-checked only, because liveness
under fairness is out of the prover's reach: the fairness half of `KeepsPromise`,
`WipeWaitEnds`, `ExitIsNoticed`, `ResultArrives`,
`StopReachesTheAgent`, `JobIsPickedUp` and `DueIsTaken`.

## 5. Findings

| Run | The text | What the code does |
|---|---|---|
| waits_for_the_wipe | `docs/troubleshooting.md:165-167` | the feed's initial offline value is polled as a report, so the first report of the old server looks like a restart and the PC joins it |
| nothing_is_dropped | `docs/relay-api.md:206-208` | a planned join is marked fired before it is dealt with; a restart or a failed claim leaves it fired with no job and no note |
| cancel_stops_the_job | `docs/relay-api.md:171` | a cancel can overtake its assignment or fall into a dead connection; the job goes on and the row stays active |
| given_is_kept | `internal/relay/feedback.go:245-249` | an account given access by hand has no subscription id, and the guard against old subscriptions lets an empty id through: an event about one that ended closes it |

Each violation run checks that one property and TLC's trace is the story.

Stated as a property, refuted by TLC on the module's specification, and without a
run among those listed:

* `WonGameIsNeverClosed` (`Runner`; `internal/agentapp/app.go:236-241`): a cancel
  that reads the current job between the win and the app's letting go of it closes
  the game (`internal/runner/runner.go:194`), whatever the machine says;
* `CancelledLeavesNoGame` (`Runner`; `internal/agentapp/app.go:98`,
  `docs/relay-api.md:171`): a close that finds no game returns although Steam
  still owes one, and nothing takes that back; `CancelIsObeyed` is what is left;
* `CollectedOnce` (`Pairing`; `internal/store/devices.go:126-127, 135-136`): a poll
  reads the token and deletes it in two statements, and one whose connection broke
  meets the next;
* `MoneyFirst` (`Account`; `internal/relay/account.go:92-95`): a subscription that
  cannot be read lets the request to leave pass (`err == nil &&`), and an administrator
  erases whatever is paid (`internal/relay/feedback.go:160-198`);
* `StopIsAsked` (`Mail`; `internal/store/marketing.go:21-24`,
  `internal/relay/winback.go:24-27`): opt-outs are asked for when a list is read, and
  the list is then worked through for minutes;
* `NothingMoreGoes` (`Mail`; `internal/store/marketing.go:331-332`): a campaign that
  is cancelled after the round listed it still reads a batch and sends it;
* `FinishedStaysFinished` (`RelayJobs`; `internal/store/jobs.go:145-147`): the
  check and the UPDATE of `ApplyStatus` are two statements;
* `PlannedJoinWins` (`RelayJobs`; `internal/relay/scheduler.go:95-98`): a late
  assignment of the job that was stood down displaces the planned one, and is then
  cancelled;
* `OnlyOwnJoinsCount` (`Schedules`; `internal/relay/freeplan.go:34`): the month's
  count includes the joins the scheduler started;
* `DuplicatesAreFiltered` (`Timeline`; `internal/relay/server.go:720-721`): a note
  is published without its number, and can be shown from the rows as well.

Seen in the code and in the models, without a property of their own:

* **Overlapping launches.** A launch begins with a close, which may take
  fifteen seconds, and twenty more until a game that had to be forced is gone, and the next attempt may come
  five seconds later (`runner.go:196-217`). Both then hand Steam a link: a player who
  closes the game of one meets the game of the other, and the job may launch again.
  The close flag, which the later launch resets, then no longer covers a game that
  the earlier one's close ends.
* **A late line.** A line that the game being closed wrote after the next attempt
  began is taken for one of that attempt's, which can then count as connected before
  its own game is there.
* **Subscriptions.** Two webhooks handled at once can write the older answer last
  (`billing.go:301`). A checkout heard of after its subscription ended names it
  again, and closes a newer one (`billing.go:229-294`). A purchase in the app before
  the end on the website was handled leaves a payer closed. Two checkout pages give
  two trials. `handleAdminClearSubscription` asks Stripe about a store's id, is told
  there is none, and clears a live one. `SetSubscription` is two UPDATEs: if the
  second fails, `first_paid_at` stays 0, a retry does not set it (it is no longer
  fresh), and the renewal reminder never goes (`store/billing.go:100`). A failure at
  `NoteEnding` skips the referral award in the same way (`billing.go:341-347`).
* **Referrals.** Two renewals can both see no discount and spend two months
  (`referral.go:144`). `AccountsWithReferralCredits`, written for a sweep, has no
  caller.
* **Linking.** The answer of the poll that carries the token may be lost, and the
  agent then fails (`relayclient/pair.go:66`); so it does if it polls between the
  claim and the parking. The loser of two claims of a code replaces the parked token
  (`store/devices.go:114-120`); two codes typed at once link two PCs.
* **Timeline.** Of two overlapping publishers both publish the last row. Notes
  after the first that came without a number are dropped by the page.
* **Log.** A session that begins in the same file in the middle of a look, or
  before the first, is read from where the last one stopped.
* **The wait.** The stall clock outlives a launch, so that the next one can be
  nudged, and blamed on Steam, at once.
* **Accounts.** The DELETE of sessions may fail after the password was replaced;
  a sign-in under way through a change keeps its session; a link used twice at once
  works twice; two requests for a link at once leave two. A purchase in the week of grace does not stop the
  erasure. Of two first visits of an address the second is answered 400.
* **Email.** The win-back emails are
  outside the daily cap. The reminder to link a PC goes to accounts on their way out.
* the throttle's question and its record are apart (`throttle.go:50`), and a burst
  passes its limit; refusals hours apart add up to an unlinking (`relayclient/client.go:164`);
  the server cache evicts the oldest entry even to replace one that it has;
* an update looks whether a join runs, and then swaps the program, so that a join
  may begin in between;

* a launch that never produced a process ends as `lost_track`, a game that was
  lost, although `internal/game/steamwait.go:73-74` wants its own explanation
  given (`GameExited` in `Machine`);
* `internal/relay/freeplan.go:128` relies on one pending schedule per PC;
  `handleCreateSchedule` does not look for another;
* `internal/relay/server.go:535-538` and `internal/store/schedules.go:242-248`
  say that a planned join is lost if the PC is busy; `fireSchedule` takes over;
* `RevokeDevice` that stops between its statements cannot be repeated: the second
  request finds the PC revoked already, and its job stays until it expires.

## 6. Plan

Done: the models of the join (`JobPromise`, `Machine`, `Runner`, `RelayJobs`,
`Schedules`) and of the parts around it (`Billing`, `Referral`, `Pairing`,
`LaunchWait`, `LogTail`, `Timeline`, `Account`, `Mail`), and a proof of every
invariant that the runs check.

To come, most important first:

1. The safety half of the liveness properties of `RelayJobs`: an invariant that a
   job the relay wants and the agent lacks has its assignment on the way, or a
   hello to make up for it (`JobIsPickedUp`), and that a result not yet in the row
   is in a queue, in `finished`, or about to be sent again (`ResultArrives`).
2. The same for `DueIsTaken`: a planned join that is due is found by every look.
3. An abstract specification of the jobs of a PC, with `RelayJobs` proved to
   implement it: one active row, ends that stay, and the agent's word before any
   other.
4. `Billing` at a quiet moment after webhooks that overlapped: what is still true.

## 7. Not modelled

* Texts, marketing pages, the drafting of campaigns, leads, feedback, the support
  assistant: a row or a text, with nothing that depends on it.
* Verifying an identity token, password hashes, signatures of webhooks: abstracted
  to their verdicts. Stripe's, RevenueCat's and A2S's wire formats, and the log
  parser's expressions, appear only through what they say.
* The throttle, the server search with its cache, and the providers behind it: a
  window and two bounded maps behind a mutex each, and I/O.
* Minting and resolving referral codes, the billing portal, refunds, prices.
* The Windows tray, installation, update download and swap, power settings, Steam's
  files and the registry: I/O.
* The web pages but the live page of a job, and the simulators used by the tests.
