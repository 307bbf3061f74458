# Verification of the VPN portal

TLA+ modules of the portal, its entry nodes, its monitor and its Android app, TLC configurations
that check them on small instances, and TLAPS proofs of the properties that
matter most. `PROJECT.json` maps every definition to the lines it models and
lists the runs, the hazards and the theorems.

Run a model with `tlc -config MCLedger.cfg MCLedger`, check proofs with
`tlapm LedgerProofs.tla`.

## 1. The system

A customer pays for a plan on a web portal (`src/pwa`, FastAPI over PostgreSQL).
The payment gateways notify the portal, the portal adds a peer to an entry node
over ssh and writes a row for it; an hourly job takes the peers of ended periods
away again. A separate host watches the servers and reports.

| Part | State it keeps | Operations | Talks to |
|---|---|---|---|
| Payments and activation (`api/payment.py`, `api/admin_grant.py`, `services/provisioner.py`) | `payments`, `users`, `configs` | open an order, two callbacks, the admin's grant, `activate_payment` | gateways (notifications, status requests), node, mail |
| Expiry (`expire_subscriptions.py`, `services/subscriptions.py`) | the same rows, one session per sweep | `apply_due_rewards`, `expire_due_subscriptions`, `expire_due_trials`, `remind_due` | node |
| Ledger (`services/credit.py`) | `promo_codes`, `credit_entries`, `referral_rewards` | price an order, spend points, reward a friend, vest, apply | called by both above |
| Entry node (`infrastructure/wrappers`) | config file, running interface | `pwa-add-peer`, `pwa-del-peer`, `pwa-awg-show` | called over ssh, with a timeout |
| Devices and locations (`api/config.py`, `services/locations.py`) | `configs`, `LOCATIONS_PAUSED` | add, delete, rename, download | node |
| Trial (`api/trial.py`, `services/trial.py`) | `trial_grants`, `users.trial_until` | start | node |
| Identity (`api/auth.py`, `register.py`, `email_verify.py`, `password_reset.py`, `google_auth.py`, `telegram.py`, `services/app_sessions.py`, `ratelimit.py`) | `users`, one-time tokens, app sessions, rate windows | register, sign in, confirm, reset, link | mail, Telegram, Google |
| Notifications (`services/notify.py`, `mailer.py`, `telegram.py`, `api/notifications.py`, `api/support.py`, `api/telegram.py`) | `notifications`, `telegram_support`, tasks of the process | notify, remind, send later, drain, forward to support, reply | mail, Telegram |
| Monitor (`infrastructure/monitoring/sov_monitor.py`, `api/monitor.py`) | `state.json`, `monitor_events` | probe, tell, save, report | hosts, Telegram chat, portal |
| Dead man's switch and state page (`services/monitor_watch.py`, `monitor_view.py`) | one event row | write when the monitor falls silent and when it returns; colour the last report | mail, the admin's page |
| Android app (`src/android`) | stored tokens and configuration, the tunnel | sign in and out, renew, list, add, delete and select devices, connect | portal, tunnel |
| Admin views, bot, tools, backups, Ansible | none, or files | read, report, configure | everything |

What is hard here:

* **Awaits without locks.** A web request reads rows, waits for a gateway or for
  a node, and writes. SQLAlchemy writes the columns that differ from what was
  *loaded*, as absolute values, and `db/base.py` keeps objects usable after a
  commit. Everything read before a wait may be stale when it is used.
* **A second process.** The hourly sweep holds one session over many node calls
  and commits once.
* **Two copies of a peer, and a row.** File, interface and database are changed
  one after the other, over ssh, with a timeout that leaves the outcome open.
* **Gateways** repeat, reorder and delay notifications, and a chargeback comes
  after everything was settled.
* **Limits checked at one time and used at another:** points, caps of codes,
  plan limits, the daily ceiling of trials.
* **Messages and the note that they were sent** are two steps everywhere: of the
  monitor, of its watch, of the hourly job, of the support bot. A process can be
  cut off between them.
* **The app** runs its operations as coroutines that overlap, that a page left
  behind cancels at the next piece, and that share one store.

The full list, each at its line and with the properties aimed at it, is
`hazards` in `PROJECT.json`.

## 2. Modules

| Module | Models | Checked by | Proofs |
|---|---|---|---|
| `Activation` | callbacks, grant, `activate_payment`, the three parts of the sweep | `MCActivation` (3 configurations) | `ActivationProofs` |
| `Ledger` | prices, codes, points, rewards | `MCLedger` | `LedgerProofs` |
| `Node` | the two wrappers on one entry, and how the portal drives them | `MCNode` | `NodeProofs` |
| `Devices` | adding and deleting devices beside orders and pauses, and the files handed out for them | `MCDevices` | `DevicesProofs` |
| `Trial` | `start_trial` beside purchases and changes of the account | `MCTrial` | `TrialProofs` |
| `Identity`, over `RateLimit` | registration, sign-ins, one-time links, Google, Telegram, app sessions | `MCIdentity` | `IdentityProofs` |
| `SignIns` | what `Identity` promises of a sign-in: the abstract specification | refined in `MCIdentity` | `IdentityProofs` |
| `App` | the Android app's store, operations and tunnel | `MCApp` | `AppProofs` |
| `Notices` | the hourly job as the source of notices, letters and messages | `MCNotices` | `MessagesProofs` |
| `Monitor` | one run of the monitor after another, and the portal's record | `MCMonitor` | `MessagesProofs` |
| `Watch` | the watch over the monitor and the state page | with `Operator` | `MessagesProofs` |
| `Operator` | `Watch` composed with support through the bot: how the portal reaches its operator | `MCOperator` | `MessagesProofs` |

Names with an underscore (`HasRoom_OneMore`), and definitions marked "Mutated
form", are faulty variants of the definition that follows; each property is
shown to fail when one of them is put in place of the real one.

Each module carries *history variables* (`met`, `dropped`, `together`, `late`,
`lost`, `torn`...) that no guard of the code reads. Where the code has a known
gap, the property is stated with the gap named by history: "at most once, unless
two requests had the payment in hand at the same time". This says more than the
plain property, which fails, and more than nothing: it says that there is no
*other* way.

### Activation

State: the columns of `users`, `payments`, `configs`, `referral_rewards` that
conditions depend on; the peers of the node; the gateway's own view of an order
(`gw`) and the notifications it has not had acknowledged (`owed`). A web request
is a record with its program counter and the columns it loaded; the sweep is a
record with the users due, the one in hand, the devices still to remove and the
unwritten changes of its session.

A step ends at each wait for a gateway or a node. A run of database accesses
between two of them is one step: they interleave in reality, but the writes that
matter are made by one commit, and the tail of `activate_payment` (points,
rewards, the commit) is kept from running twice at once on a payment by the
lock that the autoflush of its row takes. Faults (`Faults`): a status request
fails, the node refuses to add or to remove, an ssh call times out with either
outcome (`subprocess.TimeoutExpired` is not caught and ends the request or the
sweep), a process dies.

Payments are delivered until `MaxActs` activations; the clock stops at `MaxNow`.

### Ledger

Prices in integers, as in the code. An order is priced when it is opened,
consumed when it is paid, and may be reopened by a late status. `together` is the
set of pairs of orders that were open at the same time; a checkout reads and commits in
one step (`OpenOrder`), so two checkouts whose reads overlap count as one after the
other. An activation is three steps: it looks for an earlier spend, looks for an earlier
reward, and commits what was missing. Nothing in the schema forbids a second spend of
a payment. The queries flush the rows of the buyer and of the payment first, and their locks
(`RowsFree`, `PaymentFree`) are held until the commit: a second activation waits before
its lookups, a late status before its write. A code exists once the admin
has created it (`CreatePromo`) or a subscribed customer has asked for his own
(`IssueCode`); `Members` are the customers subscribed from before. Points are given by
`Points`, vest and expire; `spent` is what the orders took. A spend does not expire while the points it consumed
do, so a balance turns negative when they do; `OverdraftHasACause` is stated for
the time before. Vesting and application of rewards are in `Activation`.

### Node

The config file is a set of blocks, a block a pair of key and address; the
interface is a set of peers and, for each address, the peer it is routed to
(setting an address takes it from the peer that had it). The wrappers run step
by step: check, backup, append, set, restore; check, rewrite, write, set. The
checks at the start of a wrapper are one step. `issue_config` picks addresses
from a list that may be stale or empty and tries again when the wrapper reports
the address taken. A reboot kills the wrappers and rebuilds the interface from
the file. A peer whose address was taken is listed with `(none)`; `pwa-del-peer`
refuses it as outside the client subnets. Peers of the backbone, which the
wrapper also refuses, are not among the keys.

### Devices

A request reads, waits for the node, commits. `late` are the orders during which
the buyer added a device, `unfit` the users whose plan came from such an order or
from a grant, and is too small for what they hold. The sweep is a process of its own: it takes the users due, removes their
devices one by one, goes on over a refusal, and writes rows and flags with one commit
at its end; a timeout, which is not caught, or a death loses all of that (`lost`). A
request keeps the flag as it loaded it, so a payment does not raise it again when the
sweep cleared it meanwhile.
A file is fetched by the page or by a link for Telegram that is good for two minutes:
`link` holds the links alive, `FileOf` the key and entry a file names, `Connects`
whether that entry has the peer. `assign_peer` and `users.peer_ip` are left out.

### Trial

`start_trial` flushes its grant before it calls the node: the row is invisible to
others and its unique keys and the `users` row are locked until the commit or
the rollback. `TrialFlush` is enabled only when no clashing grant is flushed,
which is the wait at the unique index; actions that write the `users` row wait
for `Locked`. An address has a name, dots, a `+tag` and a domain; `NormaliseEmail`
drops the tag, drops the dots where the domain ignores them and replaces an alias
domain, as `normalise_email` does, and `SameInbox` says, without it, which addresses
reach one inbox. `Disposable` domains are refused.

### Monitor

`file` is `state.json`, `run` the run under way, `chat` the last word the chat
has on each problem. Messages are taken, refused, or taken with the answer lost;
a run may die between any two effects. There is no clock: a reminder may become
due whenever no run is under way. Checks of sites and certificates are problems
of a host that always answers.

### Identity, SignIns, RateLimit

A row of `users` with its unique columns and three one-time links, the rows of
`app_sessions`, and the requests in flight. A request keeps the row as it was
loaded and the row it wants; its commit writes the columns in which the two
differ over whatever the table holds by then, and fails as a whole when a unique
column would clash, as SQLAlchemy and PostgreSQL do. Passwords are version
numbers, links serial numbers, access tokens the time until which a token of a
given version is accepted. `RateLimit` is the sliding window of `ratelimit.py`;
of the limiters only the one on failed sign-ins is asked and told in two steps,
and only that one is kept; its key is the address and the username together, as in
`auth.py`, and a username alone has no limit. `close_all` of a reset and the commit
after it are one step (`ResetSave`). A refresh token in use is never drawn again, nor one that a
sign-in is about to drop: tokens are random, and the proof of `TokenInv` does not go
through otherwise. `is_active` is written nowhere and left out, and so is
the administrator's sign-in, which has no row.

`SignIns` is the promise with tables, clocks and limits hidden: a sign-in is begun,
opened or given up, ends by itself, and a reset ends every open one and marks those
being opened. `Identity` implements it (`KeepsPromise`): a begun sign-in is a request
that has verified and not yet committed, an open one a row of `app_sessions`. The
row carries the password version it was verified under and whether a reset overtook
it; no guard reads either.

### App

The store (`token`, `refresh`, `conf`, `id`), the tunnel, what the screen shows, the
portal's answer to each call, and a record for each coroutine: its operation, the
piece it is in, the tokens and the list it read. Leaving a page ends a coroutine
before its next piece, never inside one; the process may be killed anywhere and
keeps what was written. Every write to the store is a step: a sign-in writes its access
token, then its refresh token (`signIn`, `SignedIn`), and `half` says that it is between
the two or was killed there. Switching the tunnel off may fail. The reconnect of a tunnel that is up is left out. A sign-in is a number that stands for its account and its
tokens. Names of devices, messages, the release check and layout are left out.
`crossed` remembers that an operation began or changed what others rely on while they
were under way. A deletion counts from its beginning: it reads from the screen whether
the device is this phone's own, and the load that ends an addition may be about to
change the answer.

### Notices

The same sweep as in `Activation`, seen by the customer who is told of it: four
passes (ended subscriptions, ended trials, reminders of both), a commit after
the first, the second and the last two together, and tasks that send letters and
messages whenever the job waits. A row another run has written and not committed
blocks the unique `(user, dedupe_key)`. A run that dies takes its transaction and
its tasks along. A removal at the node works or does not; the reward pass is a
longer period, as `Pay` makes it. A payment loads the row (`LoadUser`), waits, and
writes the columns that differ from what it loaded (`Pay`): the end always, the flag
only if it was down. `overtaken` are the customers whose last payment met a run.

### Watch and Operator

A check of the watch is a look, a letter and a commit, with a report possibly in
between; the letter is taken, refused, or taken with the answer lost. The page is a
function of the last report and its age: cards of the site, of hosts and of links,
each with its problems and a colour. Levels "warn" and "bad" of a problem are one
here; the site always has a page or certificate to check. `Operator` runs `Watch`
beside the bot's support. `handle` sorts what a customer sends by `kind`: words go to
the operator, a file that carries a key is answered with a warning and everything else
with a screen. An update is queued until its webhook call is answered, the hour's count
is kept in memory, the forwarded copy and the row are two steps. `TG_ADMIN_CHAT_ID` is
taken to be set; without it the bot refuses every message to support.

## 3. Runs

| Run | Shows | Distinct states, time |
|---|---|---|
| `activation` | no unpaid time; no double activation unless two requests met; rows and node agree; no days out of nothing | 0.6 million, 90 s |
| `activation_live` | confirmed money becomes paid time, ended periods are revoked, ended trials leave the node | 41 thousand, 45 s |
| `ledger` | half of an order is cash; a paid order consumed its points and brought its reward once, whatever activations overlap; every limit passed was passed by orders open together | 2.9 million, 100 s |
| `node` | "ok: added" and "ok: removed" stay true unless two wrappers overlapped | 0.8 million, 25 s |
| `devices` | the plan's limit is passed in three ways only; rows and entries agree; the files handed out work; a paused location takes nothing | 3.5 million, 160 s |
| `trial` | one trial for each account, inbox (however it is spelled) and Telegram account; none spent without a device; the ceiling holds unless two starts raced | 2.5 million, 80 s |
| `monitor` | no false all-clear; chat, file and portal agree; what stands or ends is told | 54 thousand, 25 s |
| `identity` | sign-ins implement `SignIns`; a reset cuts off what was signed in before it; links work once; Google and Telegram tied to the right account; failed sign-ins from one address within the limit | 0.6 million, 115 s |
| `app` | whose tokens the phone stores, what the tunnel runs on, when a chosen device is forgotten | 2.1 million, 120 s |
| `notices` | one message for one notice, none forgotten; no period cleared in silence unless a payment met the run | 5.0 million, 90 s |
| `operator` | alarm and all-clear alternate and come in the end; the page hides nothing; "received" means answerable | 0.4 million, 50 s |

`sweep_vs_renewal` shows a disagreement between the code and what it says of
itself, and is the finding in `PROJECT.json`: the sweep decides who is due, waits for
the node, and clears the flag of a customer who renewed meanwhile, although it
says that it revokes periods that have ended.

The models show others; each is the exception that a property names, and the
property says that there is no other way:

* "idempotent" callbacks (`payment.py:288`) activate a payment twice when two
  notifications overlap in the node call (`OnceIfNeverMet`);
* the early return for paid rows hides every chargeback, which comes after
  "paid" (`payment.py:321`);
* one timed-out node call ends the sweep before its only commit, although
  `subscriptions.py:125` says "Never raises on a single failure"; the removals it
  had confirmed can never be confirmed again (`dropped` in `NodeAndRowsAgree`);
* of two renewals activated together the later write erases the earlier one's
  days (`provisioner.py:437`; `TimeIsAccountedFor` bounds the days from above only);
* a process killed between the writes of `Session.select` leaves the old device's id
  with the new device's config, although the comment at `Session.kt:124` says that an
  interruption leaves "the previous selection readable, or none" (`crossed` in
  `TunnelOnSelected`);
* a renewal of the app's access token that overlaps a sign-out writes the old
  account's token into the wiped store (`torn` in `TokensAreCurrent`);
* a process killed between the two writes of `Session.signIn`, over the refresh token
  that a second 401 left stored, keeps the new access token beside the old refresh
  token (`half` in `TokensAreCurrent`);
* a payment that loaded the flag before the sweep cleared it, or that commits while the
  sweep has the customer on its list, leaves them without the flag on the period they
  just paid for, and nobody is told (`overtaken` in `ClearedIsTold`);
* a sign-in verified before a password reset and committed after it survives the
  reset (`late` in `SignIns`);
* a letter of the watch taken by a check that does not commit is repeated, and if it
  was an alarm whose monitor returned before the next check, its all-clear is never
  sent (`halved` in `LettersAlternate` and `SilenceIsTold`);
* a message sent before its notice's transaction is lost goes out again an hour later
  (`undone` in `ToldOnce`).

The properties that hold also tell of things to know. In `Devices`: a device
whose removal timed out after the node had removed it, and every device a sweep had
removed when it was cut off, keeps its slot and its active row for ever; and for the
length of a sweep the devices it has removed are active rows without a tunnel. A
renewal in either case is handed a file that does not connect (`RowsMatchEntries` and
`FilesWork` except these, and a deletion about to be written: `lost`, `Closing`). In `Monitor`: an alarm is preceded by
`confirm_runs` sightings in a row, as the header says, only if every host
answered and every state was saved (`ToldInARow`); and when an all-clear reached
the chat in a run that did not save, and the problem returned before the next
run, only the reminder tells of it (`StandingIsTold`). In `Node`: a peer that
lost its address cannot be removed by the wrapper (`PeersHaveAddresses`, a part of
`FileAndInterfaceAgree`).

### Bounds

Two requests are enough for every race named in the hazards: each is between two
actors, and the sweep is a third process of its own. Two users: one who buys, one
who referred. Two payments: a first purchase and a renewal. `Ledger` has four
orders, since a cap of one use and a first purchase need two orders of one
customer, one of another and a grant. `Node` has three keys over two addresses, so
that an address is contended and a third peer can be harmed. `Devices` has limits
of one and two instead of five and more, three keys to pass them, links for one
device, an order of the small plan and a grant of the large one: the order makes the late
case, a grant of too small a plan is left to the theorem. `Trial` has three accounts for one place a day, two of them with spellings of
one inbox. `Monitor` has one host and `Confirm = 2`; hosts
interact only through the common message, which `extra` stands for. `Identity` has two accounts that
contend for one address, one chat and one Google account, two passwords after the
first, two links, two addresses to sign in from and five requests: enough for a reset between the two halves of a
sign-in and for a link issued, replaced and used. `App` has two sign-ins, two devices
and three operations, two of them at once beside the switch and the sign-out.
`Notices` has one customer, since customers share only the commit, one payment at a time
and two runs; periods of one tick, windows of one and two, and one death. The third day is
needed for a payment of a period that has ended to meet the run that clears it. `Operator` has one linked host, one
problem at a time, and two messages against a limit of one. Clocks stop
after two or three days, the span in which periods and trials end in these
instances. The requests are interchangeable, and so are the keys of a location;
the runs without temporal properties use that symmetry.

### Fairness

`activation_live`: the event loop runs a request that can go on, cron starts the
sweep every hour, a gateway repeats a notification that was not answered 2xx, and a
status request or a removal that is tried again and again works in the end (strong
fairness). Refusal of the *first device* is excluded there: the code answers 2xx
and leaves such a payment to a human, so nothing would repeat it.

`monitor`: the systemd timer starts run after run and a run goes on by itself
(weak fairness of `RunStep`); a probe of all hosts that are up, a message and a
save that are tried again and again work in the end, and time passes, so a
reminder falls due (strong fairness). A message Telegram refuses every time would
break the assumption: the state would never be saved. This is listed as a hazard.

`operator`: cron starts the check every five minutes and a check goes on by itself
(weak fairness of `CheckStep`); a letter and a commit that are tried again and again
get through (strong fairness). Nothing is assumed of the monitor, of customers or of
the portal's restarts.

## 4. Proofs

Eight modules hold the theorems; each one that states a property of a run is listed
with it under `theorems`. They hold for every value of the constants that satisfies
the assumptions named in the modules (`ConstantsAssumption`, `LedgerAssumption`,
`NodeAssumption`, `AppAssumption`, `DevicesAssumption`, `TrialAssumption`, `EmailAssumption`, `NoticesAssumption`,
`MonitorAssumption`, `WatchAssumption`, `OperatorAssumption`, `IdentityAssumption`,
`RateLimitAssumption`): types of the parameters, that `None` is none of the others,
that nobody refers himself, that no page of the app has the name of its switch. TLC evaluates them in every run. Two say more.
`LedgerAssumption` asks for a price of two rubles or more: the proof of
`OrderIsHalfCash` fails at one ruble, of which 60 % off leaves nothing to pay. The
plans cost hundreds. `NoticesAssumption` orders the reminders' windows and asks that
periods and trials are not empty.

Every safety property is proved the same way: an inductive invariant, the type
invariant and the parts named below, holds initially and is kept by every action;
TLC checked each invariant on a small instance before it was proved.

### Activation

`ActivationProofs`, for any number of users, payments, requests and devices:

* `TypeCorrect`: `TypeOK /\ RequestInv`. The type invariant is not inductive
  alone: a step of a request uses the payment it has in hand, so `RequestInv` says
  that it has one and that the row exists.
* `NothingUnpaid`: `ActivatedOnlyIfConfirmed`, through `ConfirmedInv`, which
  follows the confirmation from the gateway to an unacknowledged notification, to
  the request that read it.
* `OnceUnlessMet`: `OnceIfNeverMet`, through `OnceInv`: a payment nobody met on is
  in the hands of one request at most, and once activated stays "paid".
* `NodeAndRows`: `NodeAndRowsAgree`, which is `RevokedIsOff`, `PeersHeldOnce` and
  `NodeMatchesRows` together, through `RemovalInv`: a device that is being removed
  belongs to a row, so it is never issued again, and one confirmed gone is off the
  node.

### Ledger

`LedgerProofs`, for any orders, codes, prices and caps:

* `OrderConsumedOnce`: `ConsumedOnce`, through `LockInv`: two activations past their
  flush are of different buyers, and what the lookups of one found missing is missing
  until it commits (`MissingKept`). Without the locks the property fails. `RewardInv`
  adds that a paid order that earns a reward has brought it.
* `FriendOnceUnlessTogether`: `FriendsCodeOnce`. The property speaks of paid orders
  only; `FriendInv` says the same of those that can still be paid: any two orders of
  a customer with a friend's code, paid or payable, were open together.
* `CapHoldsUnlessTogether`: `CapExceededOnlyTogether`. `CapInv` says that any set of
  orders with the code, paid or not, none of them open beside another, is within
  the cap; the proof compares cardinalities.
* `LimitsHoldUnlessTogether`: the two together, the property `LimitsPassedOnlyTogether`.
* `OrderIsHalfCash`: `HalfInCash`, through `PriceInv`, which follows the rounding of
  the discount and of the share of points from the checkout to the order's row.
* `OverdraftNeedsTwoOpenOrders`: `OverdraftHasACause`, through `OpenInv` (orders open at
  the same time are in `together`) and `FitInv`: an order that has not consumed its
  points fits in what its buyer has left, or was open beside one that consumed some.

### Node

`NodeProofs`, for any keys, addresses, requests and reboots. The whole argument is about
one key whose wrappers never overlapped with another's (`~Met(k)`): `Untroubled(k)` says
of it what the two properties say, and why no other wrapper can undo it.

* `NodeIsSafe`: `TypeOK /\ Safe`, the inductive invariant. A wrapper that ran alone on
  its key still writes a *whole file* back, and so does one for another key:
  `CopiesAgree` says that every copy a running wrapper holds has the file's blocks of
  `k`, `AddersClear` that no `pwa-add-peer` past its check has an address of `k`,
  `AtWork` where file and interface are at each step of the wrapper on `k` itself.
  `OverlapSeen` (wrappers that run together are in `met`) makes these claims survive
  the start of another wrapper, and `KeysInv` that a key is issued once.
* `AnswersHold`: `AnswersStayTrue`, from `Works` and `Settled`.
* `FileAndInterfaceHold`: `FileAndInterfaceAgree`, from `Settled`: a peer is in both, in
  neither, in the hands of a wrapper, or in `half`.

### Devices

`DevicesProofs`, for any accounts, plans, limits, devices, locations and requests:

* `TypeCorrect`: `TypeOK`.
* `EntriesMatch` and `HandedOutFilesWork`: `RowsMatchEntries` and `FilesWork`, through
  `FlightInv` (a key just issued is on its entry, has no row yet and is in one request
  only; a device being deleted has a row and, after the node's answer, no peer),
  `SweepInv` (what the sweep has removed and what it has still to remove have rows, and
  the first no peer) and `EntryInv` (an active row has its
  peer, is about to be closed by a deletion or the sweep, or was cut off).
* `PausedLocationsTakeNone`: the action property `PausedTakesNone`, through `PauseInv`:
  the location a request chose was open when it chose, and a pause needs a restart,
  which ends the request.
* `PlanLimitHolds`: `WithinPlan`, through `PlanInv`: an account whose requests never
  overlapped has room for the device on its way and for those its open order keeps
  (`Room`). The proof compares cardinalities.

### Trial

`TrialProofs`, for any accounts, addresses, Telegram accounts and requests, with
`IInv`, the conjunction of `TypeOK` and six parts:

* `OneTrial`: `OneTrialEach`, through `KeysInv`: the unique keys of a grant are
  shared by no other grant, committed *or flushed*. The property mentions committed
  grants only and is not inductive without the flushed ones. `InboxInv` ties the key
  of a grant to the address it was given for, and a lemma about `NormaliseEmail` says
  that two spellings of one inbox give one key.
* `SpentForADevice`: `SpentIffIssued`, through `SpentInv`: an account was given as
  many devices as it has grants, and has an end date with the first. That a second
  commit cannot break this follows from `KeysInv`; `RequestInv` says that a flushed
  request carries an end date and that a date once loaded stays set.
* `OneTrialForOneDevice`: the two together, the property `OneTrialOneDevice`.
* `NoTrialAfterPaying`: `NoTrialBesidePaid`, through `AloneInv`: an account none
  of whose requests met has one at a time, it asks for no trial once it has paid,
  and the end date a purchase loaded is still the one in the row.
* `CeilingUnlessRaced`: `CapUnlessRaced`, through `CapInv`, which counts the grants of
  the window together with the one request past its check.

### Identity

`IdentityProofs`, for any accounts, addresses, chats, Google accounts, tokens, requests
and resets. Nearly every handler does the same to the tables, nothing: the lemma
`Steps` reduces the 23 actions to a request that begins, moves on or is dropped
(`Moves`), a commit (`Commits`), a refresh and three steps without a request. The lemmas
`CommitRows` and `LeftAlone` say what a commit makes of the table and of the other
requests; each part of `IInv` is then proved over these steps:

* `IdentityTypes`: `TypeOK`.
* `GoogleIsTiedToItsMailbox`: `GoogleTiedToItsMailbox`, through `RowInv`: the row in
  the table has the address that a request in flight loaded, and is still confirmed if
  it was; so a commit that ties Google writes it to the row that was looked at. An
  address never changes, a confirmation is never taken back, and that is what the
  property rests on.
* `ResetCutsOff`: `CutOffAfterReset`, through three parts. `TokenInv`: a token belongs
  to one session or one sign-in, so the row a refresh finds again is the one it read.
  `CurrentInv`: sessions and sign-ins under way are of the present password or marked
  late. `AccessInv`: a token lasts `ACCESS_LIFE` from its grant.
* `LinksOnce`: `LinksWorkOnce`, through `LinkInv`: a link has one place (`OnePlace`), a
  dead one is in no row (`DeadGone`), one about to be written is nowhere else
  (`PendingNew`), and the request made with a link finds it in place unless another
  came between (`ClearsLink`).
* `ChatsMove`: the action property `ChatMoves`, through `ChatInv`.
* `ImplementsSignIns`: the refinement `KeepsPromise`. A sign-in verified maps to
  `Begin`, its commit to `Open`, its rollback to `GiveUp`, a sign-out, an expiry or a
  lapsed refresh to `End`, a reset or a first password to `Reset`; the rest stutters.
  `TokenInv` is needed to know that one row goes and not two, and that the sessions
  `open_session` drops are of the same account.
* `SignedInUnderPresentPassword`: what `SignIns` promises, of the handlers themselves.

### App

`AppProofs`, for any pages, operations, devices and sign-ins. A lemma for each of the app's
actions (`LoadEffect`, `PutIdEffect`...) says field by field what it makes of the coroutine
that takes it; the parts of the invariant are proved over these forms.

* `AppIsSafe`: `TypeOK /\ Safe`, the inductive invariant, which is `Shapes` (a coroutine
  is at a piece that its function has), `Sessions`, `Known`, `AllHonest` and `Orderly`.
* `TokensStayCurrent`: `TokensAreCurrent`, through `CallsCurrent`: a call under way
  carries the newest sign-in's token, unless the session was torn under it, so what a
  renewal writes is current too. `HalfSeen` covers the gap in a sign-in: no call runs
  between its two writes unless the session was torn, and a kill there over an older refresh token tears it.
* `ChosenStaysKept`: the action property `ChosenIsKept`, through `Honest`: a list that
  is not marked stale contains the selected device if the account has it, and a device
  just removed is off the account.
* `TunnelStaysOnSelected`: `TunnelOnSelected`. The property speaks of a phone at rest and
  is false in the middle of every operation. `Uncrossed` says it of all states: config
  and id, tunnel and selection, screen and selection agree, or a coroutine has the
  disagreement in hand and its next pieces settle it (`Own`, `Moving`, `Showing`). The
  attempt showed that a deletion begun during the load that ends an addition breaks
  it: the screen still says that another device is this phone's own, so the one just
  selected is deleted and the tunnel is left up on it. The counterexample needs more
  operations than the run has; TLC shows it with six. `crossed` covers it.

### Messages: Monitor, Operator, Notices

`MessagesProofs` holds the proofs about what goes out and to whom. It extends the three
modules, whose names are kept apart for that (`OperatorSpec`, `NoticesSpec`), and proves
each specification by itself: nothing is assumed of one in the proofs of another.

`Monitor`, for any hosts and problems and any `Confirm`, with `TypeOK` and
`Safe`:

* `NoFalseEnd`: `NoFalseAllClear`, from what `main` carries over for a silent host.
* `ChatAndFile`: `ChatMatchesFile`, through `ChatInv`, what the chat shows as
  standing is in the file or, between the message and the save, in the state that
  is about to be saved.
* `AlarmsAreConfirmed`: `ToldInARow`, through `Entries` (an entry that was told has
  been counted up to `Confirm`, in the file and in the run's copy) and `CountInv` (a
  count is at most the sightings in a row unless it was carried).
* `TwoViewsAgree`: `ViewsAgree`, through `ViewsInv`.
* `ThreeRecordsAgree`: `RecordsAgree`, the chat with the file and with the portal.

`Operator`, for any hosts, links, time-out, customers, messages and restarts:

* `AlarmAndAllClear`: `LettersAlternate`, through `WatchInv`: a check about to send
  says the opposite of the event it read, one about to commit has said it.
* `PageTellsTheReport`: `PageIsHonest`. The status is a worst of the cards', which exists
  whatever the cards are (`SomeWorst`), and each key of a report falls on one card.
* `ReceivedMeansAnswerable`: `ReceivedCanBeAnswered`, through `Copies`: the copies of a
  message are paid for by restarts, but for that of the delivery under way. Only words
  are ever told "received" or forwarded.

`Notices`, for any customers, runs, periods and windows:

* `NoticeTypes`: `NoticesTypeOK`.
* `MessagesGoOutOnce`: `ToldOnce`, through `Accounted`, `Unsent` and `Closed`: a message
  that waits while its like is out belongs to a notice that was undone.
* `BellIsFollowedByMessages`: `NoticesGoOut`, through `OwnMail`: the messages of every
  notice, committed or not, are out, waiting or lost with a run.
* `ClearedCustomersAreTold`: `ClearedIsTold`, through `SweepInv`: what a run has cleared
  in its session it has also written a notice for, with the end that is still in the row
  unless the customer was overtaken. A payment that met no run raises the flag, so it
  takes its customer out of `overtaken` again; the proof of that step is where the stale
  flag shows (`Meets`).

### Only model-checked

Every liveness property (`activation_live`, `SilenceIsTold`, `StandingIsTold` and the
others under fairness: outside the prover's reach). `TimeIsAccountedFor` sums over
payments and `FailsWithinLimit` filters a sequence: both need an induction over data,
which the prover cannot do. All other invariants of the passing runs, the action
properties and the safety part of the refinement of `SignIns` are proved.

## 5. Not modelled

Listed with reasons under `components`. Pure input and output (the wording of letters,
pages, QR codes, admin views), declarative configuration (Ansible, nginx,
migrations, traffic shaping) and stateless commands (the bot of the administrator, the
tools) are left out for good. The backups are two shell pipelines without a reader in
the code. Of the notifications, `broadcast`, `mark_read`, the ticket form and the
one-off notices of a payment, a trial and a bonus are left out: each is one row or one
letter with a commit that another module has. Of the devices, renaming and
`assign_peer`. Gateways, Telegram, Google, the mail
provider and the kernel's interface are external, modelled from how the code uses them.

## 6. What would come next

Two abstract specifications are worth stating: `PaidTime`, what activation promises (a
confirmed payment adds its days once), implemented by `Activation` as long as no two
requests meet; and `PeerTable`, one atomic table of peers, implemented by `Node` under
the same condition, which `Activation`, `Devices` and `Trial` assume of the node.
`NodeProofs` has the facts the second one needs. A chargeback after "paid" has no
property: the code drops it without a trace in any state.
