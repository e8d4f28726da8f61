# TLA+ models of the Miaw AI backend

The backend (`cmd/api`, `internal/...`) is one Go process, or several that share a Postgres database: an
HTTP API for web, desktop and Android, an embedded WhatsApp client, and background work. Nothing in it
is a distributed algorithm, but most of what it promises rests on the order in which requests,
goroutines, webhooks and SQL statements happen to run. These modules model that, check it with TLC and
prove the safety part with TLAPS.

    tlc -config runner_safety.cfg MCWhatsAppRunner.tla
    tlapm WhatsAppRunner_proofs.tla

## Inventory

| Component | State | Operations | What is hard | What makes it correct | Module |
|---|---|---|---|---|---|
| WhatsApp runner (`whatsapp/runner.go`, `cmd/api/main.go`) | `r.mu`, `r.client`, `r.runCtx`, two wait groups, `r.account`, session file, `whatsapp_accounts` | Start, Stop, RefreshPairing; QR, reconnect and health goroutines; event and message handlers; status reports | waiting under a mutex for goroutines that use it, contexts of requests, reports that overtake one another, a nil client | one run at a time, the session is removed when unused, calls return, the stored status follows the connection | `WhatsAppRunner` |
| WhatsApp linking (`database/whatsapp_store.go`, `handlers/whatsapp.go`) | contacts, link codes, accounts and their status | request a code, verify it, revoke, allow list, answer a message, choose the central account | transactions of READ COMMITTED that interleave, stale reads before updates, pages and runner that choose an account each for itself | only verified numbers chat, attempts are counted, one code one link, one number per user, the list that is edited is the one the runner uses | `WhatsAppLink`, `LinkRegistry`, `CentralAccount` |
| Memory jobs (`database/memory_store.go`, worker in `handlers/server.go`) | job rows, memories, workers | enqueue, claim a batch, call the AI, save memories, finish, edit memories | several processes, crashes, expired contexts, conversations deleted meanwhile | a job is claimed once, costs at most three calls, ends | `MemoryJobs` |
| Billing (`payment_store.go`, `store.go`, `payment/`, webhooks and checkouts in `server.go`) | orders, subscription rows, plan of the user | checkout, sync, webhooks, trial, Google Play, refresh of the entitlement | late and repeated notifications, a failure between two statements, two refreshes at once | what is paid for leads to the plan, nothing unpaid does, the account follows the rows | `Billing` |
| Quota, API keys and gateway (`payment_store.go`, `api_key_store.go`, `api_gateway.go`, limits in `server.go`) | usage per day, usage events, keys, the plan in `users` | check the limits, answer, count; create, revoke and use a key; plans that begin and end | check and count are minutes apart, midnight between them, the plan is not refreshed for a key | a limit is exceeded only by calls that overlap; what is counted is counted once; a plan outlives its end only by key | `Usage` |
| Guest chats (`auth/guest.go`, `chatStream`) | a count in a signed cookie, nothing on the server | send, admit, answer | the cookie of one tab overwrites that of another; a lost answer | one chat at a time is always counted | `Guests` |
| Chat pipeline (`chatStream`, `processChatReply`, `processWhatsAppMessage`, `storage/cloud.go`, `runtime_store.go`, DeepTutor sessions) | conversation rows, a file of messages each and its temporary file, uploads, legacy rows | chat, read, edit, replace, delete, change title or pin | read, answer for a minute, write back the whole file; one temporary name; row and file are two stores | no stored turn is lost, a file parses, a deleted conversation stays deleted, all except where requests overlap | `ChatPipeline` |
| Tracker (`tracker_store.go`, `tracker_suggestion_store.go`) | entries, suggestions | extract, approve, dismiss, create, edit, delete | an approval reads without a lock; hashes that edits do not update | a dismissal stands, a suggestion makes one entry, an entry says what was approved | `Tracker` |
| Accounts and sign-in (`auth/`, `store.go`, OAuth handlers) | users, identities, passwords, desktop codes | sign in at a provider, register, log in, exchange a code | transactions that insert the same email or identity at once; two exchanges; lost answers | an identity keeps its account, a code gives one token, emails are unique | `SignIn` |
| DeepTutor API (`deeptutor_*.go`) | maps in the process, four mutexes | create, get, list, update, rename, delete | objects are encoded after the mutex is released | an answer is an object as it once was; what was made is found | `DeepTutor` |
| Research and AI clients, admin overview, configuration, middleware, migrations, models | none, or read-only queries | | nothing that interleaves | | not modelled |

How they interact: a WhatsApp message passes the runner (`Route`), is resolved and answered by the linking
code (`Handle`), and then runs the chat pipeline, which checks quota, calls the AI, stores the turn and
enqueues a memory job. Payments change the plan on which quota, the gateway and WhatsApp answers depend.
The runner writes the account status that linking reads. Everything else is shared through Postgres rows.
Where one module needs another only for a value (the plan, bought credit, a deleted conversation, the status
of the account), that value changes there by an action of its environment, at any time.

## Plan

The order was: what may lose or misattribute a user's data first. Written, in this order: `WhatsAppLink` (with
the abstract `LinkRegistry`), `MemoryJobs`, `WhatsAppRunner`, `Billing`; then `ChatPipeline`, `Usage`, `Guests`,
`Tracker`, `SignIn`, `CentralAccount`, `DeepTutor`, which `Services` puts side by side for one run. Each has
theorems in a `_proofs` module; those about `Usage`, `Guests`, `CentralAccount`, `DeepTutor` and the composition
are in `Services_proofs`, which cites those of `Tracker` and `SignIn`.

Left:

1. A composition of `WhatsAppRunner` with `WhatsAppLink` over the account's status, and of `Billing` with
   `Usage` over the plan; both are joined so far by environment actions that allow more than the other module
   does.
2. The event log of WhatsApp accounts, the spam guard, the older `chat_messages` table, runtime settings.

## Modules

Each `X.tla` holds constants and assumptions, variables, one action per statement or handler step, the
specification, the properties and the inductive invariant `IInv`; `MCX.tla` the symmetry sets for TLC;
`X_proofs.tla` the theorems. An operator whose comment begins with "Variant" is a form of the
definition after it that the code does not have, by which one sees what a property rests on.

### WhatsAppLink and LinkRegistry

State: contacts and link codes as their tables have them, the status of the account, and for every inbound
message being handled the values its handler has read so far. `VerifyWhatsAppLinkCode` is a transaction of
several statements; each is an action (`Scan`, `LockCode`, `Miss`, `FindOthers`, `UnlinkOthers`, `Link`) with
Postgres's READ COMMITTED rules: a statement sees what is committed, `FOR UPDATE` and `UPDATE` wait for the
rows another transaction holds. Users request codes (`StartCode`, `InsertCode`: the count of linked numbers is
read before the insert) and revoke numbers, an admin edits the allow list, the service reports statuses.
Names, texts and events are left out; a code is its secret, a phone number is a contact.

`LinkRegistry` is what a user is told: a number is linked with a pending code of that user and replaces the
one before, and can be revoked. `RefinesRegistry` says that `WhatsAppLink` with one message at a time implements it.

### MemoryJobs

State: job rows in the order of `created_at`, the live memories per user, one worker per process, and a count
of AI calls that only the properties use. A claim is one statement (`FOR UPDATE SKIP LOCKED`). The result of a
job is written under the job's own context of 60 seconds, while the AI client waits 90: an expired context
fails every later statement (`late`), and errors of the closing statement are ignored, so the row stays
`running`, and no statement claims running rows. That is in the model, and `OnlySlipsStrand` says exactly when
it happens; no document promises otherwise. The content of memories is a set of hashes.

### WhatsAppRunner

State: who holds `r.mu` and where it is (`call`), `r.client` and `r.runCtx` as numbers of runs, the context
of each run, the three goroutines of each, the status reports in flight, the connection and the session
of the client library, the row and `r.account`, the messages. A call is a chain of actions under the mutex;
goroutines and messages that need the mutex wait for `call.op = "none"`. A report is an UPDATE, a SELECT and an
assignment, unordered between goroutines. whatsmeow is an environment: it connects, logs in when paired, shows
QR codes until then, reconnects what it lost and calls handlers from goroutines of its own.

Left out: the comparison with `r.account.ID` in RefreshPairing (there is one account); revocation of the
account (in `WhatsAppLink`); the text of messages and media. Of the unguarded reads of `r.client` two are
modelled, in `logHealthSnapshot` and `startReconnectLoop`: a nil client ends the process (`Panic`), which then
starts again. The others could only end it the same way.

### Billing

State: the subscription rows of each user (status, end, and a place in `ORDER BY updated_at DESC`), the account
(plan, status, end), the orders of `payment_transactions`, and the requests. A request is one goroutine of the
HTTP server, and each of its statements and calls is an action: no two of them share a transaction.
`requireUser` reads the user through `GetUserByID`, so every request of a signed-in user begins with a refresh
(`Begin`, `SelectRows`, `UpdateUser`), and `UpsertSubscription` ends with one; what the request does next is
in `then`. `Entitlement` and `Touched` are the two computations: the plan that follows from the rows, and
the rows after an upsert, which makes the row it touches the newest.

Midtrans is an environment that moves an order from status to status (`Becomes`) and notifies the server of each;
with `Late`, older notifications still arrive after newer ones. A status under review (`capture` with
`fraud_status` challenge) is `reviewed`, since the code tells it apart only so. `paidAt` is when an order was
first paid, `activated` which orders have led to an upsert, `acked` the payments that were answered with 200; these
are for the properties and the fairness only.

`Month` and `Year` are functions of the time a period begins, as `AddDate(0, 1, 0)` makes March 3 of January 31 and
March 1 of February 1: a period that begins later may end earlier. The end is reckoned in a step of its own (`Date`)
before the statement that writes it, so a request that reckoned first may write last.

The database gives out `MaxOpen` connections. A refresh that finds a row that gives access stops reading and
keeps the connection of its SELECT until it returns (`defer rows.Close()`), so its UPDATE needs a second one
(`Holding`, `Connected`). As many such refreshes as the pool has connections, at the same time, wait for one
another, until a client hangs up; nothing documents otherwise, so this is not among the findings, but
`NoOneIsBlocked` and `PaidOrdersActivate` have to except it (`PoolIsStuck`).

Abstracted: amounts and tokens; a purchase token of Google Play is accepted as the code accepts it; statuses the
code does not know are one, "other"; what stores report by themselves is one row (`OfStore`), apart from the rows
Midtrans, Google Play and the trial write, which says that a store reports rows of its own platform only. A
checkout with no order id left (`NoOrderLeft`) is a bound of the model.

### ChatPipeline

State: per conversation its row (there, deleted, count of messages, title, pin, whether legacy rows go with it),
its file and its temporary file, which requests have an upload, and per request where it is and the list it has
in hand. A conversation is read as a whole (`Find`, `Read`, `ReadLegacy`) and saved as a whole: `Open` truncates
`<id>.json.tmp`, `Write` fills it, `Rename` puts it in place, as `LocalCloudStorage.SaveMessages` does with
`os.WriteFile` and `os.Rename`. Since the temporary file of a conversation has one name, two saves may write
one inode, and an open file is followed through renames (`fd`). A chat saves twice, with the AI call between;
reading a conversation that has only legacy rows saves them (`open`); an edit removes a message, a replacement is a
Co-Writer document or an import; a deletion marks the row and then removes the file. What `DeleteMessages` returns is
ignored: when the file cannot be removed it stays, and the deletion answers ok (`KeepFile`). `Fail` and `Crash` end
one request or all of them between any two steps; nothing but a crash ends a deletion that has marked its row.

The properties say what can go wrong and between whom: each is an implication whose way out is another request that
overlapped (`Excused`, `Clash`, `OverlapsWriter`), decided by `before`, the requests that were over when one began.
One request after the other therefore never loses, tears or revives anything. `DeletedStays` has two parts. A file
that was removed comes back only through a request that was at work then (`FilesStayRemoved`); whatever a deletion
left, be it that the file could not be removed or that the process ended, a request that begins later does not find
the conversation and gets no further.

### Usage

State: the day and the limits' books (`daily`, `spent`), the plan in `users` and whether a subscription
gives access, credit, keys, and the calls. `checkUserQuota` is three reads (`ReadPurchases`, `ReadWeek`,
`ReadDay`), a call by key reads the credit only; `Answered` takes the date `IncrementDailyUsage` begins with and
`Count` is its transaction. `PromptOverrun` and `CreditOverrun` bound what a call finds beyond the limit it was
held to by the calls that were not over when it began: there is no reservation, so this is all the code can
promise. Bought credit is any value up to `MaxBought` each time it is read (`ReadPurchases`), as orders are settled and
refunded at any time.

Whoever comes with a session is read by `GetUserByID`, three statements here: the SELECT of the subscriptions
(`CallBySession`), the UPDATE of the plan (`UpdatePlan`), the SELECT of the user (`LoadUser`); requests that ask no
AI do the same (kind "account"), a call by key reads the plan as it is. So the site serves by the plan that the
last UPDATE wrote. `LatePlanIsByKey` says how long a plan outlives its end: by key until somebody has used the
site, and on the site only if two refreshes overlapped, one of which had read before the end (`RefreshedBeside`).

### Guests, Tracker, SignIn, CentralAccount, DeepTutor, Services

`Guests`: the count is in the cookie a request brings and its answer sets, so tabs overwrite one another;
`GuestsAreCounted` says that only overlapping chats go uncounted.

`Tracker`: `Approve`, `Enter`, `Mark`, `Commit` are the statements of `ApproveTrackerSuggestion`. What a transaction
wrote is not seen before the commit, and who writes the same row or unique key waits (`EntryLocked`,
`SuggestionLocked`); so the model writes at the commit. An entry carries the hash it was made with (`of`) beside what
it says, as only the latter follows an edit. Entries older than the hashes (`OldEntries`) may be there from the start:
migration 008 made their hash with md5 of other bytes than `trackerContentHash` takes, so no new text has it, and
several of them may say the same. What `EntriesTell` says of two entries with one text excepts them (`Migrated`).

`SignIn`: the statements of `FindOrCreateOAuthUser`, `CreatePasswordUser` and `EnsurePasswordUser`, written at the
commit in the same way, and `ConsumeDesktopAuthCode`, one guarded UPDATE. A commit whose answer is lost
(`CommitLost`) has happened. Sessions and OAuth states are signed and kept by the client; here they are
the answer of an attempt.

`CentralAccount`: `GetOrCreateCentralWhatsAppAccount` as its SELECT, INSERT and UPDATE, asked for by admins'
pages and by the runner, each for an owner of its own.

`DeepTutor`: one of four mutexes and one map it guards. A request takes a pointer under the mutex and encodes
the object field by field after releasing it; a field read while it is written may come out as neither value
(`Garbled`), and a map iterated while it is written may end the process (`Die`).

`Services` lets one of these move while the others rest: they share no state and no property is about two
of them, so their product adds nothing but states. `ServicesInv` is what each keeps of its own state.

| Run | Instance | Shows |
|---|---|---|
| `link_concurrent` | 2 messages at a time, 2 users, 1 number, 2 codes, all account statuses | wrong attempts are never lost and the third locks the code (`CodesOnlyAdvance`); a link spends a code of its own (`LinkSpendsCode`); only verified numbers chat; linked numbers are allowed; `IInv` |
| `link_sequential` | 1 message at a time, 2 users, 2 numbers, 2 codes | `LinkRegistry` is implemented, in which a user has one number |
| `link_one_number` | 2 messages at a time, 2 numbers, 2 codes of one user | **violated**: two codes of one user link two numbers at once |
| `jobs` | 2 processes, 2 jobs, batches of 2, 1 slip, fairness | jobs are claimed once, calls are bounded, final states stay, stranding only by slips, waiting jobs end, memories are learnt while the conversation exists |
| `runner_safety` | 2 runs, 1 refresh, 1 message, 1 failure or kill | one run at a time; the session is unused when it is removed; `stopLocked` waits only for what it has cancelled |
| `runner_progress` | 1 run, 1 refresh, 1 message, fairness | Start, Stop and RefreshPairing return; a message ends although it waits for the mutex Stop holds |
| `runner_status` | 1 run, 1 change, fairness | a lost connection is noticed; a paired session comes up after a failed first connect |
| `runner_refresh` | 2 runs, 1 refresh, fairness | **violated**: after a refresh a lost pairing is not noticed |
| `billing_concurrent` | 2 requests at a time (checkout, sync, notification), 1 order, 2 connections, 1 interruption, late notifications, fairness | nothing counts as paid that was not; a paid order leads to its subscription, and Midtrans is not answered with 200 before it is there; only a used up pool blocks; it stays used up until a client hangs up (`StuckUntilHangUp`) |
| `billing_sequential` | 1 request at a time, of all kinds, 3 products, 3 reported statuses, notifications in order, periods of 3 that begin at time 1 and of 1 that begin later | the account says what its rows say; settled orders stay settled; a trial is used once; a subscription ends one period after a time at which an order for it had been paid, however often that is reported |
| `chat` | 3 requests of any kind about 1 conversation, with or without legacy rows, 1 failure (a file that cannot be removed among them) or crash | stored turns and images survive; files are torn only by two saves; deleted conversations, removed messages and titles stay, except where requests overlap |
| `services` | 2 calls over 2 days of 2 weeks, with purchases and refunds at any time and a change of the plan; 3 guest chats, limit 2; 3 reviews of 2 suggestions, 1 entry older than the hashes or none; 3 sign-ins of 1 identity with 2 emails; 3 pages of 2 admins; 3 visits to 2 names; 1 failure or restart each | each part's invariant (`ServicesInv`) holds beside the others; limits are exceeded only by overlapping calls; late plans by key until the site is used, on the site only by overlapping refreshes; dismissals stand; an identity keeps its account; a code buys one token; the list that is edited is the runner's |

Why the bounds are enough. Every hazard here is between two actors: two messages, two processes, two runs, a call and
a goroutine, two requests about one order. Three requests, reviews, attempts or pages are two that interleave and one
that comes before or after, to see what they left; with two calls one can be over when the other is held to a limit of
one. Only a call by key after two refreshes that overlapped takes a third; that one is left to the theorem
`LatePlans`. Two codes are one more than a number may use; two connections let one refresh keep the first and use the
second, and two refreshes block each other; three points of time let a period end, and one that begins later end
before it; one entry older than the hashes can meet one new entry of its text; attempts go to the real limit of three.
What the bounds leave open (any number of messages, processes, runs, users) is what the theorems cover for the safety
properties. `MaxSlips`, `MaxFailures`, `MaxChanges`, `MaxCreating`, `MaxEvents` bound how often the environment
interferes, not what it does; the liveness runs of the runner have no failures, since a failing statement is logged
and not retried. The time of `billing_concurrent` stands still, as what ends has no part in its properties.

Fairness. `jobs`: every process goes on with what it has begun, claims what is due (the 20 second
ticker), contexts expire, backoffs pass. `runner_*`: goroutines and calls that can move do; the library connects, logs
in a paired device and delivers its events; health ticks recur. Nothing is assumed of users, of the phone, or
of failures. `billing_concurrent`: each request goes on (weakly fair: a goroutine with a statement it can
run), and Midtrans sends the notification of a payment until it is answered with 200, which the code counts on when
it answers a failed statement with an error (strongly fair, as the server may be busy in between). Nothing makes
users pay.

`CHECK_DEADLOCK FALSE` in the runner's runs, as after Stop the process has ended, in `billing_concurrent`,
where the pool can really get stuck (that nothing else stops a request is `NoOneIsBlocked`), and in `chat` and
`services`, where the bounded requests are over in the end. These state no liveness: a request there waits for
nobody but a transaction, which ends.

## Proofs

All from the named assumptions on the constants, for every number of users, messages, processes, runs,
requests and orders. Five theorems are about requests or messages handled one at a time, as the runs that check
those properties are; each says so as an assumption of its own (below).

- `WhatsAppLink_proofs`: `IInv` adds to `TypeOK` that a code row is held by one transaction, that what a transaction
  read of a row it holds is still so, that a found code matches its sender, and that three attempts lock a code.
  Without the second the count of attempts could be overwritten by an older one, which is what `CodesOnlyAdvance`
  forbids. From it follow `CodesAdvance`, `LinksSpendCodes`, `UnknownContactsVerifyFirst` and
  `LinkedNumbersAreAllowed`. With `OneHandler` (there is one handler, which the next message uses again) every step
  maps to one of `LinkRegistry` or a stutter: `LinkingIsRegistry`. What that rests on, `OthersAreKnown`, says that the
  transaction that verifies a code has in hand every other number its user has, so that it releases them in the step
  that links the new one; `OneNumberOneAtATime` is the same fact between messages. `link_one_number` shows that it
  takes two handlers to break it.
- `MemoryJobs_proofs`: `IInv` says that processes hold disjoint sets of jobs, that these are running, and that the
  calls of a job are its attempts, one more while it runs. `JobsAreClaimedOnce`, `CallsStayBounded`, `JobsStayFinal`,
  `NothingElseStrands` and `LearningNeedsALiveJob` follow.
- `WhatsAppRunner_proofs`: `IInv` says where a call can be for its operation (`CallStages`), that past its wait no
  goroutine of the old run is alive (`CleanStart`), and the two results `OneRun` and `SessionUnused`. A caller that
  hung up lets the wait end early; the proof rests on a later step of the same call seeing that its context ended.
  `Contexts` follows `r.client` and `r.runCtx` through the calls: each is that of the last run or nil, and no context
  but that of `r.runCtx` is alive. So when `stopLocked` has cancelled it, everything it waits for has been told to
  end, but for replies that began without a run (`OnlyTheCancelledIsWaitedFor`): the part of `NothingWaitsForever`
  that needs no fairness. `MainsRunIsTended` is that part of `DisconnectionIsNoticed` and `PairedRunComesUp`: with its
  context the run of main has a health loop, and while a session lacks a connection that the library would not bring
  back by itself, a loop that connects it (`Tended`). It says nothing of a run made by a refresh, whose context ends
  with the request, and `runner_refresh` shows what follows from that.
- `Billing_proofs`: `NothingUnpaid` is not inductive, for the next UPDATE writes what a request found out several
  statements ago. `IInv` adds what requests carry: a status they were told is one Midtrans has sent (`Told`), the user
  and product they found are those of the order, and they reach the upsert only with a paid one (`Matches`), a plan
  "pro" in the hands of a refresh has a row behind it (`Backed`), an order id is one checkout's until its row is there
  (`InsertsAreFresh`). All of it is stable because nothing is taken back (`Kept`): orders keep owner and product,
  Midtrans keeps what it said, rows stay. `EntitlementFollowsRows` and `TouchedRows` say of the two computations what
  the proof needs; the newest row exists since ages are natural numbers. Three properties hold for one request at a
  time (`OneAtATime`: there is one, whose place the next takes when it is over; two can interleave SELECT and UPDATE,
  see `billing_concurrent`). `SettledStays`, with no late notification: what a request was told is not older than what
  the order says (`OrdersUpToDate`). `TrialsAreUsedOnce`: a checkout that is about to insert a trial has seen that its
  user had none (`TrialsAreFirst`). `AccountsDoAgree`, with no slips (`MaxSlips = 0`): what a refresh has in hand
  follows from the rows it read, which are still the rows (`AccountsFollow`), for any table of subscriptions and at
  any time. The others hold for any number of requests, interrupted or not. `OnlyThePoolBlocks`: the connections in
  use are those of the refreshes that wait to update, one each, never more than the pool has (`PoolFits`, over the
  cardinality of `Holding`); so when none is left they are `MaxOpen`, all waiting, which is a stuck pool, and a
  request that needs none always goes on. `NoOneIsBlocked` says this with `Ready`, the conditions its next step has.
  `StuckStaysStuck`: a step that brings one of the waiting on would need a connection. `AcksAreActivated`: a request
  that reached the refresh after an upsert for an order it will acknowledge has the subscription's row behind it, and
  rows stay (`Activation`, `Renews`). `PeriodsNeverStack`: every end a request has in hand, and every one in a row of
  Midtrans, is `PeriodEnd` of a time since an order of that user for that product was paid (`PaidSince`): it was
  reckoned when the request had been told of the payment, and neither owner, product nor the time of the first payment
  of an order ever changes, so it does not matter how long after that, or after what other request, it is written.
  Nothing is assumed of the calendar.
- `ChatPipeline_proofs`: `TurnsSurvive` speaks of the file; what may still spoil it is the lists requests hold and
  what is left in the temporary file. `IInv` therefore says of every list that may still be written, and of the
  temporary file, that it keeps the turns that were over before its request began (`TurnsKept`), that a save has its
  temporary file to itself or overlaps another (`SavesAlone`), and that a chat has its own messages in hand until it
  has stored them (`HoldsOwn`). Who overlapped whom never changes once both have begun, which is why the excuses are
  stable. `StoredTurns` and `TornFiles` follow, and `DeletedForGood` since no request at work began after the deletion
  of its conversation was over (`DeletedLast`). For `TitlesStay` every change of the pin that is about to write the
  row back has the last title in hand, or overlaps its change (`TitlesHeld`). For `RemovedForGood` lists have every
  message once (`ListsAreFine`: what a request appends it has not said before), what was saved is the file until its
  request is over (`SavedAs`), and what an edit took is neither in the file nor in the list of a writer at work nor
  about to come from the legacy rows, as a row that counts messages has them in its file (`GoneFor`, `LegacyIsOver`).
- `SignIn_proofs`: `CodesAreSpentOnce` rests on the lock a guarded UPDATE holds until its commit (`SpentAlone`).
  `IdentitiesKeepAccounts` rests on `AccountInv`: the attempt that made an identity's account has the email of its
  user, every later attempt found the account there, and an email has one user, so a transaction that chose another
  user had another email and began before that commit. `AccountsKeep` says besides that emails are unique and that
  accounts, passwords and codes name users that exist.
- `Tracker_proofs`: `TrackerInv` adds what a review that has settled a suggestion means for those that began later
  (they would not have found it pending, `ReviewsTell`), and that of the transactions that hold a hash one will have
  the only live entry with it (`OneEntryEach`). `ReviewsHold` and `EntriesSay` follow.
- `Services_proofs`, part by part.
  *Usage*: `PromptOverrun` is inductive with the books (each counted call is in the row of its date, once): a call
  that is counted adds one to the row and one to the calls that were not over when any other began. `LatePlans` adds
  what a stale plan in `users` tells (`PlanTells`): the entitlement has changed since it was written, and either
  nobody has refreshed it since or a refresh that had read before the change overlapped the one that had read after
  it; and the same of a call between its UPDATE and its SELECT (`ReloadTells`). `CreditHolds` is about a sum of
  tokens; `TokensOf` is the number of pairs of a call and one of its tokens, so that the library's facts on
  cardinalities are enough.
  *Guests*: `GuestsKeep`; the chats of a cookie that were had alone are counted by the cookie the next one shows.
  *CentralAccount*: `OneAccountEach` and `EditsReachRunner` rest on `CentralTells`: every account is in the order of
  changes and was made by a page, and a page that is about to make one has seen that no page which was over before
  left one open.
  *DeepTutor*: `TutorKeeps`; an object on its shelf is whole unless somebody writes it just now without the mutex,
  what a visit has in hand is whole unless an update overlapped it, and what was made is found where it was put until
  it is taken away (`TutorIInv`).
  *The composition*: every step of `Services` is one of a part and stutters in the others (`PartsAreImplemented`), so
  the six invariants hold together (`ServicesKeep`).

The inductive invariants were checked by TLC on the instances of the runs before they were proved. The runs
themselves repeat the properties rather than the strengthenings, which hold for every value of the constants;
`link_concurrent` and `services` keep theirs (`IInv`, `ServicesInv`), since hazards rest on them directly.
`RunsAreTended` is in the same way a property that was checked once and is now a theorem.

Assumptions that a proof needs beyond typing: `Requests` of `Billing`, `Calls` of `Usage` and `GuestChats` are finite,
as the requests of a process at one time are, since the proofs count them; `Orders`, `StoreStatuses` and `SubProducts`
are not empty, or nothing could be bought; `PlayProducts` are among the products, and no credit is one of them, as in
the code's table of products.

Every invariant and every action property of the passing runs has a theorem. Only model-checked: all liveness
(`WaitingJobsEnd`, `NothingWaitsForever`, `PairedRunComesUp`, `DisconnectionIsNoticed`, `PaidOrdersActivate`), as
fairness and ENABLED are out of TLAPS's reach. Nothing here is an induction over data: what a list or a sum gives is
stated by its elements or its cardinality.

## Findings

- `whatsapp_store.go:733`: two messages at once can link two numbers of one user (`link_one_number`).
- `runner.go:267`: a run started by RefreshPairing lives only as long as the HTTP request (`runner_refresh`).

Seen while modelling, and in the models, but promised otherwise by no document: a sync or notification of an order
that is settled starts its period anew: periods do not add up (`PeriodsDontStack`), but a payment reported again later
may last longer, or end earlier at the end of a month, as may one whose end was reckoned before another's and written
after it (`server.go:2270`); a deletion answers ok though the file could not be removed, and the file stays
(`server.go:1364`; `DeletedStays` says that it is out of reach); status reports overtake one another, and a client
that is logged in can stay `disconnected` (`runner.go:540`); `logHealthSnapshot` and `startReconnectLoop` may read a
nil `r.client`, which ends the process (`runner.go:537`); the pool of connections can be used up by refreshes
(`NoOneIsBlocked` excepts it), and stays so until a client hangs up (`StuckUntilHangUp`); two refreshes of one account
that overlap around the end of its subscription can leave the plan that has ended to the next request (`store.go:503`,
excepted by `LatePlanIsByKey`).

## Not modelled

- The research and AI clients (`research/`, `ai/`): stateless calls and text processing. That they fail, hang or
  answer late is a step of whoever calls them.
- Admin overview, configuration, CORS, migrations as such, models, uploads' metadata: read-only queries, environment
  parsing, headers, plain data. Of the migrations, unique indexes and defaults are in the modules that rely on them.
- Of WhatsApp linking: the event log and the access policy, which decide nothing about links. Of the gateway: the spam
  guard, `last_used_at`, rewriting of bodies. Of the pipeline: `chat_messages`, previews, models, runtime settings.
- `dtAdminListUsers` (`deeptutor_catalog.go:132`) reads the map of avatars without the mutex its writers take, and
  could end the process like `Die`; avatars are not among the objects of `DeepTutor`, and no property is about them.
- DeepTutor's canned answers and the websockets that only answer. A slow client of a list that is encoded with the
  mutex held blocks all routes of that mutex, as the server sets no write timeout (`cmd/api/main.go:58`); the model
  has the mutex held (`List`), and no property, for nothing makes a client read.
