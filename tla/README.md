# A verification development of telebot_Capi

TLA+ modules, TLC configurations and TLAPS proofs about the library of this
repository, `lib/telebot_Capi`, and about `testbot`, the program built on it.
The definitions are translated from the C code; `PROJECT.json` maps each one to
its lines. Paths below are relative to the repository.

The library is small (under 1800 lines) and most of what it does is simple when
one thread does it. It is not one thread: a polling thread, one parser thread
per answer, the user's own threads and a signal handler share a curl handle, a
table of handlers, a System V message queue and a flag. The project is about
what they do to each other.

## 1. The system

| Part | State | Operations | Where |
|---|---|---|---|
| Long polling | the message queue (in the kernel), `running`, the offset in `fullurl`, the answer being handed over, the parser's place in its list of updates | `tbc_polling_init`, `tbc_poll`, `tbc_parser` | `tbc_polling.c` |
| Notifier table | `notifiers[MAX_UPDATE_EVENTS]`, the semaphore `mutex_updateNotifiers` | `initUpdateNotifiers`, `addUpdateNotifier`, `modifyUpdateNotifier`, `removeUpdateNotifier`, `findUpdateHandler` | `events.c` |
| Outgoing requests | two curl handles (the user's and its duplicate) with the options set on them, one `http_response_t` per call | `telebot_getMe`, `telebot_sendMessage`, `telebot_sendPoll`, `tbc_http_callback` | `telebot_Capi.c` |
| Life cycle | the two statics of `isRunning`, the semaphore's name, curl's global state | `telebot_init`, `telebot_close` (the SIGINT handler), `isRunning` | `telebot_Capi.c` |
| Unpacking | none | `unpack_json_message`, `unpack_json_poll_update` | `tbc_polling.c` |
| testbot, registrations | `event`, a local of `main` | `main`, the nested functions `starteco` and `stopeco` | `testbot.c` |
| testbot, subscriptions | `suscripciones.txt` | `findSubscripcion`, `doJoin`, `doDelete`, `doEncuesta` | `testbot.c` |

Not part of the program: `telebot_Capi_mod.c`, `testbot_mod.c` (earlier copies
that no Makefile builds), `testbot/test.c`, `lib/curl/*.c` (trials of curl),
`modelo.c` (a template), and the vendored curl, OpenSSL and jansson.

### How the parts interact

    user's main ──telebot_init──► tbc_poll ──getUpdates──► Telegram
       │                            │  ▲                      │
       │ add/modify/remove          │  └── offset (msgsnd) ─┐ │ answer
       ▼                            ▼ pthread_create       │ │
    notifier table ◄──find── tbc_parser ──handler(update)──┘◄┘
                                    │
                                    └─ handlers call sendMessage, sendPoll
                                       with tbc_poll's curl handle

* `tbc_poll` asks the server for the updates from an offset on, gives the answer
  to a new detached `tbc_parser`, and blocks in `msgrcv` for the next offset.
* `tbc_parser` looks a handler up for each update, calls it, and at the end sends
  the offset that follows the last update, or 0 when there was none.
* The parser borrows `tbc_poll`'s curl handle and a pointer to a local of
  `tbc_poll` for its handlers. Nothing but the wait protects the loan.
* The server forgets the updates below the offset it is asked for. The queue
  belongs to the kernel and survives the process.
* The table is changed by any thread, while parsers look handlers up in it.
* `telebot_close` clears `running`, waits, cleans up and kills the process.

### What is hard, and what makes each part correct

* **Long polling.** Crashes between the handler, the message and the request; a
  message left by an earlier life; answers that are lost after the server acted
  on them; paths of the parser that send no message; error paths that touch the
  stop flag. Correct: each life handles the updates in order, without a gap or a
  repetition; the server only forgets what has been handled; the loan has one
  user; nobody waits for a message that will not come; a stop ends the loop.
* **Notifier table.** The scan for a slot runs before the semaphore is taken, the
  writes under it, field by field. Correct: a lookup returns the best match of the
  table and never an empty handler; with one changing thread the four operations
  are atomic; the semaphore is given back.
* **Requests.** A handle keeps its options between calls, two of them as bare
  pointers into frames that return. Correct: each call sends its own text and reads
  its own answer; a GET is a GET; no handle is used by two threads at once.
* **Life cycle.** SIGINT at any moment of `telebot_init`, a second SIGINT, the
  clean-up while threads are still at work, `free()` in a signal handler, two bots
  on one machine, a semaphore that outlives a killed bot. Correct: no bot is blocked
  by what another life left; an orderly close uses nothing that is gone; SIGINT ends
  the bot.
* **testbot.** It registers its handlers when the bot already runs; two handlers
  write a local of `main`. Correct: what main registered is in the table; the
  default handler follows the last `/starteco` or `/stopeco`.
* **Unpacking.** Sequential code on one JSON object; ids of 64 bits in an `int`,
  accessors that answer for a value of any kind, a variable used once too often.
* **Subscriptions.** One file, changed by handlers that crashes repeat: updates that
  are handled again, a truncation and a write with a crash between them, a text
  without a terminator. Correct: each subscriber is in the file once; the file has
  those whose last word was `/join`; a poll goes to each of them, once.

`PROJECT.json` lists these hazards one by one, at the line where they bite.

## 2. The modules

| Module | Models | Relation |
|---|---|---|
| `Delivery` | what long polling promises, in five actions | abstract |
| `Loan` | what `tbc_poll` and its parsers promise about the handle they share | abstract |
| `Polling` | `tbc_poll`, `tbc_parser`, the queue, the flag, crashes, restarts | implements `Delivery` and `Loan` |
| `PollingProofs` | theorems about `Polling` | |
| `NotifierTable` | the table with atomic operations | abstract |
| `Notifiers` | `events.c`, one action per access to shared memory | implements `NotifierTable` for one changing thread |
| `NotifiersProofs` | theorems about `Notifiers` | |
| `NotifierTableProofs` | `Notifiers` implements `NotifierTable`; theorem about `NotifierHistory` | extends `NotifiersProofs` |
| `NotifierHistory` | `Notifiers` with the registrations that were accepted | history added to `Notifiers` |
| `Requests` | the curl handles and the calls that use them | implements `Loan`; its hand-over stands for the one of `Polling` |
| `RequestHistory` | `Requests` with the last send on each handle | history added to `Requests` |
| `RequestsProofs` | theorems about `Requests` and `RequestHistory` | |
| `Lifecycle` | `telebot_init`, `telebot_close`, `isRunning`, for several bots on a machine | reduces the poll and its parsers to when they use curl and the semaphore; implements `Loan`, once for each bot |
| `LifecycleProofs` | theorems about `Lifecycle` | |
| `Unpack` | what `tbc_parser` makes of the JSON of an update | operators only |
| `Subscriptions` | `suscripciones.txt` and the handlers of `/join`, `/delete`, `/encuesta` | composes `Delivery` (its actions, by INSTANCE) and `Unpack` (every update goes through it) with the handlers |
| `SubscriptionsProofs` | theorems about `Subscriptions` | |
| `TestBot` | `testbot.c`'s registrations against the dispatch of updates | uses `MutualExclusion` (lookups and writes do not overlap) and `OneBorrower` (one parser at a time) |
| `TestBotProofs` | theorems about `TestBot` | |
| `MCPolling`, `MCNotifiers`, `MCTestBot`, `MCSubscriptions` | constants for TLC | |
| `MCLostAdd` | constants for `NotifierHistory` | |

### Loan

Three modules have the hand-over of `tbc_poll`'s curl handle, each at the grain it needs:
`Polling` with the queue, `Requests` with the options, `Lifecycle` with the moment the
library is cleaned up. `Loan` is what they agree on: a handle has one holder, is used by
its holder only, and goes from `tbc_poll` to a parser, from that parser into the queue
(`sent`), and from there to `tbc_poll`; in no other order, unless the poll or the process
ends. Each module names its holder and who is in a call of curl (`Holder`, `Using`) and is
checked and proved to implement it (`LoanPromise`). The last call of one holder and the
change of hands may be one step, because `Lifecycle` makes them one.

### Polling

`pollPc` is where `tbc_poll` is: `open` (msgget), `drain` (the IPC_NOWAIT loop),
`test` (`isRunning`), `request` (curl_easy_perform), `spawn` (pthread_create),
`wait` (msgrcv), `exiting` (msgctl), `exited`; `down` is no process. `ppc[p]` is
the same for parser `p`. An answer is the range of update ids it carries and a
kind: a list, an error object (`"ok": false`) or text that is not JSON. The
names `msgqueue_id`, `msq_buffer`, `offset`, `batch` and `update_id` are the
code's locals. Where the code does not initialise a local (`msq_buffer`), `Boot`
chooses its value. `confirmed`, the server's side, is external: the code shows it
only through `getUpdates?offset=`. `handled`, `cursor` and `boots` are history.

`Faults` says what may go wrong in an instance: a failed transfer (before or after
the server acted), an error answer, garbage, a failed `pthread_create`, a queue
that cannot be opened. `Kill` (a crash, or the SIGKILL that ends `telebot_close`)
and `Close` may come at any moment.

Two details of the code decide a lot. `isRunning(1, NULL)`, which the error paths
call to stop, *sets* `running` (only argument 2 clears it). And a parser that finds
an error answer, or no queue, ends without a message.

### Notifiers

One action per access to shared memory: a thread reads a slot's type (`Scan`), then
its info (`Compare`), waits for the semaphore (`SemWait`), writes handler, type and
info in the code's order (`WriteHandle`, `WriteType`, `WriteInfo`) and posts. The
lookup runs its loop a slot at a time under the semaphore. A compare of an info that
another thread is copying may come out either way. The infos of fresh slots are
whatever memory held. A poll registered by its id ends the process
(`LookCrashes`): `events.c:291` formats the id into a NULL pointer.

`NotifierTable` is the table as a caller sees it: a call starts, acts in one step with
its own arguments, and returns what that step gave. `Notifiers` is mapped to it by
counting a change as done when its thread gets the semaphore (`Written`), and a lookup
when it chooses.

### Requests

`handle[h]` has the four options the library sets: method, URL, POSTFIELDS,
WRITEDATA. The last two are pointers: they name the thread whose local they point
to, or are `dead` once that call has returned (`Buried`). `tbc_poll` duplicates
`main`'s handle while `main` may be setting options of it, so each option copied is
the one before or the one after. What curl does with the options is external, as
the vendored manual states it (`CURLOPT_POSTFIELDS.3`: the data is not copied).

`RequestHistory` adds what a handle does not keep: which send it was used for last.
With it one can say exactly when a `getMe` or a `getUpdates` is not a GET.

### TestBot

`main` runs through its nine registrations, statement by statement, while a parser
dispatches updates; `starteco` and `stopeco` set `event.update_type` of `main`'s
frame and call `addUpdateNotifier`, which reads the event through the pointer: its
type before the semaphore, then type and info again under it. A lookup is one step.
`eco`, `early` and `struck` are history; `struck` names the registrations during which a
`starteco` or `stopeco` ran.

### Lifecycle

A bot is three threads: `main`, `poll` and one `parser`. `pc[b].main` follows
`telebot_init` call by call, then the user's calls (`use`) and registrations (`held`).
`heap[b]` is the thread inside malloc or free: each of the three allocates, in curl, in
jansson, for each answer (`tbc_polling.c:453`) and in `tbc_http_callback`
(`telebot_Capi.c:37`). One lock stands for the heap: where the C library gives threads
heaps of their own, nobody waits. Bots that get no SIGINT never stop inside, and their
time in malloc is not told apart. `closing[b][t]` is where thread `t` is in
`telebot_close`: SIGINT comes on any thread that lives, at any moment after the
`sigaction`, and a second one on another thread (it is blocked on the first). The
thread that handles it stands still in its own code, in malloc too, with the lock. The machine keeps one semaphore
name; `sem_unlink` takes the name away and leaves the semaphore to those who have it
open; a killed bot leaves a semaphore as it was. `undefined[b]` becomes true when a step
uses what is freed or not set yet, or frees what is in use; `orderly[b]` says that so
far the close was one that the code provides for: a single SIGINT, on `main`, out of
any library call, with the poll at its end when the four seconds are over.

### Unpack and Subscriptions

A JSON value is tagged with its kind, since jansson's accessors answer 0 or NULL for a
value of another kind or none. `unpack_json_message` takes each field from the member the
code takes it from: `date` from the object `from` (hence always 0, `tbc_polling.c:72`),
the chat's `last_name` from its `first_name` (always empty, line 86). An `int` field
keeps the low bits (`AsInt`).

`Subscriptions` takes the five actions of `Delivery`, which `Polling` is proved to
implement, and gives each delivered update to `unpack` and to the handler of its command.
`file` is the words of `suscripciones.txt` and whether the last line is ended. The
handlers run call by call, and the process may die between any two of them (`Die`) and
start again from what the server has not been told to forget. `doDelete` reads the file
into a buffer with no terminator and cuts a line out by a `strcpy` between overlapping
parts: `CutLine` lets a stray word follow the text or take the place of an unended last
word, and lets the words after the line be spoilt. An `/encuesta` whose text has no
question makes the handler copy from NULL: it stays at `fault`, whence only `Die` leads
on, and comes back first in the next life. `lost` collects the ids that a crash inside
the rewriting, or memory, has touched; the properties speak of the others.

## 3. The runs

| Run | Bounds | Shows |
|---|---|---|
| `polling_safety` | 2 parsers, 4 updates, 2 per answer, 3 lives; every fault but the queue | `ConfirmedHandled`: the server only forgets handled updates. `LoanExclusive`: the loan has one user. `DeliveryPromise`, `LoanPromise`: the loop implements `Delivery` and `Loan`. `WaitShortens`: each step of a borrower brings its message nearer, and nobody puts it off. `StopRunsDown`: a stopped poll only goes towards its end |
| `polling_live` | 2 parsers, 2 updates, 1 per answer, 2 lives; lost answers, garbage, no queue | `NoOrphanWait`, `WaitReturns`: each wait has a sender and ends. `EveryUpdateHandled`, `StopEndsPoll` |
| `polling_not_ok` | 1 life, error answers | *violated* `NoOrphanWait` |
| `polling_stop` | 1 life, failing pthread_create | *violated* `StopIsFinal` |
| `notifiers_one` | 1 changing thread, 1 lookup, 3 slots, 2 handlers | `TablePromise`: the table implements `NotifierTable`. `MutexReleased` |
| `notifiers_many` | 2 changing threads, 1 lookup, 3 slots | `MutexHeld`, `SlotsCallable`, `FindsBestMatch` whatever the changes do to each other. `InsideShortens`: a critical section is not drawn out by anyone |
| `notifiers_lost_add` | 2 threads that add, 4 slots | *violated* `AcceptedIsKept` |
| `requests_all` | every call by main and handlers, 2 chunks | `OwnAnswer`, `OwnBody`. `GetUnlessPolled`: a GET is a GET unless the last send on its handle was a poll. `HandleUnshared`: only the duplication may meet main on its handle. `LoanPromise`: the calls keep to `Loan` |
| `requests_after_poll` | handlers send polls | *violated* `GetIsGet` |
| `testbot` | the table of 20 slots, 3 updates of 5 kinds | `Registered`, `NoStranger`, `EcoFollows` |
| `lifecycle` | 2 bots, 2 lives, 2 SIGINTs for one of them | `Isolation`: a semaphore each, unless two bots started at once. `OwnMutex`: whatever an earlier life left, a bot's semaphore is taken only by its own threads. `CleanShutdown`: an orderly close uses nothing that is gone. `LoanPromise`: each bot keeps to `Loan`. `SigintEnds`: a bot that got SIGINT, on any thread, ends, unless `telebot_close` has come over a thread inside malloc or free, or has done something undefined. `DeadlockLasts`: in the first case it waits as long as it lives |
| `subscriptions` | 3 updates of 8 kinds, 3 users, any number of deaths, 3 words for memory to spoil | `NoDuplicates`, `LastWordCounts`, `PollsSubscribers` |

Why the bounds are enough. *Polling:* two parsers are
one at work (there is never a second, as is proved) and one that has sent its offset and
is still ending; two lives make a stale queue meet a new process, and a third one what
two have left; four updates in answers of two give answers that are full, not full and
empty, with offsets between them. *Notifiers:* two slots for events make a table that
is empty, half full and full; two threads are enough for a check that is stale when
used; a third thread looks up. The proofs remove these bounds for what they cover.
In `notifiers_many` there are one handler and two registrations, none of them general or
the default one: that a lookup prefers the specific to the general, and the first to the
last, is carried by `notifiers_one` and by the theorem `BestMatch`.
*Requests:* the program has these three kinds of threads and these two handles; two
chunks make an answer that is not read at once. *TestBot:* its registrations are the
program's own; three updates are a `/starteco`, a `/stopeco` and one more that meets
what they left. *Lifecycle:* the second life (`MaxBoots`) is either another bot beside the
first or the same bot after it was killed with its semaphore taken; two SIGINTs
(`MaxSignals`) are one clean-up beside another. *Subscriptions:* three updates
(`MaxUpdates`) are a change, one that undoes or repeats it, and one that sees the result;
any of them may be handled again after a death, as often as TLC likes. One user's id is
too wide for an `int` and meets another's. `MaxWords` and `Strays` bound what memory may
bring in: a word that is nobody's id and one that is a user's.

Parsers, and threads that change the table, are interchangeable: the safety runs use that
symmetry, and neither invariants nor `Delivery` tell them apart. Liveness runs use none.

Deadlock is not checked where the system may stop: a killed program stays down, a
crashed one takes no step, `main` sleeps for ever when users are silent.

### Fairness

`Polling!Fairness` is weak fairness of the poll thread and of each parser (the
scheduler), and strong fairness of a successful request and a successful thread
creation (neither the network nor the kernel fails for ever). It holds that handlers
return. Nothing is assumed of users, signals, crashes or restarts. `Notifiers` has
weak fairness per thread only: POSIX semaphores need not be fair, and no property
needs them to be. `Lifecycle` has weak fairness of the return from malloc
and free (of a thread that no SIGINT has stopped there), and strong fairness of each thread
in `telebot_close`: the heap's lock is free again and again while others use it, and who
waits for it gets it in the end. It assumes nothing else of main, of the user's calls, of
the poll or of its parsers. `Subscriptions` has no liveness property: that each update is
handled is `EveryUpdateHandled` of `Polling`, for handlers that return.

## 4. What is proved

For every value of the constants that satisfies the modules' assumptions:

| Theorem | States |
|---|---|
| `PollingProofs!Typing` | types, under every fault |
| `PollingProofs!NothingLost` | `ConfirmedHandled`, if the queue can be opened |
| `PollingProofs!OneBorrower` | `LoanExclusive`, if the queue can be opened |
| `PollingProofs!PollingDelivers` | `Polling` implements `Delivery`, if the queue can be opened |
| `NotifiersProofs!Typing`, `MutualExclusion`, `AlwaysCallable` | types, `MutexHeld`, `SlotsCallable`, for any number of threads and slots |
| `NotifiersProofs!BestMatch` | `FindsBestMatch`, for any number of threads, changes and slots |
| `NotifiersProofs!SectionsShorten` | `InsideShortens`, for any number of threads and slots |
| `NotifierTableProofs!OneThreadKeeps` | `AcceptedIsKept`, if one thread changes the table, by adding |
| `NotifierTableProofs!Implements` | `Notifiers` implements `NotifierTable`, if one thread changes the table; any number look up |
| `PollingProofs!PollingLends` | `Polling` implements `Loan`, if the queue can be opened |
| `PollingProofs!NeverOrphaned` | `NoOrphanWait`, if the queue can be opened and no answer is an error |
| `PollingProofs!StopStands` | `StopIsFinal`, if the queue can be opened and threads can be created |
| `PollingProofs!WaitsShorten`, `StopsRunDown` | `WaitShortens`, `StopRunsDown`, under every fault |
| `RequestsProofs!Typing`, `OwnAnswers`, `OwnBodies` | types, `OwnAnswer`, `OwnBody` |
| `RequestsProofs!Unshared`, `GetsAreGets` | `HandleUnshared`, `GetUnlessPolled` |
| `RequestsProofs!CallsKeepLoan` | `Requests` implements `Loan` |
| `RequestsProofs!GetsWithoutPolls` | `GetIsGet`, if no handler sends a poll and `main` sends nothing |
| `LifecycleProofs!TypeCorrect`, `Isolated`, `OwnMutexOnly`, `ClosesCleanly` | types, `Isolation`, `OwnMutex`, `CleanShutdown`, for any number of bots, lives and SIGINTs |
| `LifecycleProofs!BotsKeepLoan` | each bot of `Lifecycle` implements `Loan` |
| `LifecycleProofs!WaitsForItself` | `DeadlockLasts`, for any number of bots, lives and SIGINTs |
| `TestBotProofs!TypeCorrect`, `CommandsRegistered`, `NoCommandAstray`, `DefaultFollows` | types, `Registered`, `NoStranger`, `EcoFollows`, for `main`'s registrations, any updates and any table with room |
| `SubscriptionsProofs!TypeCorrect`, `OnceEach`, `LastWord`, `PollsReach` | types, `NoDuplicates`, `LastWordCounts`, `PollsSubscribers`, for any users, updates, file and number of deaths |

**Polling.** `SafeInv` strengthens the two safety properties with what the hand-over
rests on: the queue is open from msgget to msgctl (`QueueOpen`); it is empty but for
the one message that ends a wait (`QueueUse`), which is why the drain at start-up and
the exclusive loan are both needed; and *everything below an offset has been handled,
wherever the offset is at that moment*: in the URL, in the queue or in an answer
(`OffsetHandled`, `MessageHandled`, `AnswersHandled`, `Progress`). `CursorInv` adds
where the next delivery is to come from, for the refinement: that deliveries are the
next update, neither a later one nor one already delivered in this life. The assumption
`"queue" \notin Faults` is needed: without a queue, parsers run beside the poll.

**The loan.** In `Polling` the refinement follows from `SafeInv`: where the poll is and whether
the queue is empty say whose turn it is (`LoanPlaces`), and there is one parser at most before
its message (`OneActive`). In `Requests` it follows from `Lent`, in `Lifecycle` from
`Threading`: there the wait of the poll and the life of the parser are what is left of the
queue, and the theorem says that the reduction has left enough.

**Notifiers.** `TableInv` is types, `MutexHeld`, `SlotsCallable`, what a thread inside a
call has passed on the way in (`CallOK`) and the order in which a slot's fields are
written (`OrderOK`: a slot gets its handler before its type, and loses its type before
its handler). That order is what makes a slot callable at each moment although the scan
that chose it held no lock. `LookInv` adds what a lookup has found among the slots it has
passed (`Found`): the loop leaves at the first slot with the update's own information and
keeps the last general one, and nobody writes while the lookup holds the semaphore, so that
at the end this is the abstract match (`FoundIsMatch`).

**The table refined.** `ChangeInv` adds what a change rests on when nobody else writes: the
scan has passed only slots that do not fit what it wants, and the one it waits with still
does (`SearchOK`), so that the slot written is the first of the abstract `FreeSlots` or
`Holding`; and how much of its registration is there after each write (`WrittenOK`), so that
the slot is what `Written` promised when the semaphore is given back. A change acts at
`SemWait`, a failed scan where it ends, a lookup at its return; every other step is a stutter.
Two assumptions: `OneMutator`, which the loss in `notifiers_lost_add` shows to be needed, and
`ParsedUpdates`, that the updates looked up have the types `tbc_parser` gives them.

**What the findings need.** Four properties are violated by the code (section 5). For each of
them a theorem says under what condition it does hold, for every bot otherwise: the condition
is then the cause, and a repair that establishes it is enough. `StopStands`: only the two paths
that call `isRunning(1, NULL)` take a stop back. `NeverOrphaned`: only an error answer, or the
loss of the queue, leaves the poll waiting for nobody. `OneThreadKeeps`: with one changing
thread, `KeptInv` holds; what was accepted is in a slot that nobody has chosen, since the scan
found an empty slot and it is empty still when the semaphore comes. `GetsWithoutPolls`: in
`GetInv` the poll's handle is a POST only while a handler's `sendMessage` is at work on it.

**Requests.** `Requests` takes the hand-over to work as it does with a queue: what is proved
of it is therefore true of bots whose queue can be opened, as `OneBorrower` is, and its
steps `StartParser`, `EndParser` and `WaitOffset` rest on that theorem. Without a queue
parsers run beside the poll, on its handle. `RequestInv` is types, `Lent` (the poll is in its wait exactly while a
parser has the handle, or its message is under way), `Prepared` (which options have been
set, by where the thread is) and `Own` (whose chunks an answer has).

`HistoryInv` adds where a POST comes from: a handle that is left a POST was last sent with
by a `sendPoll`, or is in a send now (`Settled`), and the duplicate is as its original was
unless `main` meddled (`Duplicated`). `GetUnlessPolled` then needs no assumption on who
sends what.

**Waits.** `NeverOrphaned` adds to `SafeInv` that no answer in flight is an error
(`NoErrors`): then the only parsers that end without a message are those that have sent it.
The assumption `"notok" \notin Faults` is needed, as `polling_not_ok` shows.

**Lifecycle.** `TypeInv` has, beside the types, which threads a bot has by where `main` is
(`Threading`) and that two threads are never inside the same semaphore, even when two bots
share it (`Exclusion`): without that, its value could pass 1 and not even the types would
hold. `Windows` is what becomes of the name while nobody overlaps: at most one bot is
between its test and its creation, the name is free when it creates, and a semaphore of a
live bot at 0 has a holder. `Ends` is, step by step, what an orderly close may rely on
(`Orderly`): which thread runs it, that the poll has ended when it frees, what is set and
what is freed by then. `HeapStays`: while the thread inside malloc is the one that handles
SIGINT, the lock stays with it, since only it could give it back, and no `telebot_close`
comes to its end, since that takes the lock.

**Subscriptions.** The handler of an update may have run, half or whole, in lives before, so
the file is not a function of what this life has done. `Subscribed` therefore speaks of the
users that are *silent* in the updates between the one this life has come to (`Done`) and
the furthest one ever begun (`reach`): for them the file, or the text that is about to be
written (`Kept`), is right, because an update handled again changes only its author's line.
Where `Done` reaches `reach` everyone is silent, and that is `LastWordCounts`. `CutOut`
says what the cut keeps and that nobody is listed twice, `Effect` that a handler that
returns did what its user said, `Place` what each place in a handler knows; `Copied` that
the polls sent are the lines read.

**testbot.** `TypeInv` counts the slots that calls have chosen (`Chosen`): a slot beyond as
many is free, so that the scan always finds one. `RegisteredInv` follows a registration
statement by statement: `Own` is what `main` has of it as long as nothing runs during it,
`Kept` that a finished one is in a slot that no thread is about to write, whatever event a
`starteco` changes. `AllTame` says of each slot why its handler may be called, except the one
`main` is writing; a lookup finds the semaphore at 1, so that there is none then.
`BeforeEco` and `LateEco` follow the default from `main`'s first registration to the last
`/starteco` or `/stopeco`.

The assumptions are those of the modules: the authors' ids are integers
(`UpdatesAssumption`), the file at first lists nobody twice (`InitialAssumption`), the
table has a slot (in `TestBot`, room for what is registered), and sets of threads are
finite.

**Measures.** Liveness itself is out of the prover's reach, but not what it rests on besides
fairness. `Left` counts the steps of a parser before its message, `Ahead` those of a stopped
poll before its end, `LeftInside` those of a thread before it gives the semaphore back. The
action properties `WaitShortens`, `StopRunsDown` and `InsideShortens` say that each step of the
thread concerned makes its measure smaller and that no step of another one makes it larger, and
are proved for answers and tables of every size. What TLC alone checks is that such a step can
be taken, and is taken in the end, under the fairness of the specification.

**Only model-checked.** Liveness (`EveryUpdateHandled`, `StopEndsPoll`, `WaitReturns`,
`MutexReleased`, `SigintEnds`): the fairness in it is about ENABLED, which the prover does not
handle. Every invariant and action property of the passing runs is proved.
Nothing is proved by induction over data, and no module has a RECURSIVE operator.

## 5. What the runs found

* **An error answer stops the bot** (`polling_not_ok`, `tbc_polling.c:258`). After
  `{"ok": false}` the parser sends no message and the poll waits for ever. With a queue nothing
  else does that (`NeverOrphaned`).
* **A failed thread takes a stop back** (`polling_stop`, `tbc_polling.c:488`). The error
  path calls `isRunning(1, NULL)`, which sets the flag. The comment of `isRunning`
  (`telebot_Capi.c:53`) says the opposite of its code. The same call is made when the
  queue cannot be opened (`tbc_polling.c:438`): the loop then runs without a queue, where
  its `msgrcv` fails at once and unchecked. `WaitReturns` holds there, for the wrong
  reason, and no update is ever handled. Without these two calls a stop is final
  (`StopStands`).
* **Two registrations, one slot** (`notifiers_lost_add`, `events.c:128`). One thread alone never
  loses what it added (`OneThreadKeeps`).
* **A poll leaves the handle a POST** (`requests_after_poll`, `telebot_Capi.c:426`). The
  next `getUpdates` sends the text of the poll, from a frame that has returned. `GetIsGet` is
  true of the bots of `GetsWithoutPolls`; what is true of all is `GetUnlessPolled`.

Seen in the models, without a run of their own:

* `/starteco` while `main` is registering (`testbot.c:499`) sets the type of `main`'s event
  to UPDATE_ANY: the handler of the command that `main` is about to register becomes the
  default one, `addUpdateNotifier` returns 0 and the command is not registered. `Registered`
  and `NoStranger` except exactly these registrations (`struck`).
* A poll registered by its id ends the process (`events.c:291`, `LookCrashes`).
* `main` may use the handle that `tbc_poll` is duplicating (`tbc_polling.c:407`; testbot
  does, at `testbot.c:458`). `HandleUnshared` excepts the duplication, `GetUnlessPolled`
  a duplication that met a send; `OwnAnswer` and `OwnBody` hold all the same.
* Two bots that start at once may take the same semaphore (`telebot_Capi.c:171`,
  `overlap`), and a bot that closes takes the name of whichever bot has it then.
* A SIGINT during `telebot_init`, on another thread than `main`, in a call of curl, beside a
  first one, or while the poll needs more than four seconds: something is used after it is
  freed or before it is set (`undefined`). Over malloc or free, in `main`, the poll or a
  parser, `telebot_close` waits for ever, and so does the `telebot_close` of a second SIGINT
  (`SelfDeadlock`, `telebot_Capi.c:110`): the bot has to be killed by other means.
* A modify or a remove compares an event before it has the semaphore (`events.c:179`) and may
  write the slot of another event that took its place. The slots stay callable
  (`SlotsCallable`) and lookups exact (`FindsBestMatch`), but of a table that is not what the
  callers asked for. With one changing thread it does not happen (`TablePromise`).
* An `/encuesta` without a question ends the process, and every later life (`testbot.c:109`).
* A crash between `testbot.c:409` and `:412` loses the subscriptions; a stray word behind the
  text (`:366`) or a spoilt line (`:404`) adds or loses one; a last line without its newline
  makes the next `/join` and itself one word. The ids so touched are `lost`.
* Two users whose ids agree in their low 32 bits are one (`tbc_polling.c:46`).

## 6. Not modelled, and what is left

Not modelled: the fixed sizes of buffers and of allocations (`tbc_polling.c:97`), the
contents of texts, allocation failures (but for the one in `tbc_http_callback`, which ends
a transfer, and those that end the process), errors of the file system, the return values
computed from answers, jansson and curl beyond what the library uses of them. `testbot`'s
other handlers print and answer; their requests are in `Requests`.

`Delivery` takes a request that the server has not acted on when its process dies to be
lost. `Subscriptions` takes the file to exist: `findSubscripcion` opens it
for reading before any handler creates it, and does not look at what `fopen` returns
(`testbot.c:268`); the repository has one beside testbot.

The map covers the library and the stateful part of `testbot`. Nearly all lines of the
repository are the vendored curl, OpenSSL and jansson, which the modules treat as
libraries; what the models use of them is marked external in the map.

What is left, in the order of its use:

1. `TestBot` for any list of registrations.
2. A second process in `Polling` that shares the queue (`ftok(".", 'p')`,
   `tbc_polling.c:429`).
