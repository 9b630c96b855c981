------------------------------ MODULE Polling -------------------------------
(***************************************************************************)
(* lib/telebot_Capi/tbc_polling.c: the long-polling loop.                  *)
(*                                                                         *)
(* One thread, tbc_poll, asks the server for updates and gives each answer *)
(* to a new detached thread, tbc_parser, which runs the user's handlers    *)
(* and then reports the next offset through a System V message queue.      *)
(* tbc_poll blocks on that queue before it asks again.  The queue belongs  *)
(* to the kernel: it outlives the process, which can die at any moment and *)
(* be started again.  The server (outside src/) forgets the updates below  *)
(* the offset of a request and answers with those it still holds.          *)
(*                                                                         *)
(* Update ids are 1, 2, 3, ...; an offset or a queue message of 0 is the   *)
(* text "0".                                                               *)
(***************************************************************************)
EXTENDS Integers, Sequences, FiniteSets

CONSTANTS
  Parsers,    \* identities for the tbc_parser threads alive at the same time
  MaxUpdate,  \* bound: the server never holds an update above this id
  Limit,      \* the most updates one answer of getUpdates carries
  MaxBoots,   \* bound: how many times the process is started
  Faults      \* what may go wrong in this instance

FaultKinds ==
  {"http",     \* curl_easy_perform fails, before or after the server acted
   "notok",    \* the server answers {"ok": false, ...}
   "garbage",  \* the answer is not JSON
   "create",   \* pthread_create fails
   "queue"}    \* msgget cannot create the queue

ASSUME ParsersAssumption == IsFiniteSet(Parsers)
ASSUME BoundsAssumption ==
  MaxUpdate \in Nat /\ Limit \in Nat \ {0} /\ MaxBoots \in Nat
ASSUME FaultsAssumption == Faults \subseteq FaultKinds

VARIABLES
  \* --- the server
  arrived,      \* updates 1..arrived have been sent to the bot
  confirmed,    \* updates 1..confirmed have been forgotten
  \* --- the kernel
  exists,       \* the queue of key ftok(".", 'p') exists
  queue,        \* its messages, oldest first
  \* --- the process
  running,      \* static int running of isRunning()
  pollPc,       \* where tbc_poll is; "down" when there is no process
  msgqueue_id,  \* tbc_poll's local: the result of its msgget
  msq_buffer,   \* tbc_poll's local: the text last received, or what was there
  offset,       \* the offset in tbc_poll's fullurl
  resp,         \* resp_info: the answer on its way to a parser
  ppc,          \* ppc[p]: where parser p is
  batch,        \* batch[p]: the answer parser p works on
  update_id,    \* update_id[p]: the last update parser p has taken up
  \* --- history
  boots,        \* how many times the process was started
  handled,      \* updates whose handler has returned, in any life
  cursor        \* the last update given to a handler in this life, or 0

server  == <<arrived, confirmed>>
kernel  == <<exists, queue>>
pollVars == <<pollPc, msgqueue_id, msq_buffer, offset, resp>>
parserVars == <<ppc, batch, update_id>>
history == <<boots, handled, cursor>>
vars == <<server, kernel, running, pollVars, parserVars, history>>

-----------------------------------------------------------------------------
(* Helpers and types *)

Larger(a, b)  == IF a > b THEN a ELSE b
Smaller(a, b) == IF a < b THEN a ELSE b

Offsets == 0..(MaxUpdate + 1)

\* An answer holds the updates first..last; "notok" and "garbage" hold none.
Answer(kind, first, last) == [kind |-> kind, first |-> first, last |-> last]
NoAnswer == Answer("none", 1, 0)
Answers == [kind : {"none", "ok", "notok", "garbage"},
            first : 1..(MaxUpdate + 1), last : 0..MaxUpdate]

PollPcs == {"down", "open", "drain", "test", "request", "spawn", "wait",
            "exiting", "exited"}
ParserPcs == {"idle", "open", "parse", "loop", "handle", "free"}

TypeOK ==
  /\ arrived \in 0..MaxUpdate /\ confirmed \in 0..MaxUpdate
  /\ exists \in BOOLEAN /\ queue \in Seq(Offsets)
  /\ running \in BOOLEAN
  /\ pollPc \in PollPcs
  /\ msgqueue_id \in {"unset", "ok", "error"}
  /\ msq_buffer \in Offsets
  /\ offset \in Offsets
  /\ resp \in Answers
  /\ ppc \in [Parsers -> ParserPcs]
  /\ batch \in [Parsers -> Answers]
  /\ update_id \in [Parsers -> 0..MaxUpdate]
  /\ boots \in 0..MaxBoots
  /\ handled \subseteq 1..MaxUpdate
  /\ cursor \in 0..MaxUpdate

Init ==
  /\ arrived = 0 /\ confirmed = 0
  /\ exists = FALSE /\ queue = <<>>
  /\ running = FALSE /\ pollPc = "down"
  /\ msgqueue_id = "unset" /\ msq_buffer = 0 /\ offset = 0 /\ resp = NoAnswer
  /\ ppc = [p \in Parsers |-> "idle"]
  /\ batch = [p \in Parsers |-> NoAnswer]
  /\ update_id = [p \in Parsers |-> 0]
  /\ boots = 0 /\ handled = {} /\ cursor = 0

-----------------------------------------------------------------------------
(* The environment *)

\* A user writes to the bot.
Arrive ==
  /\ arrived < MaxUpdate
  /\ arrived' = arrived + 1
  /\ UNCHANGED <<confirmed, kernel, running, pollVars, parserVars, history>>

\* The program is started: telebot_init sets running, then tbc_polling_init
\* creates the tbc_poll thread.  The locals of tbc_poll that it does not
\* initialise hold whatever the stack held.
Boot ==
  /\ pollPc = "down"
  /\ boots < MaxBoots
  /\ boots' = boots + 1
  /\ running' = TRUE
  /\ pollPc' = "open"
  /\ msq_buffer' \in Offsets
  /\ UNCHANGED <<server, kernel, msgqueue_id, offset, resp, parserVars,
                 handled, cursor>>

\* telebot_close raises the stop: isRunning(2, ...).
Close ==
  /\ pollPc # "down"
  /\ running' = FALSE
  /\ UNCHANGED <<server, kernel, pollVars, parserVars, history>>

\* The process dies: the SIGKILL that ends telebot_close, or a crash.  Its
\* memory and its threads are gone; the queue and the server remain.
Kill ==
  /\ pollPc # "down"
  /\ running' = FALSE /\ pollPc' = "down"
  /\ msgqueue_id' = "unset" /\ msq_buffer' = 0 /\ offset' = 0
  /\ resp' = NoAnswer
  /\ ppc' = [p \in Parsers |-> "idle"]
  /\ batch' = [p \in Parsers |-> NoAnswer]
  /\ update_id' = [p \in Parsers |-> 0]
  /\ cursor' = 0
  /\ UNCHANGED <<server, kernel, boots, handled>>

-----------------------------------------------------------------------------
(* tbc_poll *)

\* msgget(clave, IPC_CREAT|0660).  When it fails the code calls
\* isRunning(1, NULL), which sets running, and goes on to the loop.
OpenQueueFails ==
  /\ "queue" \in Faults
  /\ ~exists
  /\ msgqueue_id' = "error"
  /\ running' = TRUE
  /\ pollPc' = "test"
  /\ UNCHANGED exists

OpenQueue ==
  /\ pollPc = "open"
  /\ \/ /\ exists' = TRUE
        /\ msgqueue_id' = "ok"
        /\ pollPc' = "drain"
        /\ UNCHANGED running
     \/ OpenQueueFails
  /\ UNCHANGED <<server, queue, msq_buffer, offset, resp, parserVars, history>>

\* Empty the queue of what an earlier life left there (IPC_NOWAIT).
DrainMutant ==
  /\ pollPc = "drain"
  /\ pollPc' = "test"
  /\ UNCHANGED <<server, kernel, running, msgqueue_id, msq_buffer, offset,
                 resp, parserVars, history>>

Drain ==
  /\ pollPc = "drain"
  /\ \/ /\ queue # <<>>
        /\ msq_buffer' = Head(queue)
        /\ queue' = Tail(queue)
        /\ UNCHANGED pollPc
     \/ /\ queue = <<>>
        /\ pollPc' = "test"
        /\ UNCHANGED <<queue, msq_buffer>>
  /\ UNCHANGED <<server, exists, running, msgqueue_id, offset, resp,
                 parserVars, history>>

\* while(isRunning(0, NULL))
TestRunningMutant ==
  /\ pollPc = "test"
  /\ pollPc' = "request"
  /\ UNCHANGED <<server, kernel, running, msgqueue_id, msq_buffer, offset,
                 resp, parserVars, history>>

TestRunning ==
  /\ pollPc = "test"
  /\ pollPc' = IF running THEN "request" ELSE "exiting"
  /\ UNCHANGED <<server, kernel, running, msgqueue_id, msq_buffer, offset,
                 resp, parserVars, history>>

\* What the server does with getUpdates?offset=offset (external): updates
\* below the offset are forgotten, the answer holds the oldest ones left.
Forget ==
  confirmed' = Larger(confirmed, Smaller(arrived, offset - 1))

UpdatesLeft ==
  Answer("ok", confirmed' + 1, Smaller(arrived, confirmed' + Limit))

\* curl_easy_perform returns CURLE_OK: the answer goes to a parser, be it a
\* list of updates, an error object or something that is not JSON.
Answered(answer) ==
  /\ pollPc = "request"
  /\ resp' = answer
  /\ pollPc' = "spawn"
  /\ UNCHANGED <<arrived, kernel, running, msgqueue_id, msq_buffer, offset,
                 parserVars, history>>

RequestOk ==
  /\ Forget
  /\ Answered(UpdatesLeft)

RequestNotOk ==
  /\ "notok" \in Faults
  /\ UNCHANGED confirmed
  /\ Answered(Answer("notok", 1, 0))

RequestGarbage ==
  /\ "garbage" \in Faults
  /\ UNCHANGED confirmed
  /\ Answered(Answer("garbage", 1, 0))

\* curl_easy_perform fails, before the server acted or after it did (the
\* answer is lost, or tbc_http_callback has no memory for it): try again.
RequestFails ==
  /\ pollPc = "request"
  /\ "http" \in Faults
  /\ Forget \/ UNCHANGED confirmed
  /\ pollPc' = "test"
  /\ UNCHANGED <<arrived, kernel, running, msgqueue_id, msq_buffer, offset,
                 resp, parserVars, history>>

\* pthread_create(&thread, &attr, tbc_parser, resp_info)
Spawn ==
  /\ pollPc = "spawn"
  /\ \E p \in Parsers :
       /\ ppc[p] = "idle"
       /\ ppc' = [ppc EXCEPT ![p] = "open"]
       /\ batch' = [batch EXCEPT ![p] = resp]
       /\ update_id' = [update_id EXCEPT ![p] = 0]
  /\ resp' = NoAnswer
  /\ pollPc' = "wait"
  /\ UNCHANGED <<server, kernel, running, msgqueue_id, msq_buffer, offset,
                 history>>

\* No thread: the answer is dropped and isRunning(1, NULL) sets running.
SpawnFails ==
  /\ pollPc = "spawn"
  /\ "create" \in Faults
  /\ running' = TRUE
  /\ resp' = NoAnswer
  /\ pollPc' = "test"
  /\ UNCHANGED <<server, kernel, msgqueue_id, msq_buffer, offset, parserVars,
                 history>>

\* msgrcv(msgqueue_id, ...) blocks until there is a message; on an invalid
\* queue it fails at once and msq_buffer keeps its old text.  Either way the
\* text becomes the offset of the next request unless it starts with '0'.
Receive ==
  IF msgqueue_id = "ok"
  THEN /\ queue # <<>>
       /\ msq_buffer' = Head(queue)
       /\ queue' = Tail(queue)
  ELSE UNCHANGED <<msq_buffer, queue>>

WaitOffset ==
  /\ pollPc = "wait"
  /\ Receive
  /\ offset' = IF msq_buffer' # 0 THEN msq_buffer' ELSE offset
  /\ pollPc' = "test"
  /\ UNCHANGED <<server, exists, running, msgqueue_id, resp, parserVars,
                 history>>

\* The loop is over: msgctl(msgqueue_id, IPC_RMID), curl_easy_cleanup.
PollExit ==
  /\ pollPc = "exiting"
  /\ IF msgqueue_id = "ok"
     THEN exists' = FALSE /\ queue' = <<>>
     ELSE UNCHANGED kernel
  /\ pollPc' = "exited"
  /\ UNCHANGED <<server, running, msgqueue_id, msq_buffer, offset, resp,
                 parserVars, history>>

-----------------------------------------------------------------------------
(* tbc_parser *)

ParserStep(p, from, to) ==
  /\ ppc[p] = from
  /\ ppc' = [ppc EXCEPT ![p] = to]
  /\ UNCHANGED <<server, running, pollVars, boots>>

\* msgget(clave, 0660): without the queue the parser ends and says nothing.
ParserOpen(p) ==
  /\ ParserStep(p, "open", IF exists THEN "parse" ELSE "free")
  /\ UNCHANGED <<kernel, batch, update_id, handled, cursor>>

\* json_loads and the test of "ok".  A false "ok" skips the loop and the
\* msgsnd; a text that is not JSON is treated as an empty list.
ParserCheck(p) ==
  /\ ParserStep(p, "parse", IF batch[p].kind = "notok" THEN "free" ELSE "loop")
  /\ UNCHANGED <<kernel, batch, update_id, handled, cursor>>

\* The update this round of the for loop takes up.
NextUpdateMutant(p) ==
  IF update_id[p] = 0 THEN batch[p].first ELSE update_id[p]

NextUpdate(p) ==
  IF update_id[p] = 0 THEN batch[p].first ELSE update_id[p] + 1

\* findUpdateHandler and the call of the handler it returns.
Dispatch(p) ==
  /\ NextUpdate(p) <= batch[p].last
  /\ ParserStep(p, "loop", "handle")
  /\ update_id' = [update_id EXCEPT ![p] = NextUpdate(p)]
  /\ cursor' = NextUpdate(p)
  /\ UNCHANGED <<kernel, batch, handled>>

HandlerReturns(p) ==
  /\ ParserStep(p, "handle", "loop")
  /\ handled' = handled \union {update_id[p]}
  /\ UNCHANGED <<kernel, batch, update_id, cursor>>

\* The text sent to tbc_poll: what follows the last update, or 0 for none.
NextOffsetSameMutant(p) == update_id[p]

NextOffsetSkipMutant(p) == IF update_id[p] # 0 THEN update_id[p] + 2 ELSE 0

NextOffset(p) == IF update_id[p] # 0 THEN update_id[p] + 1 ELSE 0

\* The loop is over: msgsnd.
SendOffsetEarlyMutant(p) ==
  /\ ParserStep(p, "loop", IF NextUpdate(p) > batch[p].last THEN "free"
                           ELSE "loop")
  /\ queue' = Append(queue, IF batch[p].last >= batch[p].first
                            THEN batch[p].last + 1 ELSE 0)
  /\ UNCHANGED <<exists, batch, update_id, handled, cursor>>

SendOffsetOnlyIfAnyMutant(p) ==
  /\ NextUpdate(p) > batch[p].last
  /\ ParserStep(p, "loop", "free")
  /\ queue' = IF exists /\ update_id[p] # 0 THEN Append(queue, NextOffset(p))
              ELSE queue
  /\ UNCHANGED <<exists, batch, update_id, handled, cursor>>

SendOffset(p) ==
  /\ NextUpdate(p) > batch[p].last
  /\ ParserStep(p, "loop", "free")
  /\ queue' = IF exists THEN Append(queue, NextOffset(p)) ELSE queue
  /\ UNCHANGED <<exists, batch, update_id, handled, cursor>>

\* free(info); pthread_exit(NULL)
ParserExit(p) ==
  /\ ParserStep(p, "free", "idle")
  /\ batch' = [batch EXCEPT ![p] = NoAnswer]
  /\ update_id' = [update_id EXCEPT ![p] = 0]
  /\ UNCHANGED <<kernel, handled, cursor>>

-----------------------------------------------------------------------------
Poll ==
  \/ OpenQueue \/ Drain \/ TestRunning
  \/ RequestOk \/ RequestNotOk \/ RequestGarbage \/ RequestFails
  \/ Spawn \/ SpawnFails
  \/ WaitOffset \/ PollExit

Parse(p) ==
  \/ ParserOpen(p) \/ ParserCheck(p)
  \/ Dispatch(p) \/ HandlerReturns(p)
  \/ SendOffset(p) \/ ParserExit(p)

Next ==
  \/ Arrive \/ Boot \/ Close \/ Kill
  \/ Poll
  \/ \E p \in Parsers : Parse(p)

Spec == Init /\ [][Next]_vars

\* The threads are scheduled (weak fairness), handlers return, and neither
\* the network nor pthread_create fails for ever (strong fairness).  Nothing
\* is assumed of users, of signals, of crashes or of restarts.
Fairness ==
  /\ WF_vars(Poll)
  /\ \A p \in Parsers : WF_vars(Parse(p))
  /\ SF_vars(RequestOk)
  /\ SF_vars(Spawn)

FairSpec == Spec /\ Fairness

-----------------------------------------------------------------------------
(* Safety *)

\* The server only forgets updates whose handler has returned: a crash at
\* any point, a lost answer or a stale queue never costs an update.
ConfirmedHandled == 1..confirmed \subseteq handled

\* Parsers that hold what tbc_poll lent them: its curl handle and poll_info,
\* which is on its stack (tbc_polling.c:271, 400, 461).
Borrowers == {p \in Parsers : ppc[p] \in {"open", "parse", "loop", "handle"}}

\* The loan is exclusive: while a parser has it tbc_poll is blocked in its
\* msgrcv, so that it neither uses the handle nor leaves its stack, and there
\* is no second borrower.
LoanExclusive ==
  /\ Borrowers # {} => pollPc = "wait"
  /\ \A p, q \in Borrowers : p = q

\* tbc_poll is never left waiting for an offset nobody is going to send
\* (tbc_polling.c:492, "Esperar a que parser indique el offset").
NoOrphanWait ==
  pollPc = "wait" /\ msgqueue_id = "ok" /\ queue = <<>> => Borrowers # {}

\* telebot_Capi.c:96, "Indicamos a todos los hilos que se paren": a stop is
\* not taken back while the process lives.
StopIsFinal == [][running' /\ ~running => pollPc = "down"]_vars

\* Once stopped, tbc_poll only goes towards its end, with one more request at
\* the most, unless the stop is taken back (tbc_polling.c:446).
Ahead == [open |-> 8, drain |-> 7, request |-> 6, spawn |-> 5, wait |-> 4,
          test |-> 3, exiting |-> 2, exited |-> 1, down |-> 0]

StopRunsDown ==
  [][~running /\ ~running' /\ pollPc' # pollPc =>
       Ahead[pollPc'] < Ahead[pollPc]]_vars

\* What a borrower has still to do: two steps for each update that is left, and
\* those before and after its loop.
Left(p) ==
  LET updates == Larger(0, batch[p].last + 1 - NextUpdate(p)) IN
  CASE ppc[p] = "open"   -> 2 * updates + 3
    [] ppc[p] = "parse"  -> 2 * updates + 2
    [] ppc[p] = "handle" -> 2 * updates + 2
    [] ppc[p] = "loop"   -> 2 * updates + 1
    [] OTHER             -> 0

\* A wait for an offset is not drawn out: each step of a borrower leaves it less
\* to do, and no step of anyone else leaves it more (the loop of tbc_parser,
\* tbc_polling.c:279).
WaitShortens ==
  [][\A p \in Borrowers :
       Left(p)' < Left(p) \/ UNCHANGED <<ppc[p], batch[p], update_id[p]>>]_vars
-----------------------------------------------------------------------------
(* Refinement and liveness *)

\* A handler is running.
Active == \E p \in Parsers : ppc[p] = "handle"

\* In every life the updates are handled one at a time, in order, without a
\* gap or a repetition, and only handled ones are forgotten.
Promise == INSTANCE Delivery WITH active <- Active
DeliveryPromise == Promise!Spec

\* Who has tbc_poll's handle: it is sent back with the offset.
Holder == CASE pollPc \in {"down", "exited"} -> "nobody"
            [] pollPc = "wait" -> IF queue # <<>> THEN "sent" ELSE "parser"
            [] OTHER           -> "poll"

\* Who calls curl with it: tbc_poll for a request and for the clean-up, and a
\* handler.
Using == IF pollPc \in {"request", "exiting"} THEN "poll"
         ELSE IF Active THEN "parser" ELSE "nobody"

\* The handle goes from tbc_poll to one parser and back, and is used by who has
\* it, whichever messages an earlier life left and whatever fails
\* (tbc_polling.c:468, 482, 494).
Lending == INSTANCE Loan WITH holder <- Holder, using <- Using
LoanPromise == Lending!Spec

\* An update sent to the bot is handled unless the bot is stopped, dies or
\* has no queue; or unless it was forgotten, which ConfirmedHandled excludes
\* as long as no life was without a queue.
EveryUpdateHandled ==
  \A u \in 1..MaxUpdate :
    u <= arrived ~> \/ u \in handled \/ u <= confirmed
                    \/ ~running \/ msgqueue_id = "error"

\* Once stopped, tbc_poll comes to its end and removes the queue, unless it
\* could not open one and took the stop back.
StopEndsPoll ==
  ~running ~> \/ pollPc \in {"exited", "down"} /\ ~running
              \/ msgqueue_id = "error"

\* A wait for an offset comes to an end, with or without a queue.
WaitReturns == pollPc = "wait" ~> pollPc # "wait"

=============================================================================
