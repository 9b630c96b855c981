------------------------------ MODULE Lifecycle ------------------------------
(***************************************************************************)
(* telebot_init, telebot_close and isRunning (lib/telebot_Capi/            *)
(* telebot_Capi.c), for bots that start, close, die and start again on one *)
(* machine.                                                                *)
(*                                                                         *)
(* Every bot names its semaphore "mutex_updateNotifiers": the name is the  *)
(* machine's, and a semaphore stays as a killed bot left it.  SIGINT is    *)
(* handled by telebot_close on a thread of the bot, which stands still     *)
(* until the SIGKILL at the end; SIGINT is blocked on that thread only, so *)
(* that a second one finds another thread.                                 *)
(*                                                                         *)
(* malloc and free hold the lock of the heap.  The C library gives threads *)
(* heaps of their own when it can; one lock stands for the case that they  *)
(* meet in one, which is when somebody waits.                              *)
(*                                                                         *)
(* tbc_poll and its parsers are reduced to when they use curl and the      *)
(* semaphore; Polling.tla and Notifiers.tla have the rest.  What is left   *)
(* of the loan of tbc_poll's handle implements Loan.tla, as Polling does.  *)
(***************************************************************************)
EXTENDS Integers, FiniteSets

CONSTANTS
  Bots,        \* processes, each with a telebot_Capi
  Signalled,   \* the bots that are sent SIGINT
  MaxSignals,  \* bound: SIGINTs in one life
  MaxBoots     \* bound: lives in all

ASSUME SignalledAssumption == Signalled \subseteq Bots
ASSUME LivesAssumption == MaxSignals \in Nat /\ MaxBoots \in Nat

Threads == {"main", "poll", "parser"}
Sems == 1..MaxBoots    \* semaphores by order of creation; 0 is none

VARIABLES
  \* --- the machine
  name,      \* the semaphore "mutex_updateNotifiers" names, or 0
  created,   \* how many semaphores were created
  value,     \* value[s]: the value of semaphore s
  boots,     \* how many lives were begun
  \* --- each bot
  pc,        \* pc[b][t]: where thread t of b is
  closing,   \* closing[b][t]: where t is in telebot_close, or "no"
  heap,      \* heap[b]: the thread of b inside malloc or free, or "free"
  running,   \* static running of isRunning
  known,     \* static bot_info of isRunning is set
  mutex,     \* bot_info.notifiers_info.mutex_updateNotifiers, or 0
  handle,    \* the user's curl handle, in bot_info
  library,   \* curl's global state
  \* --- history
  overlap,   \* two bots were between their test of the name and its creation
  orderly,   \* orderly[b]: so far b closes as it is meant to
  undefined  \* undefined[b]: b did what C or curl leave undefined

machine == <<name, created, value, boots>>
process == <<running, known, mutex, handle, library>>
history == <<overlap, orderly, undefined>>
vars == <<machine, pc, closing, heap, process, history>>

MainPcs == {"down", "arm", "global", "run", "test", "unlink", "create", "easy",
            "polling", "idle", "use", "held"}
PollPcs == {"none", "dup", "test", "transfer", "wait", "exiting", "ended"}
ParserPcs == {"none", "find", "look", "handler"}
Closings == {"no", "stop", "sleep", "unlink", "easy", "global", "kill"}

TypeOK ==
  /\ name \in 0..MaxBoots
  /\ created \in 0..MaxBoots
  /\ value \in [Sems -> {0, 1}]
  /\ boots \in 0..MaxBoots
  /\ pc \in [Bots -> [main : MainPcs, poll : PollPcs, parser : ParserPcs]]
  /\ closing \in [Bots -> [Threads -> Closings]]
  /\ heap \in [Bots -> Threads \cup {"free"}]
  /\ running \in [Bots -> BOOLEAN]
  /\ known \in [Bots -> BOOLEAN]
  /\ mutex \in [Bots -> 0..MaxBoots]
  /\ handle \in [Bots -> {"unset", "live", "freed"}]
  /\ library \in [Bots -> {"unset", "live", "freed"}]
  /\ overlap \in BOOLEAN
  /\ orderly \in [Bots -> BOOLEAN]
  /\ undefined \in [Bots -> BOOLEAN]

Nowhere == [main |-> "down", poll |-> "none", parser |-> "none"]
NotClosing == [t \in Threads |-> "no"]

Init ==
  /\ name = 0 /\ created = 0 /\ boots = 0
  /\ value = [s \in Sems |-> 0]
  /\ pc = [b \in Bots |-> Nowhere]
  /\ closing = [b \in Bots |-> NotClosing]
  /\ heap = [b \in Bots |-> "free"]
  /\ running = [b \in Bots |-> FALSE]
  /\ known = [b \in Bots |-> FALSE]
  /\ mutex = [b \in Bots |-> 0]
  /\ handle = [b \in Bots |-> "unset"]
  /\ library = [b \in Bots |-> "unset"]
  /\ overlap = FALSE
  /\ orderly = [b \in Bots |-> TRUE]
  /\ undefined = [b \in Bots |-> FALSE]

-----------------------------------------------------------------------------
Up(b) == pc[b].main # "down"

\* A thread goes on unless it handles a SIGINT; out of malloc by LeaveHeap.
Goes(b, t) == closing[b][t] = "no" /\ heap[b] # t

MainGoes(b, from, to) ==
  /\ pc[b].main = from /\ Goes(b, "main")
  /\ pc' = [pc EXCEPT ![b].main = to]
  /\ UNCHANGED <<closing, heap>>

PollGoes(b, from, to) ==
  /\ pc[b].poll = from /\ Goes(b, "poll")
  /\ pc' = [pc EXCEPT ![b].poll = to]
  /\ UNCHANGED <<closing, heap>>

ParserGoes(b, from, to) ==
  /\ pc[b].parser = from /\ Goes(b, "parser")
  /\ pc' = [pc EXCEPT ![b].parser = to]
  /\ UNCHANGED <<closing, heap>>

\* What is done now is undefined in C or in curl if it is so.
Undefined(b, so) ==
  /\ undefined' = [undefined EXCEPT ![b] = @ \/ so]
  /\ UNCHANGED <<overlap, orderly>>

\* The process is gone, with all it had; the semaphores are as they were.
Gone(b) ==
  /\ pc' = [pc EXCEPT ![b] = Nowhere]
  /\ closing' = [closing EXCEPT ![b] = NotClosing]
  /\ heap' = [heap EXCEPT ![b] = "free"]
  /\ running' = [running EXCEPT ![b] = FALSE]
  /\ known' = [known EXCEPT ![b] = FALSE]
  /\ mutex' = [mutex EXCEPT ![b] = 0]
  /\ handle' = [handle EXCEPT ![b] = "unset"]
  /\ library' = [library EXCEPT ![b] = "unset"]
  /\ orderly' = [orderly EXCEPT ![b] = TRUE]
  /\ undefined' = [undefined EXCEPT ![b] = FALSE]
  /\ UNCHANGED <<machine, overlap>>

-----------------------------------------------------------------------------
(* telebot_init *)

Boot(b) ==
  /\ boots < MaxBoots
  /\ boots' = boots + 1
  /\ MainGoes(b, "down", "arm")
  /\ UNCHANGED <<name, created, value, process, history>>

\* sigaction(SIGINT, ...), curl_global_init, isRunning(1, &bot_info)
ArmSignal(b) ==
  /\ MainGoes(b, "arm", "global")
  /\ UNCHANGED <<machine, process, history>>

GlobalInit(b) ==
  /\ MainGoes(b, "global", "run")
  /\ library' = [library EXCEPT ![b] = "live"]
  /\ UNCHANGED <<machine, running, known, mutex, handle, history>>

StartRunning(b) ==
  /\ MainGoes(b, "run", "test")
  /\ running' = [running EXCEPT ![b] = TRUE]
  /\ known' = [known EXCEPT ![b] = TRUE]
  /\ UNCHANGED <<machine, mutex, handle, library, history>>

\* sem_open(name, 0): is there one?  Then sem_unlink.  Two bots between this
\* test and their creation overlap.
InWindow(b) == pc[b].main \in {"unlink", "create"}

TestName(b) ==
  /\ MainGoes(b, "test", IF name # 0 THEN "unlink" ELSE "create")
  /\ overlap' = (overlap \/ \E c \in Bots : InWindow(c))
  /\ UNCHANGED <<machine, process, orderly, undefined>>

UnlinkOldMutant(b) ==
  /\ MainGoes(b, "unlink", "create")
  /\ UNCHANGED <<machine, process, history>>

UnlinkOld(b) ==
  /\ MainGoes(b, "unlink", "create")
  /\ name' = 0
  /\ UNCHANGED <<created, value, boots, process, history>>

\* sem_open(name, O_CREAT, 0600, 1): the value counts if there is none.
CreateMutex(b) ==
  /\ MainGoes(b, "create", "easy")
  /\ IF name # 0
     THEN /\ mutex' = [mutex EXCEPT ![b] = name]
          /\ UNCHANGED <<name, created, value>>
     ELSE /\ created < MaxBoots
          /\ created' = created + 1
          /\ name' = created + 1
          /\ value' = [value EXCEPT ![created + 1] = 1]
          /\ mutex' = [mutex EXCEPT ![b] = created + 1]
  /\ UNCHANGED <<boots, running, known, handle, library, history>>

\* curl_easy_init
EasyInit(b) ==
  /\ MainGoes(b, "easy", "polling")
  /\ handle' = [handle EXCEPT ![b] = "live"]
  /\ UNCHANGED <<machine, running, known, mutex, library, history>>

\* tbc_polling_init; when it fails testbot's main returns.
StartPolling(b) ==
  /\ pc[b].main = "polling" /\ Goes(b, "main")
  /\ \/ /\ pc' = [pc EXCEPT ![b].main = "idle", ![b].poll = "dup"]
        /\ UNCHANGED <<machine, closing, heap, process, history>>
     \/ Gone(b)

-----------------------------------------------------------------------------
(* main: the user's calls and registrations *)

UseHandle(b) ==
  /\ MainGoes(b, "idle", "use")
  /\ Undefined(b, handle[b] # "live" \/ library[b] # "live")
  /\ UNCHANGED <<machine, process>>

HandleUsed(b) ==
  /\ MainGoes(b, "use", "idle")
  /\ UNCHANGED <<machine, process, history>>

\* sem_wait and sem_post on the semaphore of bot_info, by anyone.
GiveMutexMutant(b) ==
  /\ value' = [value EXCEPT ![mutex[b]] = @ + 2]
  /\ UNCHANGED <<name, created, boots, process, history>>

TakeMutex(b) ==
  /\ value[mutex[b]] > 0
  /\ value' = [value EXCEPT ![mutex[b]] = @ - 1]
  /\ UNCHANGED <<name, created, boots, process, history>>

GiveMutex(b) ==
  /\ value' = [value EXCEPT ![mutex[b]] = @ + 1]
  /\ UNCHANGED <<name, created, boots, process, history>>

\* A registration; while it waits main is idle.
AddTakes(b) == MainGoes(b, "idle", "held") /\ TakeMutex(b)
AddReturns(b) == MainGoes(b, "held", "idle") /\ GiveMutex(b)

-----------------------------------------------------------------------------
(* tbc_poll and tbc_parser *)

\* curl_easy_duphandle of the user's handle.  When it returns NULL the loop
\* runs with NULL: its requests fail, but it runs, and stops, like any other.
Duplicate(b) ==
  /\ PollGoes(b, "dup", "test")
  /\ Undefined(b, handle[b] # "live" \/ library[b] # "live")
  /\ UNCHANGED <<machine, process>>

\* while(isRunning(0, NULL))
PollTest(b) ==
  /\ PollGoes(b, "test", IF running[b] THEN "transfer" ELSE "exiting")
  /\ UNCHANGED <<machine, process, history>>

\* curl_easy_perform fails, and the loop goes on; or it gives a parser work.
TransferFails(b) ==
  /\ PollGoes(b, "transfer", "test")
  /\ Undefined(b, library[b] # "live")
  /\ UNCHANGED <<machine, process>>

SpawnParser(b) ==
  /\ pc[b].poll = "transfer" /\ Goes(b, "poll")
  /\ pc[b].parser = "none"
  /\ pc' = [pc EXCEPT ![b].poll = "wait", ![b].parser = "find"]
  /\ Undefined(b, library[b] # "live")
  /\ UNCHANGED <<machine, closing, heap, process>>

\* findUpdateHandler and the handler, which uses the poll's handle.
FindTakes(b) == ParserGoes(b, "find", "look") /\ TakeMutex(b)
FindReturns(b) == ParserGoes(b, "look", "handler") /\ GiveMutex(b)

HandlerReturns(b) ==
  /\ ParserGoes(b, "handler", "find") \/ ParserGoes(b, "handler", "none")
  /\ Undefined(b, library[b] # "live")
  /\ UNCHANGED <<machine, process>>

\* The msgrcv that ends when the parser has sent its offset.
PollResumesMutant(b) ==
  /\ PollGoes(b, "wait", "test")
  /\ UNCHANGED <<machine, process, history>>

PollResumes(b) ==
  /\ pc[b].parser = "none"
  /\ PollGoes(b, "wait", "test")
  /\ UNCHANGED <<machine, process, history>>

\* msgctl, curl_easy_cleanup of the poll's handle, pthread_exit
PollExits(b) ==
  /\ PollGoes(b, "exiting", "ended")
  /\ Undefined(b, library[b] # "live")
  /\ UNCHANGED <<machine, process>>

-----------------------------------------------------------------------------
(* malloc and free, which every thread is in now and then: main in the calls of *)
(* telebot_init, in its own code and in curl; tbc_poll in curl and for each     *)
(* answer (tbc_polling.c:453); a parser in jansson, in curl (tbc_http_callback) *)
(* and at its free()s.                                                          *)

Allocates(b, t) ==
  CASE t = "main"   -> pc[b].main \in {"global", "test", "create", "easy",
                                      "polling", "idle", "use"}
    [] t = "poll"   -> pc[b].poll \in {"dup", "transfer", "exiting"}
    [] t = "parser" -> pc[b].parser \in {"find", "handler"}

\* Told apart only where a SIGINT may stop a thread inside.
EnterHeap(b, t) ==
  /\ b \in Signalled
  /\ heap[b] = "free" /\ closing[b][t] = "no" /\ Allocates(b, t)
  /\ heap' = [heap EXCEPT ![b] = t]
  /\ UNCHANGED <<machine, pc, closing, process, history>>

\* A thread that is inside when SIGINT comes stays there: telebot_close runs
\* on top of it and does not return.
LeaveHeapMutant(b) ==
  /\ heap[b] # "free"
  /\ heap' = [heap EXCEPT ![b] = "free"]
  /\ UNCHANGED <<machine, pc, closing, process, history>>

LeaveHeap(b) ==
  /\ heap[b] # "free" /\ closing[b][heap[b]] = "no"
  /\ heap' = [heap EXCEPT ![b] = "free"]
  /\ UNCHANGED <<machine, pc, closing, process, history>>

-----------------------------------------------------------------------------
(* telebot_close, on whichever thread gets the signal *)

Alive(b, t) ==
  CASE t = "main"   -> TRUE
    [] t = "poll"   -> pc[b].poll \notin {"none", "ended"}
    [] t = "parser" -> pc[b].parser # "none"

\* main is set up and in no call of curl.
Quiet == {"idle", "held"}
Closers(b) == {t \in Threads : closing[b][t] # "no"}

\* SIGINT, once it is armed; before, it ends the process like a SIGKILL.
Interrupt(b, t) ==
  /\ b \in Signalled
  /\ pc[b].main \notin {"down", "arm"}
  /\ Alive(b, t)
  /\ closing[b][t] = "no"
  /\ Cardinality(Closers(b)) < MaxSignals
  /\ closing' = [closing EXCEPT ![b][t] = "stop"]
  /\ orderly' = [orderly EXCEPT ![b] =
                   @ /\ t = "main" /\ pc[b].main \in Quiet /\ Closers(b) = {}]
  /\ UNCHANGED <<machine, pc, heap, process, overlap, undefined>>

CloserGoes(b, t, from, to) ==
  /\ closing[b][t] = from
  /\ closing' = [closing EXCEPT ![b][t] = to]
  /\ UNCHANGED <<pc, heap>>

\* isRunning(2, &bot_info), with bot_info uninitialised.
Stop(b, t) ==
  /\ CloserGoes(b, t, "stop", "sleep")
  /\ running' = [running EXCEPT ![b] = FALSE]
  /\ UNCHANGED <<machine, known, mutex, handle, library, history>>

\* sleep(4): the poll has come to its end by then, or it has not.
PollAtWork(b) == pc[b].poll \notin {"none", "ended"}

SleepEndsMutant(b, t) ==
  /\ ~PollAtWork(b)
  /\ CloserGoes(b, t, "sleep", "unlink")
  /\ UNCHANGED <<machine, process, history>>

SleepEnds(b, t) ==
  /\ CloserGoes(b, t, "sleep", "unlink")
  /\ orderly' = [orderly EXCEPT ![b] = @ /\ ~PollAtWork(b)]
  /\ UNCHANGED <<machine, process, overlap, undefined>>

\* sem_unlink: the name goes, whosoever it is; the semaphore stays with those
\* who have it open.
Unlink(b, t) ==
  /\ CloserGoes(b, t, "unlink", "easy")
  /\ name' = 0
  /\ UNCHANGED <<created, value, boots, process, history>>

\* Both clean-ups free (and over TLS allocate): they wait for the heap's lock.
EasyCleanup(b, t) ==
  /\ heap[b] = "free"
  /\ CloserGoes(b, t, "easy", "global")
  /\ Undefined(b, \/ ~known[b] \/ handle[b] # "live" \/ library[b] # "live"
                  \/ pc[b].main = "use" \/ pc[b].poll = "dup")
  /\ handle' = [handle EXCEPT ![b] = "freed"]
  /\ UNCHANGED <<machine, running, known, mutex, library>>

GlobalCleanup(b, t) ==
  /\ heap[b] = "free"
  /\ CloserGoes(b, t, "global", "kill")
  /\ Undefined(b, \/ pc[b].main = "use"
                  \/ pc[b].poll \in {"dup", "transfer", "exiting"}
                  \/ pc[b].parser = "handler")
  /\ library' = [library EXCEPT ![b] = "freed"]
  /\ UNCHANGED <<machine, running, known, mutex, handle>>

\* kill(pid, SIGKILL)
KillItself(b, t) == closing[b][t] = "kill" /\ Gone(b)

\* Anything else that ends the process: SIGKILL, a crash, a NULL from malloc
\* (tbc_polling.c:453).
Die(b) == Up(b) /\ Gone(b)

-----------------------------------------------------------------------------
MainStep(b) ==
  \/ ArmSignal(b) \/ GlobalInit(b) \/ StartRunning(b)
  \/ TestName(b) \/ UnlinkOld(b) \/ CreateMutex(b)
  \/ EasyInit(b) \/ StartPolling(b)
  \/ UseHandle(b) \/ HandleUsed(b) \/ AddTakes(b) \/ AddReturns(b)

PollStep(b) ==
  \/ Duplicate(b) \/ PollTest(b) \/ TransferFails(b) \/ SpawnParser(b)
  \/ PollResumes(b) \/ PollExits(b)

ParserStep(b) == FindTakes(b) \/ FindReturns(b) \/ HandlerReturns(b)

CloseStep(b, t) ==
  \/ Stop(b, t) \/ SleepEnds(b, t) \/ Unlink(b, t)
  \/ EasyCleanup(b, t) \/ GlobalCleanup(b, t) \/ KillItself(b, t)

Next ==
  \E b \in Bots :
    \/ Boot(b) \/ Die(b)
    \/ MainStep(b) \/ PollStep(b) \/ ParserStep(b) \/ LeaveHeap(b)
    \/ \E t \in Threads : EnterHeap(b, t) \/ Interrupt(b, t) \/ CloseStep(b, t)

Spec == Init /\ [][Next]_vars

\* malloc and free return, telebot_close is scheduled, and who waits for the
\* heap's lock, free again and again, gets it in the end.
Fairness ==
  \A b \in Signalled :
    /\ WF_vars(LeaveHeap(b))
    /\ \A t \in Threads : SF_vars(CloseStep(b, t))

FairSpec == Spec /\ Fairness

-----------------------------------------------------------------------------
(* Properties *)

\* Bots have a semaphore each, unless two of them started at once: the second
\* sem_open with O_CREAT then takes the first one's (telebot_Capi.c:174).
Isolation ==
  \A b, c \in Bots :
    b # c /\ mutex[b] # 0 /\ mutex[b] = mutex[c] => overlap

\* telebot_Capi.c:170, "para que no haya bloqueos donde no debe": whatever an
\* earlier life left, a bot's semaphore is taken only while one of its own
\* threads is between sem_wait and sem_post.
Holders(b) == {t \in {"main", "parser"} : pc[b][t] \in {"held", "look"}}

OwnMutex ==
  \A b \in Bots :
    mutex[b] # 0 /\ ~overlap =>
      /\ value[mutex[b]] = 0 <=> Holders(b) # {}
      /\ \A t, u \in Holders(b) : t = u

\* A bot that gets one SIGINT, on main, once it is set up and main is in no
\* call of the library, and whose poll comes to its end in the four seconds,
\* closes without use of what is not there any more or not there yet.
CleanShutdown == \A b \in Bots : undefined[b] => ~orderly[b]

\* Who has the handle of tbc_poll, and who is in curl with it.
Holder(b) ==
  CASE pc[b].poll \in {"none", "ended"} -> "nobody"
    [] pc[b].poll = "wait" -> IF pc[b].parser = "none" THEN "sent" ELSE "parser"
    [] OTHER               -> "poll"

Using(b) ==
  CASE pc[b].poll \in {"transfer", "exiting"} -> "poll"
    [] pc[b].parser = "handler"              -> "parser"
    [] OTHER                                 -> "nobody"

\* Whenever a bot is stopped, and on whichever of its threads: tbc_poll and its
\* parser have kept to the loan that Polling.tla implements, so that it is one
\* thread of the two that telebot_close may find in curl.
Lending(b) == INSTANCE Loan WITH holder <- Holder(b), using <- Using(b)
LoanPromise ==
  /\ \A b \in Bots : Lending(b)!Init
  /\ [][\A b \in Bots : Lending(b)!Next \/ UNCHANGED Lending(b)!vars]_vars

\* telebot_close came over a thread inside malloc or free, and no other
\* telebot_close is past its clean-up: whoever runs it waits for the heap's lock,
\* whose holder does not go on before telebot_close returns.
SelfDeadlock(b) ==
  /\ \E t \in Threads : heap[b] = t /\ closing[b][t] # "no"
  /\ \A t \in Threads : closing[b][t] # "kill"

\* A bot that was sent SIGINT, on whichever thread, ends: unless telebot_close
\* waits so for itself (telebot_Capi.c:110), or has freed what is in use or not
\* there, after which C promises nothing.
SigintEnds ==
  \A b \in Signalled :
    Closers(b) # {} ~> ~Up(b) \/ SelfDeadlock(b) \/ undefined[b]

\* The exception is no loophole: a bot that waits for itself does so for as long
\* as it lives, and another SIGINT, on another thread, does not help it.
DeadlockLasts ==
  [][\A b \in Bots : SelfDeadlock(b) => SelfDeadlock(b)' \/ ~Up(b)']_vars

=============================================================================
