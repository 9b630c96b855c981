------------------------------ MODULE Notifiers -----------------------------
(***************************************************************************)
(* lib/telebot_Capi/events.c: the table of handlers.                       *)
(*                                                                         *)
(* Any thread may add, modify or remove a registration; the parser threads *)
(* look up the handler of each update.  The semaphore                      *)
(* mutex_updateNotifiers guards the lookup and the writes, but the scan    *)
(* that finds the slot to write runs before the semaphore is taken.  The   *)
(* fields of a slot are written one after the other.                       *)
(***************************************************************************)
EXTENDS Integers, FiniteSetsExt

CONSTANTS
  Mutators,           \* threads that add, modify and remove
  Finders,            \* threads that look a handler up (tbc_parser)
  Kinds,              \* which of "add", "modify", "remove" mutators call
  Events,             \* the events they name: [type, info]; the info "" of the
                      \* code is "empty"
  Updates,            \* the updates looked up: [type, key]
  Handles,            \* the user's handlers
  MAX_UPDATE_EVENTS   \* slots of the table, the default one included

Threads == Mutators \union Finders
UpdateTypes == {"UPDATE_UNKNOWN", "UPDATE_NONE", "UPDATE_ANY",
                "UPDATE_MESSAGE", "UPDATE_POLL"}
Infos == {event.info : event \in Events} \union {"empty"}
AllHandles == Handles \union {"ignoreUpdate", "NULL"}

ASSUME ThreadsAssumption == IsFiniteSet(Threads)
ASSUME TableAssumption == MAX_UPDATE_EVENTS \in Nat \ {0}
ASSUME KindsAssumption == Kinds \subseteq {"add", "modify", "remove"}
ASSUME EventsAssumption ==
  /\ Events \subseteq [type : UpdateTypes, info : STRING]
  /\ Updates \subseteq [type : UpdateTypes, key : STRING]
ASSUME HandlesAssumption == Handles \intersect {"ignoreUpdate", "NULL"} = {}

VARIABLES
  notifiers,  \* the table in memory: [type, info, handle] by slot
  mutex,      \* the value of the semaphore mutex_updateNotifiers
  pc,         \* pc[t]: where thread t is
  op,         \* op[t]: the call t makes
  i,          \* i[t]: the loop variable of t
  handle,     \* handle[t]: local of findUpdateHandler
  handle_def, \* handle_def[t]: local of findUpdateHandler
  ret,        \* ret[t]: what the last call of t returned: "ok", "error" or a handler
  crashed     \* the process was killed by a signal

vars == <<notifiers, mutex, pc, op, i, handle, handle_def, ret, crashed>>

AllSlots == 0..(MAX_UPDATE_EVENTS - 1)
Slots    == 1..(MAX_UPDATE_EVENTS - 1)

NoEvent == [type |-> "UPDATE_NONE", info |-> "empty"]
Change(kind, event, new) == [kind |-> kind, event |-> event, new |-> new]
Lookup(update) == [kind |-> "find", update |-> update]
NoCall == Change("none", NoEvent, "NULL")

Changes == [kind : {"none", "add", "modify", "remove"},
            event : Events \union {NoEvent}, new : Handles \union {"NULL"}]
Lookups == [kind : {"find"}, update : Updates]

\* Where a thread holds the semaphore.
Writing  == {"write_handle", "write_type", "write_info", "post"}
Looking  == {"look", "choose"}
Critical == Writing \union Looking
Pcs == {"idle", "scan", "compare", "wait", "find"} \union Critical

TypeOK ==
  /\ notifiers \in [AllSlots -> [type : UpdateTypes, info : Infos,
                                 handle : AllHandles]]
  /\ mutex \in {0, 1}
  /\ pc \in [Threads -> Pcs]
  /\ op \in [Threads -> Changes \union Lookups]
  /\ i \in [Threads -> 0..MAX_UPDATE_EVENTS]
  /\ handle \in [Threads -> AllHandles]
  /\ handle_def \in [Threads -> AllHandles]
  /\ ret \in [Threads -> {"ok", "error"} \union AllHandles]
  /\ crashed \in BOOLEAN

\* telebot_init opens the semaphore at 1; initUpdateNotifiers sets types and
\* handles, and leaves in the infos what the user's bot_info_t held.
Init ==
  /\ \E infos \in [Slots -> Infos] :
       notifiers = [s \in AllSlots |->
         IF s = 0
         THEN [type |-> "UPDATE_ANY", info |-> "empty", handle |-> "ignoreUpdate"]
         ELSE [type |-> "UPDATE_NONE", info |-> infos[s], handle |-> "NULL"]]
  /\ mutex = 1
  /\ pc = [t \in Threads |-> "idle"]
  /\ op = [t \in Threads |-> NoCall]
  /\ i = [t \in Threads |-> 0]
  /\ handle = [t \in Threads |-> "NULL"]
  /\ handle_def = [t \in Threads |-> "NULL"]
  /\ ret = [t \in Threads |-> "ok"]
  /\ crashed = FALSE

-----------------------------------------------------------------------------
Goto(t, from, to) ==
  /\ ~crashed
  /\ pc[t] = from
  /\ pc' = [pc EXCEPT ![t] = to]

Locals == <<i, handle, handle_def>>

\* A call ends: its arguments and its loop variable are forgotten.
Return(t, value) ==
  /\ ret' = [ret EXCEPT ![t] = value]
  /\ op' = [op EXCEPT ![t] = NoCall]
  /\ i' = [i EXCEPT ![t] = 0]

\* A mutator calls addUpdateNotifier, modifyUpdateNotifier or
\* removeUpdateNotifier.  A NULL handler, and UPDATE_NONE except in remove,
\* are refused; UPDATE_ANY is slot 0; any other event is searched for.
RefusedMutant(call) ==
  call.kind # "remove" /\ call.event.type = "UPDATE_NONE"

Refused(call) ==
  call.kind # "remove"
    /\ (call.new = "NULL" \/ call.event.type = "UPDATE_NONE")

CallRefused(t, call) ==
  /\ Refused(call)
  /\ Goto(t, "idle", "idle")
  /\ ret' = [ret EXCEPT ![t] = "error"]
  /\ UNCHANGED <<op, i>>

CallStarts(t, call, slot, next) ==
  /\ ~Refused(call)
  /\ Goto(t, "idle", next)
  /\ op' = [op EXCEPT ![t] = call]
  /\ i' = [i EXCEPT ![t] = slot]
  /\ UNCHANGED ret

Call(t) ==
  /\ \E kind \in Kinds, event \in Events, new \in Handles \union {"NULL"} :
       /\ kind = "remove" => new = "NULL"
       /\ \/ CallRefused(t, Change(kind, event, new))
          \/ /\ event.type = "UPDATE_ANY"
             /\ CallStarts(t, Change(kind, event, new), 0, "wait")
          \/ /\ event.type # "UPDATE_ANY"
             /\ CallStarts(t, Change(kind, event, new), 1, "scan")
  /\ UNCHANGED <<notifiers, mutex, handle, handle_def, crashed>>

\* The loop test, and what the loop reads first of slot i[t]: its type.
\* No semaphore is held.
Wanted(call) ==
  IF call.kind = "add" THEN "UPDATE_NONE" ELSE call.event.type

LoopEndMutant == MAX_UPDATE_EVENTS - 1

LoopEnd == MAX_UPDATE_EVENTS

ScanFailsMutant(t) ==
  /\ Goto(t, "scan", "idle")
  /\ i[t] = LoopEnd
  /\ mutex' = mutex + 1
  /\ Return(t, "error")

ScanFails(t) ==
  /\ Goto(t, "scan", "idle")
  /\ i[t] = LoopEnd
  /\ Return(t, "error")
  /\ UNCHANGED mutex

ScanGoesOn(t) ==
  /\ Goto(t, "scan", "scan")
  /\ i[t] < LoopEnd
  /\ notifiers[i[t]].type # Wanted(op[t])
  /\ i' = [i EXCEPT ![t] = @ + 1]
  /\ UNCHANGED <<mutex, op, ret>>

ScanFinds(t) ==
  /\ Goto(t, "scan", IF op[t].kind = "add" THEN "wait" ELSE "compare")
  /\ i[t] < LoopEnd
  /\ notifiers[i[t]].type = Wanted(op[t])
  /\ UNCHANGED <<mutex, op, i, ret>>

Scan(t) ==
  /\ ScanFails(t) \/ ScanGoesOn(t) \/ ScanFinds(t)
  /\ UNCHANGED <<notifiers, handle, handle_def, crashed>>

\* The second half of compareEvents: strcmp of the infos.  While another
\* thread is copying an info into the slot, it may say anything.
Copying(slot) == \E t \in Mutators : pc[t] = "write_info" /\ i[t] = slot

Compare(t) ==
  /\ \/ /\ Goto(t, "compare", "wait")
        /\ notifiers[i[t]].info = op[t].event.info \/ Copying(i[t])
        /\ UNCHANGED i
     \/ /\ Goto(t, "compare", "scan")
        /\ notifiers[i[t]].info # op[t].event.info \/ Copying(i[t])
        /\ i' = [i EXCEPT ![t] = @ + 1]
  /\ UNCHANGED <<notifiers, mutex, op, handle, handle_def, ret, crashed>>

\* sem_wait(mutex_updateNotifiers)
SemWaitMutant(t) ==
  /\ Goto(t, "wait", IF op[t].kind = "remove" /\ i[t] # 0 THEN "write_type"
                     ELSE "write_handle")
  /\ UNCHANGED <<notifiers, mutex, op, Locals, ret, crashed>>

SemWait(t) ==
  /\ mutex > 0
  /\ mutex' = mutex - 1
  /\ Goto(t, "wait", IF op[t].kind = "remove" /\ i[t] # 0 THEN "write_type"
                     ELSE "write_handle")
  /\ UNCHANGED <<notifiers, op, Locals, ret, crashed>>

\* notifiers[i].handle = handle; a removed default goes back to ignoreUpdate.
NewHandle(call, slot) ==
  IF call.kind = "remove" /\ slot = 0 THEN "ignoreUpdate" ELSE call.new

WriteHandleMutant(t) ==
  /\ Goto(t, "write_handle", IF op[t].kind # "modify" /\ i[t] # 0
                             THEN "write_type" ELSE "post")
  /\ notifiers' = [notifiers EXCEPT ![i[t]].handle = NewHandle(op[t], i[t])]
  /\ UNCHANGED <<mutex, op, Locals, ret, crashed>>

WriteHandle(t) ==
  /\ Goto(t, "write_handle", IF op[t].kind = "add" /\ i[t] # 0
                             THEN "write_type" ELSE "post")
  /\ notifiers' = [notifiers EXCEPT ![i[t]].handle = NewHandle(op[t], i[t])]
  /\ UNCHANGED <<mutex, op, Locals, ret, crashed>>

\* dst->update_type = org->update_type in copyEvent, or UPDATE_NONE in remove.
WriteType(t) ==
  /\ Goto(t, "write_type", IF op[t].kind = "add" THEN "write_info"
                           ELSE "write_handle")
  /\ notifiers' = [notifiers EXCEPT ![i[t]].type =
                     IF op[t].kind = "add" THEN op[t].event.type
                     ELSE "UPDATE_NONE"]
  /\ UNCHANGED <<mutex, op, Locals, ret, crashed>>

\* strcpy(dst->info, org->info) in copyEvent.
WriteInfo(t) ==
  /\ Goto(t, "write_info", "post")
  /\ notifiers' = [notifiers EXCEPT ![i[t]].info = op[t].event.info]
  /\ UNCHANGED <<mutex, op, Locals, ret, crashed>>

\* sem_post(mutex_updateNotifiers), and the call returns 0.
SemPost(t) ==
  /\ Goto(t, "post", "idle")
  /\ mutex' = mutex + 1
  /\ Return(t, "ok")
  /\ UNCHANGED <<notifiers, handle, handle_def, crashed>>

-----------------------------------------------------------------------------
(* findUpdateHandler *)

CallFind(t) ==
  /\ Goto(t, "idle", "find")
  /\ \E update \in Updates : op' = [op EXCEPT ![t] = Lookup(update)]
  /\ UNCHANGED <<notifiers, mutex, Locals, ret, crashed>>

FindWaitMutant(t) ==
  /\ mutex > 0
  /\ Goto(t, "find", "look")
  /\ i' = [i EXCEPT ![t] = 1]
  /\ UNCHANGED <<notifiers, mutex, op, handle, handle_def, ret, crashed>>

FindWait(t) ==
  /\ mutex > 0
  /\ mutex' = mutex - 1
  /\ Goto(t, "find", "look")
  /\ i' = [i EXCEPT ![t] = 1]
  /\ UNCHANGED <<notifiers, op, handle, handle_def, ret, crashed>>

\* One round of the loop.  A poll registered by its id is formatted into a
\* NULL buffer: sprintf kills the process.
Relevant(slot, update) ==
  /\ slot.type = update.type
  /\ update.type \in {"UPDATE_MESSAGE", "UPDATE_POLL"}

LoopGoesOn(t) == i[t] < LoopEnd /\ handle[t] = "NULL"

Look(t) ==
  LET slot == notifiers[i[t]]
      update == op[t].update
  IN  /\ Goto(t, "look", "look")
      /\ LoopGoesOn(t)
      /\ i' = [i EXCEPT ![t] = @ + 1]
      /\ ~(Relevant(slot, update) /\ slot.info # "empty" /\ slot.type = "UPDATE_POLL")
      /\ IF Relevant(slot, update) /\ slot.info # "empty" /\ slot.info = update.key
         THEN handle' = [handle EXCEPT ![t] = slot.handle]
         ELSE UNCHANGED handle
      /\ IF Relevant(slot, update) /\ slot.info = "empty"
         THEN handle_def' = [handle_def EXCEPT ![t] = slot.handle]
         ELSE UNCHANGED handle_def
      /\ UNCHANGED <<notifiers, mutex, op, ret, crashed>>

LookCrashes(t) ==
  /\ Goto(t, "look", "look")
  /\ LoopGoesOn(t)
  /\ op[t].update.type = "UPDATE_POLL"
  /\ notifiers[i[t]].type = "UPDATE_POLL"
  /\ notifiers[i[t]].info # "empty"
  /\ crashed' = TRUE
  /\ UNCHANGED <<notifiers, mutex, op, Locals, ret>>

LookEnds(t) ==
  /\ ~LoopGoesOn(t)
  /\ Goto(t, "look", "choose")
  /\ UNCHANGED <<notifiers, mutex, op, Locals, ret, crashed>>

\* The more specific handler, the general one, or the default; sem_post.
Choice(t) ==
  IF handle[t] # "NULL" THEN handle[t]
  ELSE IF handle_def[t] # "NULL" THEN handle_def[t]
  ELSE notifiers[0].handle

FindReturnsMutant(t) ==
  /\ Goto(t, "choose", "idle")
  /\ Return(t, Choice(t))
  /\ handle' = [handle EXCEPT ![t] = "NULL"]
  /\ handle_def' = [handle_def EXCEPT ![t] = "NULL"]
  /\ UNCHANGED <<notifiers, mutex, crashed>>

FindReturns(t) ==
  /\ Goto(t, "choose", "idle")
  /\ Return(t, Choice(t))
  /\ mutex' = mutex + 1
  /\ handle' = [handle EXCEPT ![t] = "NULL"]
  /\ handle_def' = [handle_def EXCEPT ![t] = "NULL"]
  /\ UNCHANGED <<notifiers, crashed>>

-----------------------------------------------------------------------------
Advance(t) ==
  \/ Scan(t) \/ Compare(t) \/ SemWait(t)
  \/ WriteHandle(t) \/ WriteType(t) \/ WriteInfo(t) \/ SemPost(t)
  \/ FindWait(t) \/ Look(t) \/ LookCrashes(t) \/ LookEnds(t) \/ FindReturns(t)

Next ==
  \/ \E t \in Mutators : Call(t)
  \/ \E t \in Finders : CallFind(t)
  \/ \E t \in Threads : Advance(t)

Spec == Init /\ [][Next]_vars

\* Threads are scheduled; nobody is obliged to call, and the semaphore may
\* let others in first.
FairSpec == Spec /\ \A t \in Threads : WF_vars(Advance(t))

-----------------------------------------------------------------------------
(* Properties *)

\* The semaphore does its work: it is taken exactly while some thread is in
\* a critical section, and by one thread only.
MutexHeld ==
  /\ mutex = 0 <=> \E t \in Threads : pc[t] \in Critical
  /\ \A t, u \in Threads : pc[t] \in Critical /\ pc[u] \in Critical => t = u

\* A slot that is in use has a handler at every moment, in the middle of a
\* write too, however many mutators take each other's slots: tbc_parser calls
\* what it is given (tbc_polling.c:338) without a look.
SlotsCallable ==
  \A s \in AllSlots :
    notifiers[s].type # "UPDATE_NONE" => notifiers[s].handle # "NULL"

\* What a lookup is about to return is the best match of the table as it is
\* at that moment, whatever mutators are at.
Match(update) ==
  LET OfType   == {s \in Slots : Relevant(notifiers[s], update)}
      Specific == {s \in OfType : /\ notifiers[s].info # "empty"
                                  /\ notifiers[s].info = update.key}
      General  == {s \in OfType : notifiers[s].info = "empty"}
  IN  IF Specific # {} THEN notifiers[Min(Specific)].handle
      ELSE IF General # {} THEN notifiers[Max(General)].handle
      ELSE notifiers[0].handle

FindsBestMatch ==
  \A t \in Threads :
    pc[t] = "choose" /\ ~crashed => Choice(t) = Match(op[t].update)

\* What a thread has still to do before it gives the semaphore back.
LeftInside(t) ==
  CASE pc[t] = "look"             -> 2 + MAX_UPDATE_EVENTS - i[t]
    [] pc[t] = "write_handle"     -> IF op[t].kind = "add" THEN 4 ELSE 2
    [] pc[t] = "write_type"       -> 3
    [] pc[t] = "write_info"       -> 2
    [] pc[t] \in {"post", "choose"} -> 1
    [] OTHER                      -> 0

\* A critical section is not drawn out: each step of the thread inside leaves it
\* less to do, and no step of anyone else, however many wait and write, leaves
\* it more.
InsideShortens ==
  [][\A t \in Threads :
       pc[t] \in Critical =>
         LeftInside(t)' < LeftInside(t) \/ UNCHANGED <<pc[t], op[t], i[t]>>]_vars

\* The critical section is always left (or the process dies).
MutexReleased == mutex = 0 ~> (mutex = 1 \/ crashed)

-----------------------------------------------------------------------------
(* Refinement: the effect of a change is taken to happen when its thread  *)
(* gets the semaphore.                                                     *)

\* What a call leaves in its slot.
Target(call, s) ==
  [type |-> CASE s = 0 -> "UPDATE_ANY"
              [] s # 0 /\ call.kind = "remove" -> "UPDATE_NONE"
              [] OTHER -> call.event.type,
   info |-> IF s = 0 THEN "empty" ELSE call.event.info,
   handle |-> NewHandle(call, s)]

Owners(s) == {t \in Threads : pc[t] \in Writing /\ i[t] = s}

Written(s) == IF Owners(s) = {} THEN notifiers[s]
              ELSE Target(op[CHOOSE t \in Owners(s) : TRUE], s)

EmptySlot == [event |-> NoEvent, handle |-> "NULL"]

AsRegistration(slot) ==
  IF slot.type = "UPDATE_NONE" THEN EmptySlot
  ELSE [event |-> [type |-> slot.type, info |-> slot.info],
        handle |-> slot.handle]

DefaultNow == Written(0).handle
TableNow == [s \in Slots |-> AsRegistration(Written(s))]
CallNow == [t \in Threads |-> IF pc[t] \in Writing THEN NoCall ELSE op[t]]
DoneNow == [t \in Threads |-> IF pc[t] \in Writing THEN "ok" ELSE ret[t]]

Table == INSTANCE NotifierTable WITH
  default <- DefaultNow, table <- TableNow, call <- CallNow, done <- DoneNow

TablePromise == Table!Spec

=============================================================================
