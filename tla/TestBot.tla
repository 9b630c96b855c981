------------------------------- MODULE TestBot ------------------------------
(***************************************************************************)
(* testbot/testbot.c: main registers its handlers while the bot already    *)
(* runs.                                                                   *)
(*                                                                         *)
(* telebot_init has started the polling when main makes its first          *)
(* registration, so that users' commands are handled between any two       *)
(* statements of main.  The handlers of /starteco and /stopeco are nested  *)
(* functions of main: they fill in the same variable, event, on the thread *)
(* of a parser, and addUpdateNotifier reads it through a pointer.          *)
(*                                                                         *)
(* A lookup is one step: it runs under the semaphore from its first to its *)
(* last read, and so do the writes (MutualExclusion in NotifiersProofs).   *)
(* Nobody frees a slot here, so that the scan for a free one comes to the  *)
(* same result as a look at the whole table.  Parsers take turns           *)
(* (OneBorrower in PollingProofs): one thread stands for them.             *)
(***************************************************************************)
EXTENDS Integers, Sequences, FiniteSetsExt

CONSTANTS
  Updates,            \* what users send: [type, key]
  MaxUpdates,         \* bound: how many of them
  MAX_UPDATE_EVENTS   \* slots of the table

ASSUME MaxUpdatesAssumption == MaxUpdates \in Nat

\* The registrations of main, in order; UPDATE_ANY leaves event.info alone.
Registration(handle, type, info) ==
  [handle |-> handle, type |-> type, info |-> info]

Registrations ==
  <<Registration("doDefault",  "UPDATE_ANY",     "unset"),
    Registration("felicita",   "UPDATE_MESSAGE", "feliz"),
    Registration("doHelp",     "UPDATE_MESSAGE", "help"),
    Registration("doJoin",     "UPDATE_MESSAGE", "join"),
    Registration("doDelete",   "UPDATE_MESSAGE", "delete"),
    Registration("starteco",   "UPDATE_MESSAGE", "starteco"),
    Registration("stopeco",    "UPDATE_MESSAGE", "stopeco"),
    Registration("doEncuesta", "UPDATE_MESSAGE", "encuesta"),
    Registration("doSurvey",   "UPDATE_POLL",    "empty")>>

\* Room for what main and one stray call per update may register.
ASSUME RoomAssumption ==
  /\ MAX_UPDATE_EVENTS \in Nat
  /\ MAX_UPDATE_EVENTS > Len(Registrations) + MaxUpdates

Handlers == {Registrations[n].handle : n \in DOMAIN Registrations}
              \union {"doEcho", "ignoreUpdate", "NULL"}
Types == {"UPDATE_NONE", "UPDATE_ANY", "UPDATE_MESSAGE", "UPDATE_POLL"}
\* "torn": a string read while another thread writes it.
Infos == {Registrations[n].info : n \in DOMAIN Registrations} \union {"torn"}
Threads == {"main", "parser"}

Keys == {update.key : update \in Updates} \union {"none"}

ASSUME UpdatesAssumption == Updates \subseteq [type : Types, key : Keys]

VARIABLES
  event,      \* main's local variable, [type, info]
  notifiers,  \* the table
  mutex,      \* mutex_updateNotifiers
  k,          \* main: the registration it is at
  pc,         \* pc[t]: where thread t is
  handle,     \* handle[t]: the handler t registers
  slot,       \* slot[t]: the slot t writes
  given,      \* the last update dispatched and its handler
  updates,    \* how many updates were dispatched
  \* --- history
  eco,        \* the default that the last of main, starteco, stopeco stands for
  early,      \* that was while main was registering
  struck      \* main's registrations during which starteco or stopeco ran

history == <<eco, early, struck>>
vars == <<event, notifiers, mutex, k, pc, handle, slot, given, updates, history>>

AllSlots == 0..(MAX_UPDATE_EVENTS - 1)
Slots    == 1..(MAX_UPDATE_EVENTS - 1)

Pcs == {"type", "info", "call", "wait", "write_handle", "write_type",
        "write_info", "post", "idle"}

TypeOK ==
  /\ event \in [type : Types, info : Infos]
  /\ notifiers \in [AllSlots -> [type : Types, info : Infos, handle : Handlers]]
  /\ mutex \in {0, 1}
  /\ k \in DOMAIN Registrations
  /\ pc \in [Threads -> Pcs]
  /\ handle \in [Threads -> Handlers]
  /\ slot \in [Threads -> AllSlots]
  /\ given \in [type : Types, key : Keys, handle : Handlers]
  /\ updates \in 0..MaxUpdates
  /\ eco \in Handlers
  /\ early \in BOOLEAN
  /\ struck \subseteq DOMAIN Registrations

\* telebot_init has returned; event is not initialised, nor read before main
\* has set it.
Init ==
  /\ event = [type |-> "UPDATE_NONE", info |-> "unset"]
  /\ notifiers = [s \in AllSlots |->
       IF s = 0
       THEN [type |-> "UPDATE_ANY", info |-> "unset", handle |-> "ignoreUpdate"]
       ELSE [type |-> "UPDATE_NONE", info |-> "unset", handle |-> "NULL"]]
  /\ mutex = 1
  /\ k = 1
  /\ pc = [t \in Threads |-> IF t = "main" THEN "type" ELSE "idle"]
  /\ handle = [t \in Threads |-> "NULL"]
  /\ slot = [t \in Threads |-> 0]
  /\ given = [type |-> "UPDATE_NONE", key |-> "none", handle |-> "NULL"]
  /\ updates = 0
  /\ eco = Registrations[1].handle
  /\ early = FALSE
  /\ struck = {}

-----------------------------------------------------------------------------
Goto(t, from, to) == pc[t] = from /\ pc' = [pc EXCEPT ![t] = to]

\* main is in its last loop: "Loop to keep alive main thread".
MainDone == pc["main"] = "idle"

-----------------------------------------------------------------------------
(* main, starteco and stopeco fill in event and call addUpdateNotifier *)

\* event.update_type = ...; the nested functions always take UPDATE_ANY.
TypeOf(t) == IF t = "main" THEN Registrations[k].type ELSE "UPDATE_ANY"

SetTypeMutant(t) ==
  /\ Goto(t, "type", IF TypeOf(t) = "UPDATE_ANY" THEN "call" ELSE "info")
  /\ event' = IF t = "main" THEN [event EXCEPT !.type = TypeOf(t)] ELSE event
  /\ handle' = IF t = "main" THEN [handle EXCEPT ![t] = Registrations[k].handle]
                             ELSE handle
  /\ UNCHANGED <<notifiers, mutex, k, slot, given, updates, history>>

SetType(t) ==
  /\ Goto(t, "type", IF TypeOf(t) = "UPDATE_ANY" THEN "call" ELSE "info")
  /\ event' = [event EXCEPT !.type = TypeOf(t)]
  /\ handle' = IF t = "main" THEN [handle EXCEPT ![t] = Registrations[k].handle]
                             ELSE handle
  /\ UNCHANGED <<notifiers, mutex, k, slot, given, updates, history>>

\* strcpy(event.info, ...), in main only.
SetInfoMutant ==
  /\ Goto("main", "info", "call")
  /\ UNCHANGED <<event, notifiers, mutex, k, handle, slot, given, updates, history>>

SetInfo ==
  /\ Goto("main", "info", "call")
  /\ event' = [event EXCEPT !.info = Registrations[k].info]
  /\ UNCHANGED <<notifiers, mutex, k, handle, slot, given, updates, history>>

\* addUpdateNotifier up to its sem_wait: the slot of the default, or a free
\* one, by the type event has now.
FreeSlots == {s \in Slots : notifiers[s].type = "UPDATE_NONE"}

SlotFor == IF event.type = "UPDATE_ANY" THEN 0 ELSE Min(FreeSlots)

CallAdd(t) ==
  /\ Goto(t, "call", "wait")
  /\ slot' = [slot EXCEPT ![t] = SlotFor]
  /\ UNCHANGED <<event, notifiers, mutex, k, handle, given, updates, history>>

SemWaitMutant(t) ==
  /\ Goto(t, "wait", "write_handle")
  /\ UNCHANGED <<event, notifiers, mutex, k, handle, slot, given, updates, history>>

SemWait(t) ==
  /\ mutex > 0
  /\ mutex' = mutex - 1
  /\ Goto(t, "wait", "write_handle")
  /\ UNCHANGED <<event, notifiers, k, handle, slot, given, updates, history>>

WriteHandle(t) ==
  /\ Goto(t, "write_handle", IF slot[t] = 0 THEN "post" ELSE "write_type")
  /\ notifiers' = [notifiers EXCEPT ![slot[t]].handle = handle[t]]
  /\ UNCHANGED <<event, mutex, k, handle, slot, given, updates, history>>

\* copyEvent: the type and the info event has by now.  While main writes the
\* info a parser may read a mixture.
WriteType(t) ==
  /\ Goto(t, "write_type", "write_info")
  /\ notifiers' = [notifiers EXCEPT ![slot[t]].type = event.type]
  /\ UNCHANGED <<event, mutex, k, handle, slot, given, updates, history>>

WriteInfo(t) ==
  /\ Goto(t, "write_info", "post")
  /\ \E info \in {event.info}
                 \union (IF t # "main" /\ pc["main"] = "info" THEN {"torn"} ELSE {}) :
       notifiers' = [notifiers EXCEPT ![slot[t]].info = info]
  /\ UNCHANGED <<event, mutex, k, handle, slot, given, updates, history>>

\* sem_post; main goes on to its next registration.
SemPost(t) ==
  /\ mutex' = mutex + 1
  /\ IF t = "main" /\ k < Len(Registrations)
     THEN /\ Goto(t, "post", "type")
          /\ k' = k + 1
          /\ struck' = struck \union
                         (IF pc["parser"] = "idle" THEN {} ELSE {k + 1})
     ELSE Goto(t, "post", "idle") /\ UNCHANGED <<k, struck>>
  /\ handle' = [handle EXCEPT ![t] = "NULL"]
  /\ slot' = [slot EXCEPT ![t] = 0]
  /\ UNCHANGED <<event, notifiers, given, updates, eco, early>>

-----------------------------------------------------------------------------
(* A parser dispatches an update *)

\* findUpdateHandler.  A poll that meets an event with a poll id would end the
\* process there (events.c:291).
Crashes(update) ==
  \E s \in Slots : /\ update.type = "UPDATE_POLL"
                   /\ notifiers[s].type = "UPDATE_POLL"
                   /\ notifiers[s].info # "empty"

MatchMutant(update) ==
  LET OfType == {s \in Slots : notifiers[s].type = update.type} IN
  IF OfType # {} THEN notifiers[Min(OfType)].handle ELSE notifiers[0].handle

Match(update) ==
  LET OfType   == {s \in Slots : notifiers[s].type = update.type}
      Specific == {s \in OfType : /\ notifiers[s].info # "empty"
                                  /\ notifiers[s].info = update.key}
      General  == {s \in OfType : notifiers[s].info = "empty"}
  IN  IF Specific # {} THEN notifiers[Min(Specific)].handle
      ELSE IF General # {} THEN notifiers[Max(General)].handle
      ELSE notifiers[0].handle

\* The handlers that register one themselves.
Registers == [starteco |-> "doEcho", stopeco |-> "doDefault"]

Dispatch(update) ==
  /\ pc["parser"] = "idle"
  /\ mutex = 1
  /\ updates < MaxUpdates
  /\ ~Crashes(update)
  /\ updates' = updates + 1
  /\ given' = [type |-> update.type, key |-> update.key, handle |-> Match(update)]
  /\ IF Match(update) \in DOMAIN Registers
     THEN /\ pc' = [pc EXCEPT !["parser"] = "type"]
          /\ handle' = [handle EXCEPT !["parser"] = Registers[Match(update)]]
          /\ eco' = Registers[Match(update)]
          /\ early' = ~MainDone
          /\ struck' = struck \union (IF MainDone THEN {} ELSE {k})
     ELSE UNCHANGED <<pc, handle, history>>
  /\ UNCHANGED <<event, notifiers, mutex, k, slot>>

-----------------------------------------------------------------------------
Register(t) ==
  \/ SetType(t) \/ CallAdd(t) \/ SemWait(t)
  \/ WriteHandle(t) \/ WriteType(t) \/ WriteInfo(t) \/ SemPost(t)

Next ==
  \/ SetInfo
  \/ \E t \in Threads : Register(t)
  \/ \E update \in Updates : Dispatch(update)

Spec == Init /\ [][Next]_vars

-----------------------------------------------------------------------------
(* Properties *)

\* Handler and event of a registration are together in the table.
InTable(registration) == \E s \in Slots : notifiers[s] = registration

Quiet == MainDone /\ pc["parser"] = "idle"

\* Every command of main is in the table once main is in its last loop,
\* however many updates were dispatched meanwhile: a starteco or stopeco that
\* takes event from main's hands (testbot.c:499) or the slot it found free
\* harms no registration but those it ran during.
Registered ==
  MainDone =>
    \A n \in DOMAIN Registrations \ struck :
      Registrations[n].type # "UPDATE_ANY" => InTable(Registrations[n])

\* A command is never given to another command's handler, not even while main
\* is registering and a slot has its type but not yet its info: it goes to its
\* own handler or to one of the defaults; a registration that starteco or
\* stopeco ran during may have made its handler the default.
NoStranger ==
  given.handle # "NULL" =>
    \/ given.handle \in {"ignoreUpdate", "doDefault", "doEcho"}
    \/ \E n \in DOMAIN Registrations :
         /\ Registrations[n].handle = given.handle
         /\ \/ n \in struck
            \/ /\ Registrations[n].type = given.type
               /\ Registrations[n].info \in {given.key, "empty"}

\* After a /starteco or /stopeco the default handler is the one it asks for,
\* once its handler has returned, unless it came too early; what earlier ones
\* did to the table does not matter.
EcoFollows == Quiet /\ ~early => notifiers[0].handle = eco

=============================================================================
