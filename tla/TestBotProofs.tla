---------------------------- MODULE TestBotProofs ---------------------------
(***************************************************************************)
(* Theorems about TestBot.tla, for any number of updates and any size of   *)
(* the table that has room.                                                *)
(***************************************************************************)
EXTENDS TestBot, WellFoundedInduction, TLAPS

-----------------------------------------------------------------------------
(* The least and the greatest of a set of slots *)

LEMMA LeastNumber ==
  ASSUME NEW S \in SUBSET Nat, S # {}
  PROVE  \E x \in S : \A y \in S : x =< y
<1> DEFINE R == OpToRel(<, Nat)
<1>1. IsWellFoundedOn(R, Nat)
  BY NatLessThanWellFounded
<1>2. \A x, y \in S : y < x => <<y, x>> \in R
  BY DEF OpToRel
<1> HIDE DEF R
<1>3. PICK x \in S : \A y \in S : ~(<<y, x>> \in R)
  BY <1>1, WFMin
<1>4. \A y \in S : ~(y < x)
  BY <1>2, <1>3
<1>5. x \in Nat /\ \A y \in S : y \in Nat
  OBVIOUS
<1>6. \A y \in S : x =< y
  BY <1>4, <1>5
<1> QED
  BY <1>6

LEMMA LeastSlot ==
  ASSUME NEW S \in SUBSET Slots, S # {}
  PROVE  Min(S) \in S /\ \A y \in S : Min(S) =< y
<1>1. S \in SUBSET Nat
  BY RoomAssumption DEF Slots
<1>2. \E x \in S : \A y \in S : x =< y
  BY <1>1, LeastNumber
<1> QED
  BY <1>2 DEF Min

LEMMA GreatestSlot ==
  ASSUME NEW S \in SUBSET Slots, S # {}
  PROVE  Max(S) \in S
<1> DEFINE N == MAX_UPDATE_EVENTS
           T == {N - x : x \in S}
<1>1. N \in Nat /\ \A x \in S : x \in Nat /\ x < N
  BY RoomAssumption DEF Slots
<1> HIDE DEF N
<1>2. T \in SUBSET Nat /\ T # {}
  BY <1>1
<1>3. PICK m \in T : \A y \in T : m =< y
  BY <1>2, LeastNumber
<1>4. PICK x \in S : m = N - x
  OBVIOUS
<1>5. \A y \in S : N - x =< N - y
  BY <1>3, <1>4
<1>6. \A y \in S : x >= y
  BY <1>1, <1>5
<1> QED
  BY <1>6 DEF Max

-----------------------------------------------------------------------------
(* The registrations of main *)

LEMMA RegistrationFacts ==
  /\ DOMAIN Registrations = 1..9 /\ Len(Registrations) = 9
  /\ Registrations[1].handle = "doDefault"
  /\ \A n \in 1..9 :
       /\ Registrations[n] \in [type : Types, info : Infos, handle : Handlers]
       /\ Registrations[n].type \in {"UPDATE_ANY", "UPDATE_MESSAGE", "UPDATE_POLL"}
       /\ Registrations[n].type = "UPDATE_ANY" <=> n = 1
       /\ Registrations[n].handle # "NULL"
<1>1. DOMAIN Registrations = 1..9 /\ Len(Registrations) = 9
  BY DEF Registrations
<1>2. Registrations[1].handle = "doDefault"
  BY DEF Registrations, Registration
<1>3. ASSUME NEW n \in 1..9
      PROVE  /\ Registrations[n] =
                  Registration(Registrations[n].handle, Registrations[n].type,
                               Registrations[n].info)
             /\ Registrations[n].type \in
                  {"UPDATE_ANY", "UPDATE_MESSAGE", "UPDATE_POLL"}
             /\ Registrations[n].type = "UPDATE_ANY" <=> n = 1
             /\ Registrations[n].handle # "NULL"
  <2>1. n \in {1, 2, 3, 4, 5, 6, 7, 8, 9}
    OBVIOUS
  <2> QED
    BY <2>1 DEF Registrations, Registration
<1>4. ASSUME NEW n \in 1..9
      PROVE  Registrations[n] \in [type : Types, info : Infos, handle : Handlers]
  <2>1. /\ Registrations[n].handle \in Handlers
        /\ Registrations[n].info \in Infos
        /\ Registrations[n].type \in Types
    BY <1>1, <1>3 DEF Handlers, Infos, Types
  <2> QED
    BY <1>3, <2>1 DEF Registration
<1> QED
  BY <1>1, <1>2, <1>3, <1>4

-----------------------------------------------------------------------------
(* Types *)

Critical == {"write_handle", "write_type", "write_info", "post"}
InCall   == {"wait"} \union Critical

\* One thread at a time is between sem_wait and sem_post.
Exclusion ==
  /\ \A t, u \in Threads : pc[t] \in Critical /\ pc[u] \in Critical => t = u
  /\ mutex = 0 <=> \E t \in Threads : pc[t] \in Critical

\* How many slots main and the parser have chosen.
MainChose == IF pc["main"] \in {"type", "info", "call"} THEN k - 1 ELSE k
ParserChose == IF pc["parser"] \in {"type", "call"} THEN updates - 1 ELSE updates
Chosen == MainChose + ParserChose

\* The slots beyond as many are free.
Room ==
  /\ pc["parser"] \in {"type", "call"} => updates >= 1
  /\ \A s \in AllSlots : s > Chosen => notifiers[s].type = "UPDATE_NONE"
  /\ \A t \in Threads : slot[t] =< Chosen

\* What goes with where a thread is.
Place ==
  /\ \A t \in Threads : /\ pc[t] \notin InCall => slot[t] = 0
                        /\ pc[t] \in {"write_type", "write_info"} => slot[t] # 0
  /\ pc["parser"] # "info"
  /\ pc["parser"] # "idle" => handle["parser"] \in {"doEcho", "doDefault"}
  /\ pc["main"] \in {"info", "call"} \union InCall =>
       handle["main"] = Registrations[k].handle
  /\ pc["main"] = "idle" => k = 9
  /\ notifiers[0].type = "UPDATE_ANY"

TypeInv == TypeOK /\ Exclusion /\ Room /\ Place

LEMMA ThreadFacts ==
  /\ "main" \in Threads /\ "parser" \in Threads
  /\ \A t \in Threads : t = "main" \/ t = "parser"
BY DEF Threads

LEMMA HandlerFacts ==
  {"doEcho", "doDefault", "ignoreUpdate", "NULL"} \subseteq Handlers
<1>1. Registrations[1].handle \in Handlers
  BY RegistrationFacts DEF Handlers
<1> QED
  BY <1>1, RegistrationFacts DEF Handlers

LEMMA TableFacts ==
  /\ MaxUpdates \in Nat /\ MAX_UPDATE_EVENTS \in Nat
  /\ MAX_UPDATE_EVENTS > 9 + MaxUpdates
  /\ 0 \in AllSlots /\ AllSlots \subseteq Int /\ Slots \subseteq AllSlots
  /\ \A s \in AllSlots : s # 0 => s \in Slots
  /\ \A s \in Slots : s # 0
BY RoomAssumption, MaxUpdatesAssumption, RegistrationFacts DEF AllSlots, Slots

LEMMA UnsetInfo == "unset" \in Infos /\ "torn" \in Infos /\ "empty" \in Infos
<1>1. /\ Registrations[1].info = "unset" /\ Registrations[9].info = "empty"
      /\ 1 \in DOMAIN Registrations /\ 9 \in DOMAIN Registrations
  BY DEF Registrations, Registration
<1> QED
  BY <1>1 DEF Infos

LEMMA TypeInit == Init => TypeInv
<1> SUFFICES ASSUME Init PROVE TypeInv
  OBVIOUS
<1>1. TypeOK
  <2>1. event \in [type : Types, info : Infos] /\ mutex \in {0, 1}
    BY UnsetInfo DEF Init, Types
  <2>2. notifiers \in [AllSlots -> [type : Types, info : Infos, handle : Handlers]]
    BY UnsetInfo, HandlerFacts DEF Init, Types
  <2>3. /\ k \in DOMAIN Registrations /\ pc \in [Threads -> Pcs]
        /\ handle \in [Threads -> Handlers] /\ slot \in [Threads -> AllSlots]
    BY RegistrationFacts, HandlerFacts, TableFacts DEF Init, Pcs
  <2>4. given \in [type : Types, key : Keys, handle : Handlers]
    <3>1. /\ given = [type |-> "UPDATE_NONE", key |-> "none", handle |-> "NULL"]
          /\ "UPDATE_NONE" \in Types /\ "none" \in Keys
      BY DEF Init, Types, Keys
    <3> QED
      BY <3>1, HandlerFacts
  <2>5. updates \in 0..MaxUpdates /\ eco \in Handlers
    BY TableFacts, HandlerFacts, RegistrationFacts DEF Init
  <2>6. early \in BOOLEAN /\ struck \subseteq DOMAIN Registrations
    BY DEF Init
  <2> QED
    BY <2>1, <2>2, <2>3, <2>4, <2>5, <2>6 DEF TypeOK
<1>2. Exclusion
  BY DEF Init, Exclusion, Critical
<1>3. Room
  BY ThreadFacts, RoomAssumption
     DEF Init, Room, Chosen, MainChose, ParserChose, AllSlots
<1>4. Place
  BY ThreadFacts, TableFacts DEF Init, Place, InCall, Critical
<1> QED
  BY <1>1, <1>2, <1>3, <1>4 DEF TypeInv

\* addUpdateNotifier always finds a slot.
LEMMA SlotFacts ==
  ASSUME TypeInv, NEW t \in Threads, pc[t] = "call"
  PROVE  /\ SlotFor \in AllSlots /\ SlotFor =< Chosen + 1
         /\ event.type = "UPDATE_ANY" => SlotFor = 0
         /\ event.type # "UPDATE_ANY" =>
              SlotFor \in Slots /\ notifiers[SlotFor].type = "UPDATE_NONE"
<1> USE RoomAssumption, MaxUpdatesAssumption, RegistrationFacts DEF TypeInv, TypeOK
<1> DEFINE n == Chosen + 1
<1>1. n \in Nat /\ n \in 1..(9 + MaxUpdates) /\ n > Chosen
  BY ThreadFacts DEF Room, Chosen, MainChose, ParserChose
<1> HIDE DEF n
<1>2. CASE event.type = "UPDATE_ANY"
  <2>1. SlotFor = 0
    BY <1>2 DEF SlotFor
  <2> QED
    BY <1>1, <1>2, <2>1 DEF AllSlots, n
<1>3. CASE event.type # "UPDATE_ANY"
  <2>1. n \in Slots /\ n \in AllSlots
    BY <1>1 DEF Slots, AllSlots
  <2>2. notifiers[n].type = "UPDATE_NONE"
    BY <1>1, <2>1 DEF Room
  <2>3. n \in FreeSlots /\ FreeSlots \in SUBSET Slots
    BY <2>1, <2>2 DEF FreeSlots
  <2>4. Min(FreeSlots) \in FreeSlots /\ Min(FreeSlots) =< n
    BY <2>3, LeastSlot
  <2>5. SlotFor = Min(FreeSlots)
    BY <1>3 DEF SlotFor
  <2> QED
    BY <1>3, <2>4, <2>5 DEF FreeSlots, Slots, AllSlots, n
<1> QED
  BY <1>2, <1>3

\* A lookup gives the handler of a slot that matches, or the default.
LEMMA MatchFacts ==
  ASSUME TypeInv, NEW update \in Updates
  PROVE  \E s \in AllSlots :
           /\ Match(update) = notifiers[s].handle
           /\ s # 0 => /\ notifiers[s].type = update.type
                       /\ notifiers[s].info \in {update.key, "empty"}
<1> DEFINE OfType   == {s \in Slots : notifiers[s].type = update.type}
           Specific == {s \in OfType : /\ notifiers[s].info # "empty"
                                       /\ notifiers[s].info = update.key}
           General  == {s \in OfType : notifiers[s].info = "empty"}
<1>1. Match(update) = IF Specific # {} THEN notifiers[Min(Specific)].handle
                      ELSE IF General # {} THEN notifiers[Max(General)].handle
                      ELSE notifiers[0].handle
  BY DEF Match
<1>2. Specific \in SUBSET Slots /\ General \in SUBSET Slots
  OBVIOUS
<1>3. Specific # {} => Min(Specific) \in Specific
  BY <1>2, LeastSlot
<1>4. General # {} => Max(General) \in General
  BY <1>2, GreatestSlot
<1>5. 0 \in AllSlots /\ Slots \subseteq AllSlots
  BY RoomAssumption, RegistrationFacts, MaxUpdatesAssumption DEF AllSlots, Slots
<1> QED
  BY <1>1, <1>3, <1>4, <1>5

\* A step of t that leaves the semaphore alone.
LEMMA SameExclusion ==
  ASSUME TypeInv, NEW t \in Threads, NEW to, mutex' = mutex,
         pc' = [pc EXCEPT ![t] = to], pc[t] \in Critical <=> to \in Critical
  PROVE  Exclusion'
BY DEF TypeInv, TypeOK, Exclusion

\* What a step leaves alone of what the slots are.
LEMMA SameRoom ==
  ASSUME TypeInv,
         notifiers' \in [AllSlots -> [type : Types, info : Infos, handle : Handlers]],
         \A s \in AllSlots : s > Chosen => notifiers'[s].type = notifiers[s].type,
         Chosen \in Int, Chosen' \in Int, Chosen =< Chosen',
         \A t \in Threads : slot'[t] =< Chosen',
         pc'["parser"] \in {"type", "call"} => updates' >= 1
  PROVE  Room'
<1>1. \A s \in AllSlots : s > Chosen' => s > Chosen
  BY TableFacts
<1>2. \A s \in AllSlots : s > Chosen => notifiers[s].type = "UPDATE_NONE"
  BY DEF TypeInv, Room
<1> QED
  BY <1>1, <1>2 DEF Room

LEMMA ChosenInt ==
  ASSUME TypeOK
  PROVE  MainChose \in Int /\ ParserChose \in Int /\ Chosen \in Int
BY RegistrationFacts, TableFacts DEF TypeOK, MainChose, ParserChose, Chosen

LEMMA SetInfoType == TypeInv /\ SetInfo => TypeInv'
<1> SUFFICES ASSUME TypeInv, SetInfo PROVE TypeInv'
  OBVIOUS
<1> USE ThreadFacts
<1>1. /\ pc["main"] = "info" /\ pc' = [pc EXCEPT !["main"] = "call"]
      /\ event' = [event EXCEPT !.info = Registrations[k].info]
      /\ UNCHANGED <<notifiers, mutex, k, handle, slot, given, updates, history>>
  BY DEF SetInfo, Goto
<1>2. TypeOK'
  <2>1. Registrations[k].info \in Infos
    BY RegistrationFacts DEF TypeInv, TypeOK
  <2>2. event' \in [type : Types, info : Infos]
    BY <1>1, <2>1 DEF TypeInv, TypeOK
  <2>3. pc' \in [Threads -> Pcs]
    BY <1>1 DEF TypeInv, TypeOK, Pcs
  <2> QED
    BY <1>1, <2>2, <2>3 DEF TypeInv, TypeOK, history
<1>3. Exclusion'
  BY <1>1, SameExclusion DEF Critical
<1>4. Room'
  <2>1. pc' = [pc EXCEPT !["main"] = "call"] /\ pc'["parser"] = pc["parser"]
        /\ pc'["main"] = "call"
    BY <1>1 DEF TypeInv, TypeOK
  <2>2. Chosen' = Chosen
    BY <1>1, <2>1 DEF Chosen, MainChose, ParserChose
  <2> QED
    BY <1>1, <2>1, <2>2 DEF TypeInv, Room
<1>5. Place'
  BY <1>1 DEF TypeInv, TypeOK, Place, InCall, Critical
<1> QED
  BY <1>2, <1>3, <1>4, <1>5 DEF TypeInv

LEMMA SetTypeType ==
  ASSUME TypeInv, NEW t \in Threads, SetType(t)
  PROVE  TypeInv'
<1> USE ThreadFacts
<1> DEFINE to == IF TypeOf(t) = "UPDATE_ANY" THEN "call" ELSE "info"
<1>1. /\ pc[t] = "type" /\ pc' = [pc EXCEPT ![t] = to]
      /\ event' = [event EXCEPT !.type = TypeOf(t)]
      /\ handle' = IF t = "main" THEN [handle EXCEPT ![t] = Registrations[k].handle]
                   ELSE handle
      /\ UNCHANGED <<notifiers, mutex, k, slot, given, updates, history>>
  BY DEF SetType, Goto
<1>2. to \in {"call", "info"} /\ (t = "parser" => to = "call")
  BY DEF TypeOf
<1>3. TypeOf(t) \in Types /\ Registrations[k].handle \in Handlers
  BY RegistrationFacts DEF TypeInv, TypeOK, TypeOf, Types
<1> HIDE DEF to
<1>4. TypeOK'
  <2>1. event' \in [type : Types, info : Infos]
    BY <1>1, <1>3 DEF TypeInv, TypeOK
  <2>2. pc' \in [Threads -> Pcs] /\ handle' \in [Threads -> Handlers]
    BY <1>1, <1>2, <1>3 DEF TypeInv, TypeOK, Pcs
  <2> QED
    BY <1>1, <2>1, <2>2 DEF TypeInv, TypeOK, history
<1>5. Exclusion'
  BY <1>1, <1>2, SameExclusion DEF Critical
<1>6. Room'
  <2>1. pc'[t] = to /\ \A u \in Threads : u # t => pc'[u] = pc[u]
    BY <1>1 DEF TypeInv, TypeOK
  <2>2. Chosen' = Chosen
    BY <1>1, <1>2, <2>1 DEF Chosen, MainChose, ParserChose
  <2>3. pc'["parser"] \in {"type", "call"} => pc["parser"] \in {"type", "call"}
    BY <1>1, <2>1
  <2> QED
    BY <1>1, <2>2, <2>3 DEF TypeInv, Room
<1>7. Place'
  <2>1. CASE t = "main"
    BY <1>1, <1>2, <2>1 DEF TypeInv, TypeOK, Place, InCall, Critical
  <2>2. CASE t = "parser"
    BY <1>1, <1>2, <2>2 DEF TypeInv, TypeOK, Place, InCall, Critical
  <2> QED
    BY <2>1, <2>2
<1> QED
  BY <1>4, <1>5, <1>6, <1>7 DEF TypeInv

LEMMA CallAddType ==
  ASSUME TypeInv, NEW t \in Threads, CallAdd(t)
  PROVE  TypeInv'
<1> USE ThreadFacts
<1>1. /\ pc[t] = "call" /\ pc' = [pc EXCEPT ![t] = "wait"]
      /\ slot' = [slot EXCEPT ![t] = SlotFor]
      /\ UNCHANGED <<event, notifiers, mutex, k, handle, given, updates, history>>
  BY DEF CallAdd, Goto
<1>2. SlotFor \in AllSlots /\ SlotFor =< Chosen + 1
  BY <1>1, SlotFacts
<1>3. TypeOK'
  <2>1. pc' \in [Threads -> Pcs] /\ slot' \in [Threads -> AllSlots]
    BY <1>1, <1>2 DEF TypeInv, TypeOK, Pcs
  <2> QED
    BY <1>1, <2>1 DEF TypeInv, TypeOK, history
<1>4. Exclusion'
  BY <1>1, SameExclusion DEF Critical
<1>5. Room'
  <2>1. pc'[t] = "wait" /\ \A u \in Threads : u # t => pc'[u] = pc[u]
    BY <1>1 DEF TypeInv, TypeOK
  <2>2. Chosen \in Int /\ Chosen' = Chosen + 1
    <3>1. k \in Int /\ updates \in Int
      BY RegistrationFacts, TableFacts DEF TypeInv, TypeOK
    <3>2. CASE t = "main"
      <4>1. MainChose' = MainChose + 1 /\ MainChose \in Int
        BY <1>1, <2>1, <3>1, <3>2 DEF MainChose
      <4>2. ParserChose' = ParserChose /\ ParserChose \in Int
        BY <1>1, <2>1, <3>1, <3>2 DEF ParserChose
      <4> QED
        BY <4>1, <4>2 DEF Chosen
    <3>3. CASE t = "parser"
      <4>1. MainChose' = MainChose /\ MainChose \in Int
        BY <1>1, <2>1, <3>1, <3>3 DEF MainChose
      <4>2. ParserChose' = ParserChose + 1 /\ ParserChose \in Int
        BY <1>1, <2>1, <3>1, <3>3 DEF ParserChose
      <4> QED
        BY <4>1, <4>2 DEF Chosen
    <3> QED
      BY <3>2, <3>3
  <2>3. \A u \in Threads : slot'[u] =< Chosen'
    <3>1. \A u \in Threads : slot[u] \in Int /\ slot[u] =< Chosen
      BY TableFacts DEF TypeInv, TypeOK, Room
    <3>2. \A u \in Threads : slot'[u] = IF u = t THEN SlotFor ELSE slot[u]
      BY <1>1 DEF TypeInv, TypeOK
    <3> QED
      BY <1>2, <2>2, <3>1, <3>2
  <2>4. pc'["parser"] \in {"type", "call"} => updates' >= 1
    BY <1>1, <2>1 DEF TypeInv, Room
  <2> QED
    BY <1>1, <2>2, <2>3, <2>4, SameRoom DEF TypeInv, TypeOK
<1>6. Place'
  <2>1. CASE t = "main"
    BY <1>1, <2>1 DEF TypeInv, TypeOK, Place, InCall, Critical
  <2>2. CASE t = "parser"
    BY <1>1, <2>2 DEF TypeInv, TypeOK, Place, InCall, Critical
  <2> QED
    BY <2>1, <2>2
<1> QED
  BY <1>3, <1>4, <1>5, <1>6 DEF TypeInv

LEMMA SemWaitType ==
  ASSUME TypeInv, NEW t \in Threads, SemWait(t)
  PROVE  TypeInv'
<1> USE ThreadFacts
<1>1. /\ pc[t] = "wait" /\ pc' = [pc EXCEPT ![t] = "write_handle"]
      /\ mutex > 0 /\ mutex' = mutex - 1
      /\ UNCHANGED <<event, notifiers, k, handle, slot, given, updates, history>>
  BY DEF SemWait, Goto
<1>2. mutex = 1 /\ mutex' = 0
  BY <1>1 DEF TypeInv, TypeOK
<1>3. TypeOK'
  BY <1>1, <1>2 DEF TypeInv, TypeOK, Pcs, history
<1>4. Exclusion'
  <2>1. \A u \in Threads : pc[u] \notin Critical
    BY <1>2 DEF TypeInv, Exclusion
  <2>2. pc'[t] \in Critical /\ \A u \in Threads : u # t => pc'[u] \notin Critical
    BY <1>1, <2>1 DEF TypeInv, TypeOK, Critical
  <2> QED
    BY <1>2, <2>2 DEF Exclusion
<1>5. Room'
  <2>1. pc'[t] = "write_handle" /\ \A u \in Threads : u # t => pc'[u] = pc[u]
    BY <1>1 DEF TypeInv, TypeOK
  <2>2. Chosen' = Chosen
    BY <1>1, <2>1 DEF Chosen, MainChose, ParserChose
  <2>3. pc'["parser"] \in {"type", "call"} => pc["parser"] \in {"type", "call"}
    BY <2>1
  <2> QED
    BY <1>1, <2>2, <2>3 DEF TypeInv, Room
<1>6. Place'
  BY <1>1 DEF TypeInv, TypeOK, Place, InCall, Critical
<1> QED
  BY <1>3, <1>4, <1>5, <1>6 DEF TypeInv

\* A step of t inside the critical section that writes its slot.
LEMMA WriteStep ==
  ASSUME TypeInv, NEW t \in Threads, NEW to \in Critical,
         pc[t] \in {"write_handle", "write_type", "write_info"},
         pc' = [pc EXCEPT ![t] = to],
         to = "post" \/ slot[t] # 0, to # "write_handle",
         notifiers' \in [AllSlots -> [type : Types, info : Infos, handle : Handlers]],
         \A s \in AllSlots : s # slot[t] => notifiers'[s] = notifiers[s],
         slot[t] = 0 => notifiers'[0].type = notifiers[0].type,
         UNCHANGED <<event, mutex, k, handle, slot, given, updates, history>>
  PROVE  TypeInv'
<1> USE ThreadFacts
<1>1. pc'[t] = to /\ \A u \in Threads : u # t => pc'[u] = pc[u]
  BY DEF TypeInv, TypeOK
<1>2. TypeOK'
  BY DEF TypeInv, TypeOK, Pcs, Critical, history
<1>3. Exclusion'
  BY SameExclusion DEF Critical
<1>4. Room'
  <2>1. Chosen \in Int /\ Chosen' = Chosen
    BY <1>1, ChosenInt DEF TypeInv, Chosen, MainChose, ParserChose, Critical
  <2>2. slot[t] =< Chosen /\ slot[t] \in AllSlots
    BY DEF TypeInv, TypeOK, Room
  <2>3. \A s \in AllSlots : s > Chosen => notifiers'[s].type = notifiers[s].type
    <3>1. AllSlots \subseteq Int
      BY TableFacts
    <3>2. \A s \in AllSlots : s > Chosen => s # slot[t]
      BY <2>1, <2>2, <3>1
    <3> QED
      BY <3>2
  <2>4. pc'["parser"] \in {"type", "call"} => updates' >= 1
    BY <1>1 DEF TypeInv, Room, Critical
  <2>5. \A u \in Threads : slot'[u] =< Chosen'
    BY <2>1 DEF TypeInv, Room
  <2> QED
    BY <2>1, <2>3, <2>4, <2>5, SameRoom
<1>5. Place'
  <2>1. notifiers'[0].type = "UPDATE_ANY"
    BY TableFacts DEF TypeInv, Place
  <2>2. CASE t = "main"
    BY <1>1, <2>1, <2>2 DEF TypeInv, TypeOK, Place, InCall, Critical
  <2>3. CASE t = "parser"
    BY <1>1, <2>1, <2>3 DEF TypeInv, TypeOK, Place, InCall, Critical
  <2> QED
    BY <2>2, <2>3
<1> QED
  BY <1>2, <1>3, <1>4, <1>5 DEF TypeInv

LEMMA WritesType ==
  ASSUME TypeInv, NEW t \in Threads, WriteHandle(t) \/ WriteType(t) \/ WriteInfo(t)
  PROVE  TypeInv'
<1> USE ThreadFacts, UnsetInfo, TableFacts
<1>1. /\ slot[t] \in AllSlots /\ handle[t] \in Handlers
      /\ event.type \in Types /\ event.info \in Infos
  BY DEF TypeInv, TypeOK
<1>2. CASE WriteHandle(t)
  <2>1. notifiers' = [notifiers EXCEPT ![slot[t]].handle = handle[t]]
    BY <1>2 DEF WriteHandle
  <2>2. /\ notifiers' \in [AllSlots -> [type : Types, info : Infos, handle : Handlers]]
        /\ \A s \in AllSlots : s # slot[t] => notifiers'[s] = notifiers[s]
        /\ slot[t] = 0 => notifiers'[0].type = notifiers[0].type
    BY <1>1, <2>1 DEF TypeInv, TypeOK
  <2> DEFINE to == IF slot[t] = 0 THEN "post" ELSE "write_type"
  <2>3. /\ pc[t] \in {"write_handle", "write_type", "write_info"}
        /\ pc' = [pc EXCEPT ![t] = to]
        /\ UNCHANGED <<event, mutex, k, handle, slot, given, updates, history>>
    BY <1>2 DEF WriteHandle, Goto
  <2>4. to \in Critical /\ to # "write_handle" /\ (to = "post" \/ slot[t] # 0)
    BY DEF Critical
  <2> HIDE DEF to
  <2> QED
    BY <2>2, <2>3, <2>4, WriteStep
<1>3. CASE WriteType(t)
  <2>1. /\ notifiers' = [notifiers EXCEPT ![slot[t]].type = event.type]
        /\ pc[t] = "write_type" /\ pc' = [pc EXCEPT ![t] = "write_info"]
        /\ UNCHANGED <<event, mutex, k, handle, slot, given, updates, history>>
    BY <1>3 DEF WriteType, Goto
  <2>2. slot[t] # 0
    BY <2>1 DEF TypeInv, Place
  <2>3. /\ notifiers' \in [AllSlots -> [type : Types, info : Infos, handle : Handlers]]
        /\ \A s \in AllSlots : s # slot[t] => notifiers'[s] = notifiers[s]
    BY <1>1, <2>1 DEF TypeInv, TypeOK
  <2> QED
    BY <2>1, <2>2, <2>3, WriteStep DEF Critical
<1>4. CASE WriteInfo(t)
  <2>1. /\ pc[t] = "write_info" /\ pc' = [pc EXCEPT ![t] = "post"]
        /\ UNCHANGED <<event, mutex, k, handle, slot, given, updates, history>>
    BY <1>4 DEF WriteInfo, Goto
  <2>2. PICK info \in {event.info, "torn"} :
          notifiers' = [notifiers EXCEPT ![slot[t]].info = info]
    BY <1>4 DEF WriteInfo
  <2>3. slot[t] # 0 /\ info \in Infos
    BY <1>1, <2>1 DEF TypeInv, Place
  <2>4. /\ notifiers' \in [AllSlots -> [type : Types, info : Infos, handle : Handlers]]
        /\ \A s \in AllSlots : s # slot[t] => notifiers'[s] = notifiers[s]
    BY <1>1, <2>2, <2>3 DEF TypeInv, TypeOK
  <2> QED
    BY <2>1, <2>3, <2>4, WriteStep DEF Critical
<1> QED
  BY <1>2, <1>3, <1>4

LEMMA SemPostType ==
  ASSUME TypeInv, NEW t \in Threads, SemPost(t)
  PROVE  TypeInv'
<1> USE ThreadFacts, RegistrationFacts, TableFacts
<1> DEFINE goes == t = "main" /\ k < 9
           to == IF goes THEN "type" ELSE "idle"
<1>1. /\ pc[t] = "post" /\ pc' = [pc EXCEPT ![t] = to]
      /\ k' = IF goes THEN k + 1 ELSE k
      /\ struck' \subseteq struck \union (IF goes THEN {k + 1} ELSE {})
      /\ mutex' = mutex + 1
      /\ handle' = [handle EXCEPT ![t] = "NULL"]
      /\ slot' = [slot EXCEPT ![t] = 0]
      /\ UNCHANGED <<event, notifiers, given, updates, eco, early>>
  BY DEF SemPost, Goto
<1>2. mutex = 0 /\ mutex' = 1
  BY <1>1 DEF TypeInv, TypeOK, Exclusion, Critical
<1>3. k \in 1..9 /\ k' \in 1..9 /\ (goes => k + 1 \in 1..9)
  BY <1>1 DEF TypeInv, TypeOK
<1>4. to \in {"type", "idle"} /\ (t = "parser" => to = "idle")
  OBVIOUS
<1>5. TypeOK'
  <2>1. pc' \in [Threads -> Pcs] /\ slot' \in [Threads -> AllSlots]
    BY <1>1, <1>4 DEF TypeInv, TypeOK, Pcs
  <2>2. handle' \in [Threads -> Handlers]
    BY <1>1, HandlerFacts DEF TypeInv, TypeOK
  <2>3. k' \in DOMAIN Registrations /\ struck' \subseteq DOMAIN Registrations
    BY <1>1, <1>3 DEF TypeInv, TypeOK
  <2> QED
    BY <1>1, <1>2, <2>1, <2>2, <2>3 DEF TypeInv, TypeOK
<1>6. Exclusion'
  <2>1. \A u \in Threads : u # t => pc[u] \notin Critical
    BY <1>1 DEF TypeInv, Exclusion, Critical
  <2>2. \A u \in Threads : pc'[u] \notin Critical
    BY <1>1, <1>4, <2>1 DEF TypeInv, TypeOK, Critical
  <2> QED
    BY <1>2, <2>2 DEF Exclusion
<1>7. Room'
  <2>1. pc'[t] = to /\ \A u \in Threads : u # t => pc'[u] = pc[u]
    BY <1>1 DEF TypeInv, TypeOK
  <2>2. Chosen \in Int /\ Chosen' = Chosen /\ Chosen >= 0
    <3>1. k \in Int /\ updates \in Nat /\ (pc["parser"] \in {"type", "call"} => updates >= 1)
      BY DEF TypeInv, TypeOK, Room
    <3>2. MainChose' = MainChose /\ MainChose \in Nat
      BY <1>1, <1>3, <2>1, <3>1 DEF MainChose
    <3>3. ParserChose' = ParserChose /\ ParserChose \in Nat
      BY <1>1, <1>4, <2>1, <3>1 DEF ParserChose
    <3> QED
      BY <3>2, <3>3 DEF Chosen
  <2>3. \A u \in Threads : slot'[u] =< Chosen'
    <3>1. \A u \in Threads : slot[u] \in Int /\ slot[u] =< Chosen
      BY DEF TypeInv, TypeOK, Room
    <3>2. \A u \in Threads : slot'[u] = IF u = t THEN 0 ELSE slot[u]
      BY <1>1 DEF TypeInv, TypeOK
    <3> QED
      BY <2>2, <3>1, <3>2
  <2>4. pc'["parser"] \in {"type", "call"} => updates' >= 1
    BY <1>1, <1>4, <2>1 DEF TypeInv, Room
  <2> QED
    BY <1>1, <2>2, <2>3, <2>4, SameRoom DEF TypeInv, TypeOK
<1>8. Place'
  <2>1. \A u \in Threads : u # t => pc'[u] = pc[u] /\ slot'[u] = slot[u] /\ handle'[u] = handle[u]
    BY <1>1 DEF TypeInv, TypeOK
  <2>2. pc'[t] = to /\ slot'[t] = 0
    BY <1>1 DEF TypeInv, TypeOK
  <2>3. CASE t = "main"
    BY <1>1, <1>3, <2>1, <2>2, <2>3 DEF TypeInv, Place, InCall, Critical
  <2>4. CASE t = "parser"
    BY <1>1, <1>4, <2>1, <2>2, <2>4 DEF TypeInv, Place, InCall, Critical
  <2> QED
    BY <2>3, <2>4
<1> QED
  BY <1>5, <1>6, <1>7, <1>8 DEF TypeInv

LEMMA DispatchType ==
  ASSUME TypeInv, NEW update \in Updates, Dispatch(update)
  PROVE  TypeInv'
<1> USE ThreadFacts, TableFacts
<1> DEFINE registers == Match(update) \in DOMAIN Registers
<1>1. /\ pc["parser"] = "idle" /\ updates < MaxUpdates /\ updates' = updates + 1
      /\ given' = [type |-> update.type, key |-> update.key, handle |-> Match(update)]
      /\ UNCHANGED <<event, notifiers, mutex, k, slot>>
  BY DEF Dispatch
<1>2. /\ registers => /\ pc' = [pc EXCEPT !["parser"] = "type"]
                      /\ handle' = [handle EXCEPT !["parser"] = Registers[Match(update)]]
                      /\ eco' = Registers[Match(update)]
                      /\ early' = ~MainDone
                      /\ struck' \subseteq struck \union {k}
      /\ ~registers => UNCHANGED <<pc, handle, history>>
  BY DEF Dispatch
<1>3. registers => Registers[Match(update)] \in {"doEcho", "doDefault"}
  BY DEF Registers
<1>4. update.type \in Types /\ update.key \in Keys
  BY UpdatesAssumption
<1>5. Match(update) \in Handlers
  BY MatchFacts DEF TypeInv, TypeOK
<1> DEFINE new == Registers[Match(update)]
<1>6. registers => new \in Handlers
  BY <1>3, HandlerFacts
<1>7. pc'["main"] = pc["main"] /\ pc'["parser"] \in {"idle", "type"}
  BY <1>1, <1>2 DEF TypeInv, TypeOK
<1> HIDE DEF registers, new
<1>8. TypeOK'
  <2>1. given' \in [type : Types, key : Keys, handle : Handlers]
    BY <1>1, <1>4, <1>5
  <2>2. updates' \in 0..MaxUpdates
    BY <1>1 DEF TypeInv, TypeOK
  <2>3. pc' \in [Threads -> Pcs] /\ handle' \in [Threads -> Handlers]
    BY <1>2, <1>6 DEF TypeInv, TypeOK, Pcs, new, history
  <2>4. eco' \in Handlers /\ struck' \subseteq DOMAIN Registrations
    BY <1>2, <1>6 DEF TypeInv, TypeOK, new, history
  <2>5. early' \in BOOLEAN
    BY <1>2 DEF TypeInv, TypeOK, MainDone, history
  <2> QED
    BY <1>1, <2>1, <2>2, <2>3, <2>4, <2>5 DEF TypeInv, TypeOK
<1>9. Exclusion'
  <2>1. \A u \in Threads : pc'[u] \in Critical <=> pc[u] \in Critical
    BY <1>1, <1>7 DEF Critical
  <2>2. \A u \in Threads : pc'[u] \in Critical => pc'[u] = pc[u]
    BY <1>1, <1>7 DEF Critical
  <2> QED
    BY <1>1, <2>1 DEF TypeInv, Exclusion
<1>10. Room'
  <2>1. k \in Int /\ updates \in Nat
    BY RegistrationFacts DEF TypeInv, TypeOK
  <2>2. MainChose' = MainChose /\ MainChose \in Int
    BY <1>1, <1>7, <2>1 DEF MainChose
  <2>3. ParserChose =< ParserChose' /\ ParserChose \in Int /\ ParserChose' \in Int
    BY <1>1, <1>7, <2>1 DEF ParserChose
  <2>4. Chosen \in Int /\ Chosen' \in Int /\ Chosen =< Chosen'
    <3>1. Chosen = MainChose + ParserChose /\ Chosen' = MainChose + ParserChose'
      BY <2>2 DEF Chosen
    <3>2. \A a, b, c \in Int : b =< c => /\ a + b \in Int /\ a + c \in Int
                                         /\ a + b =< a + c
      OBVIOUS
    <3> QED
      BY <2>2, <2>3, <3>1, <3>2
  <2>5. \A u \in Threads : slot'[u] =< Chosen'
    <3>1. \A u \in Threads : slot[u] \in Int /\ slot[u] =< Chosen
      BY DEF TypeInv, TypeOK, Room
    <3> QED
      BY <1>1, <2>4, <3>1
  <2>6. pc'["parser"] \in {"type", "call"} => updates' >= 1
    BY <1>1, <2>1
  <2> QED
    BY <1>1, <2>4, <2>5, <2>6, SameRoom DEF TypeInv, TypeOK
<1>11. Place'
  <2>1. handle'["main"] = handle["main"]
    BY <1>2 DEF TypeInv, TypeOK, history
  <2>2. pc'["parser"] # "idle" => handle'["parser"] \in {"doEcho", "doDefault"}
    BY <1>1, <1>2, <1>3 DEF TypeInv, TypeOK, history
  <2> QED
    BY <1>1, <1>7, <2>1, <2>2 DEF TypeInv, Place, InCall, Critical
<1> QED
  BY <1>8, <1>9, <1>10, <1>11 DEF TypeInv

LEMMA TypeStep == TypeInv /\ [Next]_vars => TypeInv'
<1> SUFFICES ASSUME TypeInv, [Next]_vars PROVE TypeInv'
  OBVIOUS
<1>1. CASE SetInfo
  BY <1>1, SetInfoType
<1>2. ASSUME NEW t \in Threads, Register(t) PROVE TypeInv'
  BY <1>2, SetTypeType, CallAddType, SemWaitType, WritesType, SemPostType DEF Register
<1>3. ASSUME NEW update \in Updates, Dispatch(update) PROVE TypeInv'
  BY <1>3, DispatchType
<1>4. CASE UNCHANGED vars
  BY <1>4 DEF vars, history, TypeInv, TypeOK, Exclusion, Room, Place, Chosen,
              MainChose, ParserChose
<1> QED
  BY <1>1, <1>2, <1>3, <1>4 DEF Next

\* TypeInv is inductive: what TypeCorrect and the theorems below rest on.
THEOREM Typing == Spec => []TypeInv
<1> QED
  BY TypeInit, TypeStep, PTL DEF Spec

\* The variables keep the values the code can give them, and the lookup for a
\* free slot never fails (addUpdateNotifier).
THEOREM TypeCorrect == Spec => []TypeOK
<1>1. TypeInv => TypeOK
  BY DEF TypeInv
<1> QED
  BY Typing, <1>1, PTL

-----------------------------------------------------------------------------
(* What main registers stays in the table *)

Written == {"write_type", "write_info", "post"}

\* starteco and stopeco run during a registration that is in struck.
Struck == pc["parser"] # "idle" /\ ~MainDone => k \in struck

\* A thread's handler is in its slot from WriteHandle on.
Handed == \A t \in Threads :
            pc[t] \in Written => notifiers[slot[t]].handle = handle[t]

\* What main has of a registration that nothing runs during.
Own ==
  k \notin struck /\ ~MainDone =>
    /\ pc["main"] # "type" => event.type = Registrations[k].type
    /\ pc["main"] \notin {"type", "info"} /\ k # 1 =>
         event.info = Registrations[k].info
    /\ pc["main"] \in InCall => (slot["main"] = 0 <=> k = 1)
    /\ pc["main"] \in {"write_info", "post"} /\ k # 1 =>
         notifiers[slot["main"]].type = Registrations[k].type
    /\ pc["main"] = "post" /\ k # 1 =>
         notifiers[slot["main"]].info = Registrations[k].info

\* The registrations main has made are in slots nobody is about to write.
Finished == IF MainDone THEN 1..9 ELSE 1..(k - 1)

Untouched(s) == \A t \in Threads : slot[t] # s

Kept == \A n \in Finished \ struck :
          n # 1 => \E s \in Slots : Untouched(s) /\ notifiers[s] = Registrations[n]

RegisteredInv == Struck /\ Handed /\ Own /\ Kept

LEMMA RegisteredInit == Init => RegisteredInv
<1> SUFFICES ASSUME Init PROVE RegisteredInv
  OBVIOUS
<1>1. pc["main"] = "type" /\ pc["parser"] = "idle" /\ k = 1
  BY ThreadFacts DEF Init
<1>2. \A t \in Threads : pc[t] \notin Written
  BY <1>1, ThreadFacts DEF Written
<1>3. ~MainDone /\ Finished = {}
  BY <1>1 DEF MainDone, Finished
<1>4. Struck /\ Handed /\ Kept
  BY <1>1, <1>2, <1>3 DEF Struck, Handed, Kept
<1>5. Own
  BY <1>1 DEF Own, InCall, Critical
<1> QED
  BY <1>4, <1>5 DEF RegisteredInv

\* A step keeps what is registered when it writes and takes no slot of it.
LEMMA SameKept ==
  ASSUME TypeInv, Kept,
         \A s \in Slots : Untouched(s) /\ notifiers[s].type # "UPDATE_NONE" =>
           notifiers'[s] = notifiers[s] /\ \A t \in Threads : slot'[t] # s,
         Finished' = Finished, struck \subseteq struck'
  PROVE  Kept'
<1> SUFFICES ASSUME NEW n \in Finished \ struck, n # 1
             PROVE  \E s \in Slots : /\ \A t \in Threads : slot'[t] # s
                                     /\ notifiers'[s] = Registrations[n]
  BY DEF Kept, Untouched
<1>1. PICK s \in Slots : Untouched(s) /\ notifiers[s] = Registrations[n]
  BY DEF Kept
<1>2. n \in 1..9
  BY RegistrationFacts DEF Finished, TypeInv, TypeOK
<1>3. notifiers[s].type # "UPDATE_NONE"
  BY <1>1, <1>2, RegistrationFacts
<1> QED
  BY <1>1, <1>3

\* A step of starteco or stopeco is a step during a registration of struck.
LEMMA ParserOwn ==
  ASSUME Struck, pc["parser"] # "idle", pc'["main"] = pc["main"], k' = k,
         struck \subseteq struck'
  PROVE  Own'
BY DEF Struck, Own, MainDone

LEMMA SetInfoRegistered ==
  ASSUME TypeInv, RegisteredInv, SetInfo
  PROVE  RegisteredInv'
<1> USE ThreadFacts DEF RegisteredInv
<1>1. /\ pc["main"] = "info" /\ pc' = [pc EXCEPT !["main"] = "call"]
      /\ event' = [event EXCEPT !.info = Registrations[k].info]
      /\ UNCHANGED <<notifiers, mutex, k, handle, slot, given, updates, history>>
  BY DEF SetInfo, Goto
<1>2. pc'["main"] = "call" /\ pc'["parser"] = pc["parser"]
  BY <1>1 DEF TypeInv, TypeOK
<1>3. event'.type = event.type /\ event'.info = Registrations[k].info
  BY <1>1 DEF TypeInv, TypeOK
<1>4. MainDone' = MainDone /\ struck' = struck
  BY <1>1, <1>2 DEF MainDone, history
<1>5. Struck'
  BY <1>1, <1>2, <1>4 DEF Struck
<1>6. Handed'
  BY <1>1, <1>2 DEF Handed, Written
<1>7. Own'
  BY <1>1, <1>2, <1>3, <1>4 DEF Own, InCall, Critical
<1>8. Kept'
  BY <1>1, <1>4, SameKept DEF Finished, Untouched
<1> QED
  BY <1>5, <1>6, <1>7, <1>8

LEMMA SetTypeRegistered ==
  ASSUME TypeInv, RegisteredInv, NEW t \in Threads, SetType(t)
  PROVE  RegisteredInv'
<1> USE ThreadFacts DEF RegisteredInv
<1> DEFINE to == IF TypeOf(t) = "UPDATE_ANY" THEN "call" ELSE "info"
<1>1. /\ pc[t] = "type" /\ pc' = [pc EXCEPT ![t] = to]
      /\ event' = [event EXCEPT !.type = TypeOf(t)]
      /\ handle' = IF t = "main" THEN [handle EXCEPT ![t] = Registrations[k].handle]
                   ELSE handle
      /\ UNCHANGED <<notifiers, mutex, k, slot, given, updates, history>>
  BY DEF SetType, Goto
<1>2. \A u \in Threads : pc'[u] = IF u = t THEN to ELSE pc[u]
  BY <1>1 DEF TypeInv, TypeOK
<1>3. to \in {"info", "call"}
  OBVIOUS
<1>4. t = "main" => /\ TypeOf(t) = Registrations[k].type
                    /\ to = "call" => k = 1
  BY RegistrationFacts DEF TypeInv, TypeOK, TypeOf
<1>5. event'.type = TypeOf(t)
  BY <1>1 DEF TypeInv, TypeOK
<1> HIDE DEF to
<1>6. MainDone' = MainDone /\ struck' = struck
  BY <1>1, <1>2, <1>3 DEF MainDone, history
<1>7. Struck'
  BY <1>1, <1>2, <1>6 DEF Struck
<1>8. Handed'
  <2>1. \A u \in Threads : pc'[u] \in Written => u # t /\ pc'[u] = pc[u]
    BY <1>2, <1>3 DEF Written
  <2>2. \A u \in Threads : u # t => handle'[u] = handle[u]
    BY <1>1 DEF TypeInv, TypeOK
  <2> QED
    BY <1>1, <2>1, <2>2 DEF Handed
<1>9. Own'
  <2>1. CASE t = "main"
    BY <1>1, <1>2, <1>3, <1>4, <1>5, <1>6, <2>1 DEF Own, InCall, Critical
  <2>2. CASE t = "parser"
    BY <1>1, <1>2, <1>6, <2>2, ParserOwn
  <2> QED
    BY <2>1, <2>2
<1>10. Kept'
  BY <1>1, <1>6, SameKept DEF Finished, Untouched
<1> QED
  BY <1>7, <1>8, <1>9, <1>10

LEMMA CallAddRegistered ==
  ASSUME TypeInv, RegisteredInv, NEW t \in Threads, CallAdd(t)
  PROVE  RegisteredInv'
<1> USE ThreadFacts DEF RegisteredInv
<1>1. /\ pc[t] = "call" /\ pc' = [pc EXCEPT ![t] = "wait"]
      /\ slot' = [slot EXCEPT ![t] = SlotFor]
      /\ UNCHANGED <<event, notifiers, mutex, k, handle, given, updates, history>>
  BY DEF CallAdd, Goto
<1>2. \A u \in Threads : /\ pc'[u] = IF u = t THEN "wait" ELSE pc[u]
                         /\ slot'[u] = IF u = t THEN SlotFor ELSE slot[u]
  BY <1>1 DEF TypeInv, TypeOK
<1>3. /\ event.type = "UPDATE_ANY" => SlotFor = 0
      /\ event.type # "UPDATE_ANY" =>
           SlotFor \in Slots /\ notifiers[SlotFor].type = "UPDATE_NONE"
  BY <1>1, SlotFacts
<1>4. MainDone' = MainDone /\ struck' = struck
  BY <1>1, <1>2 DEF MainDone, history
<1>5. Struck'
  BY <1>1, <1>2, <1>4 DEF Struck
<1>6. Handed'
  BY <1>1, <1>2 DEF Handed, Written
<1>7. Own'
  <2>1. CASE t = "main"
    <3>1. Registrations[k].type = "UPDATE_ANY" <=> k = 1
      BY RegistrationFacts DEF TypeInv, TypeOK
    <3>2. \A s \in Slots : s # 0
      BY TableFacts
    <3> QED
      BY <1>1, <1>2, <1>3, <1>4, <2>1, <3>1, <3>2 DEF Own, InCall, Critical
  <2>2. CASE t = "parser"
    BY <1>1, <1>2, <1>4, <2>2, ParserOwn
  <2> QED
    BY <2>1, <2>2
<1>8. Kept'
  <2>1. \A s \in Slots : notifiers[s].type # "UPDATE_NONE" => SlotFor # s
    BY <1>3, TableFacts
  <2> QED
    BY <1>1, <1>2, <1>4, <2>1, SameKept DEF Finished, Untouched
<1> QED
  BY <1>5, <1>6, <1>7, <1>8

LEMMA SemWaitRegistered ==
  ASSUME TypeInv, RegisteredInv, NEW t \in Threads, SemWait(t)
  PROVE  RegisteredInv'
<1> USE ThreadFacts DEF RegisteredInv
<1>1. /\ pc[t] = "wait" /\ pc' = [pc EXCEPT ![t] = "write_handle"]
      /\ UNCHANGED <<event, notifiers, k, handle, slot, given, updates, history>>
  BY DEF SemWait, Goto
<1>2. \A u \in Threads : pc'[u] = IF u = t THEN "write_handle" ELSE pc[u]
  BY <1>1 DEF TypeInv, TypeOK
<1>3. MainDone' = MainDone /\ struck' = struck
  BY <1>1, <1>2 DEF MainDone, history
<1>4. Struck'
  BY <1>1, <1>2, <1>3 DEF Struck
<1>5. Handed'
  BY <1>1, <1>2 DEF Handed, Written
<1>6. Own'
  BY <1>1, <1>2, <1>3, ParserOwn DEF Own, InCall, Critical
<1>7. Kept'
  BY <1>1, <1>3, SameKept DEF Finished, Untouched
<1> QED
  BY <1>4, <1>5, <1>6, <1>7

\* What the three writes have in common: t writes its slot and no other.
LEMMA Writes ==
  ASSUME TypeInv, NEW t \in Threads, WriteHandle(t) \/ WriteType(t) \/ WriteInfo(t)
  PROVE  /\ pc[t] \in Critical /\ pc[t] # "post" /\ pc'[t] \in Written
         /\ \A u \in Threads : u # t => /\ pc'[u] = pc[u]
                                        /\ pc[u] \notin Critical
         /\ \A s \in AllSlots : s # slot[t] => notifiers'[s] = notifiers[s]
         /\ slot[t] \in AllSlots
         /\ UNCHANGED <<event, mutex, k, handle, slot, given, updates, history>>
         /\ MainDone' = MainDone
<1> USE ThreadFacts
<1>1. /\ pc[t] \in {"write_handle", "write_type", "write_info"}
      /\ UNCHANGED <<event, mutex, k, handle, slot, given, updates, history>>
  BY DEF WriteHandle, WriteType, WriteInfo, Goto
<1>2. PICK to \in Written : pc' = [pc EXCEPT ![t] = to]
  BY DEF WriteHandle, WriteType, WriteInfo, Goto, Written
<1>3. pc'[t] = to /\ \A u \in Threads : u # t => pc'[u] = pc[u]
  BY <1>2 DEF TypeInv, TypeOK
<1>4. \A u \in Threads : u # t => pc[u] \notin Critical
  BY <1>1 DEF TypeInv, Exclusion, Critical
<1>5. \A s \in AllSlots : s # slot[t] => notifiers'[s] = notifiers[s]
  BY DEF WriteHandle, WriteType, WriteInfo, TypeInv, TypeOK
<1>6. MainDone' = MainDone
  BY <1>1, <1>3 DEF MainDone, Written
<1> QED
  BY <1>1, <1>3, <1>4, <1>5, <1>6 DEF TypeInv, TypeOK, Critical

LEMMA WritesRegistered ==
  ASSUME TypeInv, RegisteredInv, NEW t \in Threads,
         WriteHandle(t) \/ WriteType(t) \/ WriteInfo(t)
  PROVE  RegisteredInv'
<1> USE ThreadFacts, Writes DEF RegisteredInv
<1>1. Struck'
  <2>1. struck' = struck
    BY DEF history
  <2> QED
    BY <2>1 DEF Struck, Critical, Written
<1>2. notifiers'[slot[t]].handle = handle[t]
  <2>1. CASE WriteHandle(t)
    BY <2>1 DEF WriteHandle, TypeInv, TypeOK
  <2>2. CASE WriteType(t)
    BY <2>2 DEF WriteType, Goto, TypeInv, TypeOK, Handed, Written
  <2>3. CASE WriteInfo(t)
    BY <2>3 DEF WriteInfo, Goto, TypeInv, TypeOK, Handed, Written
  <2> QED
    BY <2>1, <2>2, <2>3
<1>3. Handed'
  BY <1>2 DEF Handed, Written, Critical
<1>4. Kept'
  <2>1. \A s \in Slots : Untouched(s) => s # slot[t] /\ s \in AllSlots
    BY TableFacts DEF Untouched
  <2>2. Finished' = Finished /\ struck' = struck
    BY DEF Finished, history
  <2> QED
    BY <2>1, <2>2, SameKept DEF Untouched
<1>5. Own'
  <2>1. CASE t = "parser"
    <3>1. /\ pc["parser"] # "idle" /\ pc'["main"] = pc["main"] /\ k' = k
          /\ struck' = struck
      BY <2>1 DEF Critical, history
    <3> QED
      BY <3>1, ParserOwn
  <2>2. CASE t = "main"
    <3> SUFFICES ASSUME k \notin struck, ~MainDone
                 PROVE  /\ event.type = Registrations[k].type
                        /\ k # 1 => event.info = Registrations[k].info
                        /\ slot["main"] = 0 <=> k = 1
                        /\ pc'["main"] \in {"write_info", "post"} /\ k # 1 =>
                             notifiers'[slot["main"]].type = Registrations[k].type
                        /\ pc'["main"] = "post" /\ k # 1 =>
                             notifiers'[slot["main"]].info = Registrations[k].info
      BY <2>2 DEF Own, Written, history
    <3>1. /\ event.type = Registrations[k].type
          /\ k # 1 => event.info = Registrations[k].info
          /\ slot["main"] = 0 <=> k = 1
      BY <2>2 DEF Own, Critical, InCall
    <3>2. CASE WriteHandle("main")
      BY <3>1, <3>2 DEF WriteHandle, Goto, TypeInv, TypeOK
    <3>3. CASE WriteType("main")
      BY <3>1, <3>3 DEF WriteType, Goto, TypeInv, TypeOK
    <3>4. CASE WriteInfo("main")
      <4>1. /\ notifiers' = [notifiers EXCEPT ![slot["main"]].info = event.info]
            /\ pc["main"] = "write_info"
        BY <3>4 DEF WriteInfo, Goto
      <4>2. k # 1 => notifiers[slot["main"]].type = Registrations[k].type
        BY <4>1 DEF Own
      <4> QED
        BY <2>2, <3>1, <4>1, <4>2 DEF TypeInv, TypeOK
    <3> QED
      BY <2>2, <3>1, <3>2, <3>3, <3>4
  <2> QED
    BY <2>1, <2>2
<1> QED
  BY <1>1, <1>3, <1>4, <1>5

LEMMA SemPostRegistered ==
  ASSUME TypeInv, RegisteredInv, NEW t \in Threads, SemPost(t)
  PROVE  RegisteredInv'
<1> USE ThreadFacts, RegistrationFacts DEF RegisteredInv
<1>1. /\ pc[t] = "post" /\ UNCHANGED <<event, notifiers, given, updates, eco, early>>
      /\ handle' = [handle EXCEPT ![t] = "NULL"] /\ slot' = [slot EXCEPT ![t] = 0]
  BY DEF SemPost, Goto
<1>2. \A u \in Threads : u # t => handle'[u] = handle[u] /\ slot'[u] = slot[u]
  BY <1>1 DEF TypeInv, TypeOK
<1>3. slot'[t] = 0
  BY <1>1 DEF TypeInv, TypeOK
<1>4. \A s \in Slots : Untouched(s) => \A u \in Threads : slot'[u] # s
  BY <1>2, <1>3, TableFacts DEF Untouched
<1>5. k \in 1..9
  BY DEF TypeInv, TypeOK
<1>6. CASE t = "parser"
  <2>1. /\ pc' = [pc EXCEPT !["parser"] = "idle"] /\ k' = k /\ struck' = struck
    BY <1>6 DEF SemPost, Goto
  <2>2. pc'["parser"] = "idle" /\ pc'["main"] = pc["main"]
    BY <2>1 DEF TypeInv, TypeOK
  <2>3. Struck'
    BY <2>2 DEF Struck
  <2>4. Handed'
    BY <1>1, <1>2, <1>6, <2>2 DEF Handed, Written
  <2>5. Own'
    BY <1>1, <1>6, <2>1, <2>2, ParserOwn
  <2>6. Kept'
    BY <1>1, <1>4, <2>1, <2>2, SameKept DEF Finished, MainDone
  <2> QED
    BY <2>3, <2>4, <2>5, <2>6
<1>7. CASE t = "main"
  <2>1. /\ pc'["main"] \in {"type", "idle"} /\ pc'["parser"] = pc["parser"]
        /\ k < 9 => /\ pc'["main"] = "type" /\ k' = k + 1
                    /\ struck' = struck \union
                         (IF pc["parser"] = "idle" THEN {} ELSE {k + 1})
        /\ ~(k < 9) => pc'["main"] = "idle" /\ k' = k /\ struck' = struck
    BY <1>7 DEF SemPost, Goto, TypeInv, TypeOK
  <2>2. Struck'
    BY <2>1 DEF Struck, MainDone
  <2>3. Handed'
    BY <1>1, <1>2, <1>7, <2>1 DEF Handed, Written
  <2>4. Own'
    BY <2>1 DEF Own, MainDone, InCall, Critical
  <2>5. ~MainDone /\ struck \subseteq struck' /\ Finished = 1..(k - 1)
    BY <1>1, <1>7, <2>1 DEF MainDone, Finished
  <2>6. Finished' = 1..k
    <3>1. CASE k < 9
      <4>1. ~MainDone' /\ (k + 1) - 1 = k
        BY <1>5, <2>1, <3>1 DEF MainDone
      <4> QED
        BY <2>1, <3>1, <4>1 DEF Finished
    <3>2. CASE ~(k < 9)
      <4>1. MainDone' /\ k = 9
        BY <1>5, <2>1, <3>2 DEF MainDone
      <4> QED
        BY <4>1 DEF Finished
    <3> QED
      BY <3>1, <3>2
  <2>7. ASSUME NEW n \in 1..(k - 1), n \notin struck, n # 1
        PROVE  \E s \in Slots : (\A u \in Threads : slot'[u] # s)
                                /\ notifiers'[s] = Registrations[n]
    BY <1>1, <1>4, <2>5, <2>7 DEF Kept
  <2>8. ASSUME k \notin struck, k # 1
        PROVE  \E s \in Slots : (\A u \in Threads : slot'[u] # s)
                                /\ notifiers'[s] = Registrations[k]
    <3>1. slot["main"] \in Slots /\ slot["main"] # 0
      BY <1>1, <1>7, <2>5, <2>8, TableFacts DEF Own, InCall, Critical, TypeInv, TypeOK
    <3>2. /\ notifiers[slot["main"]].type = Registrations[k].type
          /\ notifiers[slot["main"]].info = Registrations[k].info
      BY <1>1, <1>7, <2>5, <2>8 DEF Own
    <3>3. notifiers[slot["main"]].handle = Registrations[k].handle
      BY <1>1, <1>7 DEF Handed, Written, TypeInv, Place, InCall, Critical
    <3>4. notifiers[slot["main"]] = Registrations[k]
      <4>1. /\ notifiers[slot["main"]] \in [type : Types, info : Infos, handle : Handlers]
            /\ Registrations[k] \in [type : Types, info : Infos, handle : Handlers]
        BY <1>5, <3>1, TableFacts DEF TypeInv, TypeOK
      <4> QED
        BY <3>2, <3>3, <4>1
    <3>5. pc["parser"] = "idle"
      BY <2>5, <2>8 DEF Struck
    <3>6. slot["parser"] = 0
      BY <3>5 DEF TypeInv, Place, InCall, Critical
    <3>7. \A u \in Threads : slot'[u] = 0
      BY <1>2, <1>3, <1>7, <3>6
    <3> QED
      BY <1>1, <3>1, <3>4, <3>7
  <2>9. Kept'
    <3> SUFFICES ASSUME NEW n \in 1..k, n \notin struck, n # 1
                 PROVE  \E s \in Slots : (\A u \in Threads : slot'[u] # s)
                                         /\ notifiers'[s] = Registrations[n]
      BY <2>5, <2>6 DEF Kept, Untouched
    <3>1. n = k \/ n \in 1..(k - 1)
      BY <1>5
    <3> QED
      BY <2>7, <2>8, <3>1
  <2> QED
    BY <2>2, <2>3, <2>4, <2>9
<1> QED
  BY <1>6, <1>7

LEMMA DispatchRegistered ==
  ASSUME TypeInv, RegisteredInv, NEW update \in Updates, Dispatch(update)
  PROVE  RegisteredInv'
<1> USE ThreadFacts DEF RegisteredInv
<1>1. /\ pc["parser"] = "idle"
      /\ UNCHANGED <<event, notifiers, mutex, k, slot>>
  BY DEF Dispatch
<1>2. \/ UNCHANGED <<pc, handle, history>>
      \/ /\ pc' = [pc EXCEPT !["parser"] = "type"]
         /\ \E h : handle' = [handle EXCEPT !["parser"] = h]
         /\ struck' = struck \union (IF MainDone THEN {} ELSE {k})
  BY DEF Dispatch
<1>3. pc'["main"] = pc["main"] /\ pc'["parser"] \in {"idle", "type"}
      /\ handle'["main"] = handle["main"] /\ MainDone' = MainDone
  BY <1>1, <1>2 DEF TypeInv, TypeOK, MainDone
<1>4. /\ struck \subseteq struck'
      /\ pc'["parser"] # "idle" /\ ~MainDone => k \in struck'
  BY <1>1, <1>2 DEF TypeInv, TypeOK, history
<1>5. Struck'
  BY <1>1, <1>3, <1>4 DEF Struck
<1>6. Handed'
  BY <1>1, <1>3 DEF Handed, Written
<1>7. Own'
  BY <1>1, <1>3, <1>4 DEF Own
<1>8. Kept'
  BY <1>1, <1>3, <1>4, SameKept DEF Finished, Untouched
<1> QED
  BY <1>5, <1>6, <1>7, <1>8

LEMMA RegisteredStep == TypeInv /\ RegisteredInv /\ [Next]_vars => RegisteredInv'
<1> SUFFICES ASSUME TypeInv, RegisteredInv, [Next]_vars PROVE RegisteredInv'
  OBVIOUS
<1>1. CASE SetInfo
  BY <1>1, SetInfoRegistered
<1>2. ASSUME NEW t \in Threads, Register(t) PROVE RegisteredInv'
  BY <1>2, SetTypeRegistered, CallAddRegistered, SemWaitRegistered,
     WritesRegistered, SemPostRegistered DEF Register
<1>3. ASSUME NEW update \in Updates, Dispatch(update) PROVE RegisteredInv'
  BY <1>3, DispatchRegistered
<1>4. CASE UNCHANGED vars
  BY <1>4 DEF vars, history, RegisteredInv, Struck, Handed, Own, Kept, Finished,
              MainDone, Untouched
<1> QED
  BY <1>1, <1>2, <1>3, <1>4 DEF Next

\* Every command of main is in the table once main is in its last loop, but for
\* those a starteco or stopeco ran during: it cannot do more harm than that,
\* whatever it makes of event (testbot.c:499).
THEOREM CommandsRegistered == Spec => []Registered
<1>1. TypeInv /\ RegisteredInv => Registered
  <2> SUFFICES ASSUME TypeInv, RegisteredInv, MainDone,
                      NEW n \in 1..9, n \notin struck,
                      Registrations[n].type # "UPDATE_ANY"
               PROVE  InTable(Registrations[n])
    BY RegistrationFacts DEF Registered
  <2>1. n # 1 /\ n \in Finished
    BY RegistrationFacts DEF Finished
  <2> QED
    BY <2>1 DEF RegisteredInv, Kept, InTable
<1>2. Spec => []RegisteredInv
  BY RegisteredInit, RegisteredStep, Typing, PTL DEF Spec
<1> QED
  BY Typing, <1>1, <1>2, PTL

-----------------------------------------------------------------------------
(* No command goes to another's handler *)

Defaults == {"ignoreUpdate", "doDefault", "doEcho", "NULL"}

\* The handler of a slot is a default, or it is there with its own event, or it
\* is of a registration that starteco or stopeco ran during.
Tame(s) ==
  \/ notifiers[s].handle \in Defaults
  \/ \E n \in 1..9 : /\ Registrations[n].handle = notifiers[s].handle
                     /\ \/ n \in struck
                        \/ /\ Registrations[n].type = notifiers[s].type
                           /\ Registrations[n].info = notifiers[s].info

\* All slots are, but for the one main is writing.
AllTame ==
  \A s \in AllSlots :
    Tame(s) \/ (pc["main"] \in {"write_type", "write_info"} /\ s = slot["main"])

StrangerInv == AllTame /\ NoStranger

LEMMA StrangerInit == Init => StrangerInv
BY DEF Init, StrangerInv, AllTame, NoStranger, Tame, Defaults

\* A slot that is not written stays tame.
LEMMA SameTame ==
  ASSUME NEW s, Tame(s), notifiers'[s] = notifiers[s], struck \subseteq struck'
  PROVE  Tame(s)'
BY DEF Tame

LEMMA SameStranger ==
  ASSUME NoStranger, given' = given, struck \subseteq struck'
  PROVE  NoStranger'
BY DEF NoStranger

LEMMA WritesTame ==
  ASSUME TypeInv, RegisteredInv, RegisteredInv', AllTame, NEW t \in Threads,
         WriteHandle(t) \/ WriteType(t) \/ WriteInfo(t)
  PROVE  AllTame'
<1> USE ThreadFacts, Writes, RegistrationFacts
<1>1. /\ struck' = struck /\ slot' = slot /\ handle' = handle /\ k' = k
  BY DEF history
<1> PICK w \in AllSlots : w = slot[t]
  OBVIOUS
<1>2. notifiers'[w].handle = handle[t]
  BY <1>1 DEF RegisteredInv, Handed
<1>3. k \in 1..9
  BY DEF TypeInv, TypeOK
<1>4. CASE t = "parser"
  <2>1. handle["parser"] \in Defaults
    BY <1>4 DEF TypeInv, Place, Defaults, Critical
  <2>2. Tame(w)'
    BY <1>1, <1>2, <1>4, <2>1 DEF Tame
  <2>3. pc["main"] \notin {"write_type", "write_info"}
    BY <1>4 DEF Critical
  <2>4. ASSUME NEW s \in AllSlots, s # w PROVE Tame(s)'
    BY <1>1, <2>3, <2>4, SameTame DEF AllTame
  <2> QED
    BY <2>2, <2>4 DEF AllTame
<1>5. CASE t = "main"
  <2>1. handle["main"] = Registrations[k].handle
    BY <1>5 DEF TypeInv, Place, InCall, Critical
  <2>2. CASE pc'["main"] = "post"
    <3>1. ASSUME k \in struck PROVE Tame(w)'
      BY <1>1, <1>2, <1>3, <1>5, <2>1, <3>1 DEF Tame
    <3>2. ASSUME k \notin struck, k # 1 PROVE Tame(w)'
      <4>1. /\ notifiers'[w].type = Registrations[k].type
            /\ notifiers'[w].info = Registrations[k].info
        BY <1>1, <1>5, <2>2, <3>2 DEF RegisteredInv, Own, MainDone
      <4> QED
        BY <1>1, <1>2, <1>3, <1>5, <2>1, <4>1 DEF Tame
    <3>3. ASSUME k = 1 PROVE Tame(w)'
      BY <1>1, <1>2, <1>5, <2>1, <3>3 DEF Tame, Defaults
    <3>4. Tame(w)'
      BY <3>1, <3>2, <3>3
    <3>5. ASSUME NEW s \in AllSlots, s # w PROVE Tame(s)'
      BY <1>1, <1>5, <3>5, SameTame DEF AllTame
    <3> QED
      BY <3>4, <3>5 DEF AllTame
  <2>3. CASE pc'["main"] # "post"
    <3>1. pc'["main"] \in {"write_type", "write_info"}
      BY <1>5, <2>3 DEF Written
    <3>2. ASSUME NEW s \in AllSlots, s # w PROVE Tame(s)'
      BY <1>1, <1>5, <3>2, SameTame DEF AllTame
    <3> QED
      BY <1>1, <1>5, <3>1, <3>2 DEF AllTame
  <2> QED
    BY <2>2, <2>3
<1> QED
  BY <1>4, <1>5

\* A step that writes no slot and takes main neither into the writes nor out.
LEMMA OtherTame ==
  ASSUME AllTame, notifiers' = notifiers, struck \subseteq struck',
         pc["main"] \notin {"write_type", "write_info"} \/
           (pc'["main"] = pc["main"] /\ slot'["main"] = slot["main"])
  PROVE  AllTame'
<1>1. ASSUME NEW s \in AllSlots, Tame(s) PROVE Tame(s)'
  BY <1>1, SameTame
<1> QED
  BY <1>1 DEF AllTame

LEMMA RegisterStranger ==
  ASSUME TypeInv, RegisteredInv, RegisteredInv', StrangerInv,
         NEW t \in Threads, Register(t)
  PROVE  StrangerInv'
<1> USE ThreadFacts DEF StrangerInv
<1>1. given' = given /\ struck \subseteq struck'
  BY DEF Register, SetType, CallAdd, SemWait, WriteHandle, WriteType, WriteInfo,
         SemPost, history
<1>2. NoStranger'
  BY <1>1, SameStranger
<1>3. CASE SetType(t) \/ CallAdd(t) \/ SemWait(t) \/ SemPost(t)
  <2>1. /\ notifiers' = notifiers /\ pc[t] \in {"type", "call", "wait", "post"}
        /\ \E to : pc' = [pc EXCEPT ![t] = to]
    BY <1>3 DEF SetType, CallAdd, SemWait, SemPost, Goto
  <2>2. \E to : slot' = [slot EXCEPT ![t] = to]
    <3>1. slot = [slot EXCEPT ![t] = slot[t]]
      BY DEF TypeInv, TypeOK
    <3> QED
      BY <1>3, <3>1 DEF SetType, CallAdd, SemWait, SemPost
  <2>3. \A u \in Threads : u # t => pc'[u] = pc[u] /\ slot'[u] = slot[u]
    BY <2>1, <2>2 DEF TypeInv, TypeOK
  <2> QED
    BY <1>1, <1>2, <2>1, <2>3, OtherTame
<1>4. CASE WriteHandle(t) \/ WriteType(t) \/ WriteInfo(t)
  BY <1>2, <1>4, WritesTame
<1> QED
  BY <1>3, <1>4 DEF Register

LEMMA DispatchStranger ==
  ASSUME TypeInv, StrangerInv, NEW update \in Updates, Dispatch(update)
  PROVE  StrangerInv'
<1> USE ThreadFacts DEF StrangerInv
<1>1. /\ mutex = 1 /\ UNCHANGED <<event, notifiers, mutex, k, slot>>
      /\ given' = [type |-> update.type, key |-> update.key, handle |-> Match(update)]
  BY DEF Dispatch
<1>2. struck \subseteq struck' /\ pc'["main"] = pc["main"]
  BY DEF Dispatch, TypeInv, TypeOK, history
<1>3. AllTame'
  BY <1>1, <1>2, OtherTame
<1>4. pc["main"] \notin {"write_type", "write_info"}
  BY <1>1 DEF TypeInv, Exclusion, Critical
<1>5. PICK s \in AllSlots :
        /\ Match(update) = notifiers[s].handle
        /\ s # 0 => /\ notifiers[s].type = update.type
                    /\ notifiers[s].info \in {update.key, "empty"}
  BY MatchFacts
<1>6. Tame(s)
  BY <1>4 DEF AllTame
<1>7. CASE Match(update) \in Defaults
  <2>1. given'.handle = Match(update)
    BY <1>1
  <2>2. NoStranger'
    BY <1>7, <2>1 DEF NoStranger, Defaults
  <2> QED
    BY <1>3, <2>2
<1>8. CASE Match(update) \notin Defaults
  <2>1. PICK n \in 1..9 : /\ Registrations[n].handle = Match(update)
                          /\ \/ n \in struck
                             \/ /\ Registrations[n].type = notifiers[s].type
                                /\ Registrations[n].info = notifiers[s].info
    BY <1>5, <1>6, <1>8 DEF Tame
  <2>2. n # 1
    BY <1>8, <2>1, RegistrationFacts DEF Defaults
  <2>3. n \in struck \/ s # 0
    BY <2>1, <2>2, RegistrationFacts DEF TypeInv, Place
  <2>4. /\ given'.type = update.type /\ given'.key = update.key
        /\ given'.handle = Match(update)
    BY <1>1
  <2> QED
    BY <1>2, <1>3, <1>5, <2>1, <2>3, <2>4, RegistrationFacts DEF NoStranger
<1> QED
  BY <1>3, <1>7, <1>8

LEMMA StrangerStep ==
  TypeInv /\ RegisteredInv /\ RegisteredInv' /\ StrangerInv /\ [Next]_vars =>
    StrangerInv'
<1> SUFFICES ASSUME TypeInv, RegisteredInv, RegisteredInv', StrangerInv, [Next]_vars
             PROVE  StrangerInv'
  OBVIOUS
<1>1. CASE SetInfo
  <2>1. /\ pc["main"] = "info"
        /\ UNCHANGED <<notifiers, given, struck>>
    BY <1>1 DEF SetInfo, Goto, history
  <2> QED
    BY <2>1, OtherTame, SameStranger DEF StrangerInv
<1>2. ASSUME NEW t \in Threads, Register(t) PROVE StrangerInv'
  BY <1>2, RegisterStranger
<1>3. ASSUME NEW update \in Updates, Dispatch(update) PROVE StrangerInv'
  BY <1>3, DispatchStranger
<1>4. CASE UNCHANGED vars
  <2>1. UNCHANGED <<notifiers, given, struck, pc, slot>>
    BY <1>4 DEF vars, history
  <2> QED
    BY <2>1, OtherTame, SameStranger DEF StrangerInv
<1> QED
  BY <1>1, <1>2, <1>3, <1>4 DEF Next

\* No command is ever given to another command's handler, not even while a slot
\* has its handler and not yet its event (findUpdateHandler).
THEOREM NoCommandAstray == Spec => []NoStranger
<1>1. Spec => []RegisteredInv
  BY RegisteredInit, RegisteredStep, Typing, PTL DEF Spec
<1>2. Spec => []StrangerInv
  BY <1>1, StrangerInit, StrangerStep, Typing, PTL DEF Spec
<1>3. StrangerInv => NoStranger
  BY DEF StrangerInv
<1> QED
  BY <1>2, <1>3, PTL

-----------------------------------------------------------------------------
(* The default is the one the last user asked for *)

\* As long as nothing came while main registered, main's own default is there
\* from its first registration on, ...
BeforeEco ==
  ~early /\ ~MainDone =>
    /\ struck = {} /\ pc["parser"] = "idle" /\ eco = "doDefault"
    /\ k > 1 \/ pc["main"] = "post" => notifiers[0].handle = "doDefault"

\* ... and what comes later finds event its own, and with it the first slot.
LateEco ==
  ~early /\ MainDone =>
    /\ pc["parser"] = "idle" => notifiers[0].handle = eco
    /\ pc["parser"] # "idle" => handle["parser"] = eco
    /\ pc["parser"] \notin {"idle", "type"} => event.type = "UPDATE_ANY"
    /\ pc["parser"] \in InCall => slot["parser"] = 0

EcoInv == BeforeEco /\ LateEco

LEMMA EcoInit == Init => EcoInv
<1> SUFFICES ASSUME Init PROVE EcoInv
  OBVIOUS
<1>1. /\ pc["main"] = "type" /\ pc["parser"] = "idle" /\ k = 1 /\ struck = {}
      /\ eco = "doDefault"
  BY ThreadFacts, RegistrationFacts DEF Init
<1> QED
  BY <1>1 DEF EcoInv, BeforeEco, LateEco, MainDone

LEMMA MainEco ==
  ASSUME TypeInv, RegisteredInv, EcoInv, SetInfo \/ Register("main")
  PROVE  EcoInv'
<1> USE ThreadFacts, TableFacts, RegistrationFacts DEF EcoInv
<1>1. /\ early' = early /\ eco' = eco /\ updates' = updates /\ pc["main"] # "idle"
      /\ pc'["parser"] = pc["parser"]
  BY DEF SetInfo, Register, SetType, CallAdd, SemWait, WriteHandle, WriteType,
         WriteInfo, SemPost, Goto, TypeInv, TypeOK, history
<1> SUFFICES ASSUME ~early PROVE EcoInv'
  BY <1>1 DEF BeforeEco, LateEco
<1>2. /\ ~MainDone /\ struck = {} /\ pc["parser"] = "idle" /\ eco = "doDefault"
      /\ k > 1 \/ pc["main"] = "post" => notifiers[0].handle = "doDefault"
  BY <1>1 DEF BeforeEco, MainDone
<1>3. k \in 1..9
  BY DEF TypeInv, TypeOK
<1>4. pc["main"] \in InCall => (slot["main"] = 0 <=> k = 1)
  BY <1>2 DEF RegisteredInv, Own
<1>5. CASE SetInfo \/ SetType("main") \/ CallAdd("main") \/ SemWait("main")
  <2>1. /\ UNCHANGED <<notifiers, k, struck>>
        /\ pc'["main"] \notin {"idle", "post"}
    BY <1>5 DEF SetInfo, SetType, CallAdd, SemWait, Goto, TypeInv, TypeOK, history
  <2> QED
    BY <1>1, <1>2, <2>1 DEF BeforeEco, LateEco, MainDone
<1>6. CASE WriteHandle("main") \/ WriteType("main") \/ WriteInfo("main")
  <2>1. /\ k' = k /\ struck' = struck /\ pc'["main"] # "idle" /\ slot' = slot
        /\ pc["main"] \in InCall /\ pc["main"] # "post"
    BY <1>6, Writes DEF history, Written, InCall
  <2>2. k > 1 => notifiers'[0] = notifiers[0]
    BY <1>3, <1>4, <1>6, <2>1, Writes
  <2>3. k = 1 => WriteHandle("main")
    BY <1>4, <1>6, <2>1 DEF WriteType, WriteInfo, Goto, TypeInv, Place
  <2>4. k = 1 => notifiers'[0].handle = "doDefault"
    <3>1. handle["main"] = Registrations[k].handle
      BY <2>1 DEF TypeInv, Place
    <3> QED
      BY <1>4, <2>1, <2>3, <3>1 DEF WriteHandle, TypeInv, TypeOK
  <2>5. k > 1 \/ k = 1
    BY <1>3
  <2> QED
    BY <1>1, <1>2, <2>1, <2>2, <2>4, <2>5 DEF BeforeEco, LateEco, MainDone
<1>7. CASE SemPost("main")
  <2>1. /\ pc["main"] = "post" /\ notifiers' = notifiers
        /\ k < 9 => pc'["main"] = "type" /\ struck' = struck
        /\ ~(k < 9) => pc'["main"] = "idle"
    BY <1>2, <1>7 DEF SemPost, Goto, TypeInv, TypeOK
  <2>2. CASE k < 9
    BY <1>1, <1>2, <2>1, <2>2 DEF BeforeEco, LateEco, MainDone
  <2>3. CASE ~(k < 9)
    BY <1>1, <1>2, <2>1, <2>3 DEF BeforeEco, LateEco, MainDone, InCall, Critical
  <2> QED
    BY <2>2, <2>3
<1> QED
  BY <1>5, <1>6, <1>7 DEF Register

LEMMA ParserEco ==
  ASSUME TypeInv, RegisteredInv, EcoInv, Register("parser")
  PROVE  EcoInv'
<1> USE ThreadFacts, TableFacts DEF EcoInv
<1>1. /\ early' = early /\ eco' = eco /\ pc["parser"] # "idle"
      /\ pc'["main"] = pc["main"]
  BY DEF Register, SetType, CallAdd, SemWait, WriteHandle, WriteType,
         WriteInfo, SemPost, Goto, TypeInv, TypeOK, history
<1> SUFFICES ASSUME ~early PROVE EcoInv'
  BY <1>1 DEF BeforeEco, LateEco
<1>2. MainDone /\ MainDone'
  BY <1>1 DEF BeforeEco, MainDone
<1>3. /\ handle["parser"] = eco
      /\ pc["parser"] # "type" => event.type = "UPDATE_ANY"
      /\ pc["parser"] \in InCall => slot["parser"] = 0
  BY <1>1, <1>2 DEF LateEco
<1> SUFFICES /\ pc'["parser"] = "idle" => notifiers'[0].handle = eco
             /\ pc'["parser"] # "idle" => handle'["parser"] = eco
             /\ pc'["parser"] \notin {"idle", "type"} => event'.type = "UPDATE_ANY"
             /\ pc'["parser"] \in InCall => slot'["parser"] = 0
  BY <1>1, <1>2 DEF BeforeEco, LateEco
<1>4. CASE SetType("parser")
  <2>1. /\ pc'["parser"] = "call" /\ handle' = handle
        /\ event'.type = "UPDATE_ANY"
    BY <1>4 DEF SetType, TypeOf, Goto, TypeInv, TypeOK
  <2> QED
    BY <1>3, <2>1 DEF InCall, Critical
<1>5. CASE CallAdd("parser")
  <2>1. /\ pc["parser"] = "call" /\ pc'["parser"] = "wait"
        /\ handle' = handle /\ event' = event /\ slot'["parser"] = SlotFor
    BY <1>5 DEF CallAdd, Goto, TypeInv, TypeOK
  <2>2. SlotFor = 0
    BY <1>3, <2>1, SlotFacts
  <2> QED
    BY <1>3, <2>1, <2>2
<1>6. CASE SemWait("parser")
  <2>1. /\ pc["parser"] = "wait" /\ pc'["parser"] = "write_handle"
        /\ handle' = handle /\ event' = event /\ slot' = slot
    BY <1>6 DEF SemWait, Goto, TypeInv, TypeOK
  <2> QED
    BY <1>3, <2>1 DEF InCall
<1>7. CASE WriteHandle("parser") \/ WriteType("parser") \/ WriteInfo("parser")
  <2>1. /\ pc["parser"] \in Critical /\ pc["parser"] # "type"
        /\ pc'["parser"] # "idle"
        /\ UNCHANGED <<event, handle, slot>>
    BY <1>7, Writes DEF Written, Critical
  <2> QED
    BY <1>3, <2>1 DEF InCall
<1>8. CASE SemPost("parser")
  <2>1. /\ pc["parser"] = "post" /\ pc'["parser"] = "idle" /\ notifiers' = notifiers
    BY <1>8 DEF SemPost, Goto, TypeInv, TypeOK
  <2>2. notifiers[slot["parser"]].handle = handle["parser"]
    BY <2>1 DEF RegisteredInv, Handed, Written
  <2> QED
    BY <1>3, <2>1, <2>2 DEF InCall, Critical
<1> QED
  BY <1>4, <1>5, <1>6, <1>7, <1>8 DEF Register

LEMMA DispatchEco ==
  ASSUME TypeInv, EcoInv, NEW update \in Updates, Dispatch(update)
  PROVE  EcoInv'
<1> USE ThreadFacts DEF EcoInv
<1>1. pc["parser"] = "idle" /\ UNCHANGED <<event, notifiers, mutex, k, slot>>
  BY DEF Dispatch
<1>2. CASE Match(update) \in DOMAIN Registers
  <2>1. /\ pc'["parser"] = "type" /\ pc'["main"] = pc["main"]
        /\ handle'["parser"] = Registers[Match(update)]
        /\ eco' = Registers[Match(update)]
        /\ early' = ~MainDone
    BY <1>2 DEF Dispatch, TypeInv, TypeOK
  <2> QED
    BY <2>1 DEF BeforeEco, LateEco, MainDone, InCall, Critical
<1>3. CASE Match(update) \notin DOMAIN Registers
  <2>1. UNCHANGED <<pc, handle, eco, early, struck>>
    BY <1>3 DEF Dispatch, history
  <2> QED
    BY <1>1, <2>1 DEF BeforeEco, LateEco, MainDone
<1> QED
  BY <1>2, <1>3

LEMMA EcoStep == TypeInv /\ RegisteredInv /\ EcoInv /\ [Next]_vars => EcoInv'
<1> SUFFICES ASSUME TypeInv, RegisteredInv, EcoInv, [Next]_vars PROVE EcoInv'
  OBVIOUS
<1>1. CASE SetInfo
  BY <1>1, MainEco
<1>2. ASSUME NEW t \in Threads, Register(t) PROVE EcoInv'
  BY <1>2, ThreadFacts, MainEco, ParserEco
<1>3. ASSUME NEW update \in Updates, Dispatch(update) PROVE EcoInv'
  BY <1>3, DispatchEco
<1>4. CASE UNCHANGED vars
  BY <1>4 DEF vars, history, EcoInv, BeforeEco, LateEco, MainDone
<1> QED
  BY <1>1, <1>2, <1>3, <1>4 DEF Next

\* Once main has registered, the default is the one the last starteco or
\* stopeco asked for, though they share event with main and with each other.
THEOREM DefaultFollows == Spec => []EcoFollows
<1>1. Spec => []RegisteredInv
  BY RegisteredInit, RegisteredStep, Typing, PTL DEF Spec
<1>2. Spec => []EcoInv
  BY <1>1, EcoInit, EcoStep, Typing, PTL DEF Spec
<1>3. EcoInv => EcoFollows
  BY DEF EcoInv, LateEco, EcoFollows, Quiet
<1> QED
  BY <1>2, <1>3, PTL

=============================================================================
