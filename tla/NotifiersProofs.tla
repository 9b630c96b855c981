--------------------------- MODULE NotifiersProofs --------------------------
(***************************************************************************)
(* Theorems about Notifiers.tla, for any threads, events, handlers and     *)
(* size of the table.                                                      *)
(***************************************************************************)
EXTENDS Notifiers, TLAPS

\* What a thread may rely on in the middle of a call.
CallOK(t) ==
  LET call == op[t] IN
  /\ pc[t] \in {"scan", "compare", "wait"} \union Writing =>
       /\ call \in Changes /\ call.kind \in {"add", "modify", "remove"}
       /\ call.kind # "remove" => call.new # "NULL"
                                  /\ call.event.type # "UPDATE_NONE"
  /\ pc[t] \in {"find"} \union Looking => call \in Lookups
  /\ pc[t] \in {"scan", "compare", "look"} => i[t] \in 1..MAX_UPDATE_EVENTS
  /\ pc[t] = "compare" => i[t] \in Slots /\ call.kind # "add"
  /\ pc[t] \in {"wait"} \union Writing => i[t] \in AllSlots
  /\ pc[t] \in {"write_type", "write_info"} => i[t] # 0
  /\ pc[t] = "write_type" => call.kind # "modify"
  /\ pc[t] = "write_info" => call.kind = "add"

\* A slot is never seen without a handler because add writes the handler
\* before the type, and remove the type before the handler.
OrderOK(t) ==
  /\ pc[t] = "write_type" /\ op[t].kind = "add" =>
       notifiers[i[t]].handle # "NULL"
  /\ pc[t] = "write_handle" /\ op[t].kind = "remove" /\ i[t] # 0 =>
       notifiers[i[t]].type = "UPDATE_NONE"

TableInv ==
  /\ TypeOK /\ MutexHeld /\ SlotsCallable
  /\ \A t \in Threads : CallOK(t) /\ OrderOK(t)

\* The types and infos of the events and of an empty slot.
LEMMA EventTypes ==
  \A event \in Events \union {NoEvent} :
    event.type \in UpdateTypes /\ event.info \in Infos
BY EventsAssumption DEF Infos, NoEvent, UpdateTypes

\* A thread that makes no call has a well-typed op.
LEMMA NoCallType == NoCall \in Changes
BY DEF NoCall, Change, Changes

\* initUpdateNotifiers establishes the invariant.
LEMMA TableInit == Init => TableInv
<1> SUFFICES ASSUME Init PROVE TableInv
  OBVIOUS
<1>1. TypeOK
  <2>1. notifiers \in [AllSlots -> [type : UpdateTypes, info : Infos,
                                    handle : AllHandles]]
    <3>1. PICK infos \in [Slots -> Infos] :
            notifiers = [s \in AllSlots |->
              IF s = 0
              THEN [type |-> "UPDATE_ANY", info |-> "empty",
                    handle |-> "ignoreUpdate"]
              ELSE [type |-> "UPDATE_NONE", info |-> infos[s],
                    handle |-> "NULL"]]
      BY DEF Init
    <3>2. \A s \in AllSlots : s # 0 => infos[s] \in Infos
      BY <3>1, TableAssumption DEF AllSlots, Slots
    <3> QED BY <3>1, <3>2 DEF UpdateTypes, Infos, AllHandles
  <2>2. /\ mutex \in {0, 1}
        /\ pc \in [Threads -> Pcs]
        /\ i \in [Threads -> 0..MAX_UPDATE_EVENTS]
    BY TableAssumption DEF Init, Pcs
  <2>5. crashed \in BOOLEAN
    BY DEF Init
  <2>3. op \in [Threads -> Changes \union Lookups]
    BY NoCallType DEF Init
  <2>4. /\ handle \in [Threads -> AllHandles]
        /\ handle_def \in [Threads -> AllHandles]
        /\ ret \in [Threads -> {"ok", "error"} \union AllHandles]
    BY DEF Init, AllHandles
  <2> QED BY <2>1, <2>2, <2>3, <2>4, <2>5 DEF TypeOK
<1>2. MutexHeld /\ SlotsCallable
  BY DEF Init, MutexHeld, SlotsCallable, Critical, Writing, Looking
<1>3. \A t \in Threads : CallOK(t) /\ OrderOK(t)
  BY DEF Init, CallOK, OrderOK, Writing, Looking
<1> QED BY <1>1, <1>2, <1>3 DEF TableInv

\* Every step keeps the types.
LEMMA TypeStep == ASSUME TableInv, [Next]_vars PROVE TypeOK'
<1> USE TableAssumption DEF TableInv, TypeOK, Goto, Return, Locals, Pcs, Critical,
      Writing, Looking, LoopEnd
<1>1. ASSUME NEW t \in Mutators, Call(t) PROVE TypeOK'
  BY <1>1, KindsAssumption
  DEF Call, CallRefused, CallStarts, Change, Changes, Threads
<1>2. ASSUME NEW t \in Finders, CallFind(t) PROVE TypeOK'
  BY <1>2 DEF CallFind, Lookup, Lookups, Threads
<1>3. ASSUME NEW t \in Threads, Advance(t) PROVE TypeOK'
  <2>1. CASE Scan(t)
    BY <2>1, NoCallType DEF Scan, ScanFails, ScanGoesOn, ScanFinds
  <2>2. CASE Compare(t)
    BY <2>2 DEF Compare, CallOK, Slots
  <2>3. CASE SemWait(t)
    BY <2>3 DEF SemWait
  <2>4. CASE WriteHandle(t)
    BY <2>4 DEF WriteHandle, NewHandle, CallOK, Changes, AllHandles
  <2>5. CASE WriteType(t)
    BY <2>5, EventTypes DEF WriteType, CallOK, Changes, UpdateTypes
  <2>6. CASE WriteInfo(t)
    BY <2>6, EventTypes DEF WriteInfo, CallOK, Changes
  <2>7. CASE SemPost(t)
    BY <2>7, NoCallType DEF SemPost, MutexHeld
  <2>8. CASE FindWait(t)
    BY <2>8 DEF FindWait
  <2>9. CASE Look(t)
    <3>1. i[t] \in 1..MAX_UPDATE_EVENTS /\ i[t] < MAX_UPDATE_EVENTS
      BY <2>9 DEF Look, LoopGoesOn, CallOK
    <3>2. notifiers[i[t]].handle \in AllHandles
      BY <3>1 DEF AllSlots
    <3>3. /\ i' = [i EXCEPT ![t] = @ + 1]
          /\ \/ handle' = handle
             \/ handle' = [handle EXCEPT ![t] = notifiers[i[t]].handle]
          /\ \/ handle_def' = handle_def
             \/ handle_def' = [handle_def EXCEPT ![t] = notifiers[i[t]].handle]
          /\ pc' = [pc EXCEPT ![t] = "look"]
          /\ UNCHANGED <<notifiers, mutex, op, ret, crashed>>
      BY <2>9 DEF Look
    <3> QED BY <3>1, <3>2, <3>3
  <2>10. CASE LookCrashes(t)
    BY <2>10 DEF LookCrashes
  <2>11. CASE LookEnds(t)
    BY <2>11 DEF LookEnds
  <2>12. CASE FindReturns(t)
    BY <2>12, NoCallType DEF FindReturns, MutexHeld, Choice, AllHandles, AllSlots
  <2> QED
    BY <1>3, <2>1, <2>2, <2>3, <2>4, <2>5, <2>6, <2>7, <2>8, <2>9, <2>10,
       <2>11, <2>12 DEF Advance
<1>4. CASE UNCHANGED vars
  BY <1>4 DEF vars
<1> QED BY <1>1, <1>2, <1>3, <1>4 DEF Next

\* The semaphore: only SemWait, SemPost, FindWait and FindReturns enter or
\* leave a critical section, and they count.
LEMMA MutexStep == ASSUME TableInv, [Next]_vars PROVE MutexHeld'
<1> USE DEF TableInv, TypeOK, MutexHeld, Goto, Critical, Writing, Looking
<1>1. ASSUME NEW t \in Mutators, Call(t) PROVE MutexHeld'
  BY <1>1 DEF Call, CallRefused, CallStarts, Threads
<1>2. ASSUME NEW t \in Finders, CallFind(t) PROVE MutexHeld'
  BY <1>2 DEF CallFind, Threads
<1>3. ASSUME NEW t \in Threads, Advance(t) PROVE MutexHeld'
  <2>1. CASE Scan(t)
    BY <2>1 DEF Scan, ScanFails, ScanGoesOn, ScanFinds
  <2>2. CASE Compare(t)
    BY <2>2 DEF Compare
  <2>3. CASE SemWait(t)
    BY <2>3 DEF SemWait
  <2>4. CASE WriteHandle(t)
    BY <2>4 DEF WriteHandle
  <2>5. CASE WriteType(t)
    BY <2>5 DEF WriteType
  <2>6. CASE WriteInfo(t)
    BY <2>6 DEF WriteInfo
  <2>7. CASE SemPost(t)
    BY <2>7 DEF SemPost
  <2>8. CASE FindWait(t)
    BY <2>8 DEF FindWait
  <2>9. CASE Look(t)
    BY <2>9 DEF Look
  <2>10. CASE LookCrashes(t)
    BY <2>10 DEF LookCrashes
  <2>11. CASE LookEnds(t)
    BY <2>11 DEF LookEnds
  <2>12. CASE FindReturns(t)
    BY <2>12 DEF FindReturns
  <2> QED
    BY <1>3, <2>1, <2>2, <2>3, <2>4, <2>5, <2>6, <2>7, <2>8, <2>9, <2>10,
       <2>11, <2>12 DEF Advance
<1>4. CASE UNCHANGED vars
  BY <1>4 DEF vars
<1> QED BY <1>1, <1>2, <1>3, <1>4 DEF Next

\* What a call knows of itself: only its own thread changes it.
LEMMA CallStep ==
  ASSUME TableInv, [Next]_vars, NEW u \in Threads PROVE CallOK(u)'
<1> USE TableAssumption DEF TableInv, TypeOK, CallOK, Goto, Return, Locals,
      Writing, Looking, LoopEnd, AllSlots, Slots
<1>1. ASSUME NEW t \in Mutators, Call(t) PROVE CallOK(u)'
  <2>1. PICK kind \in Kinds, event \in Events, new \in Handles \union {"NULL"} :
          \/ CallRefused(t, Change(kind, event, new))
          \/ CallStarts(t, Change(kind, event, new), 0, "wait")
          \/ CallStarts(t, Change(kind, event, new), 1, "scan")
    BY <1>1 DEF Call
  <2>2. Change(kind, event, new) \in Changes
    BY KindsAssumption DEF Change, Changes
  <2> QED BY <2>1, <2>2, KindsAssumption
      DEF CallRefused, CallStarts, Change, Refused, Threads
<1>2. ASSUME NEW t \in Finders, CallFind(t) PROVE CallOK(u)'
  BY <1>2 DEF CallFind, Lookup, Lookups, Threads
<1>3. ASSUME NEW t \in Threads, Advance(t) PROVE CallOK(u)'
  <2>1. CASE Scan(t)
    BY <2>1 DEF Scan, ScanFails, ScanGoesOn, ScanFinds
  <2>2. CASE Compare(t)
    BY <2>2 DEF Compare
  <2>3. CASE SemWait(t)
    BY <2>3 DEF SemWait
  <2>4. CASE WriteHandle(t)
    BY <2>4 DEF WriteHandle
  <2>5. CASE WriteType(t)
    BY <2>5 DEF WriteType
  <2>6. CASE WriteInfo(t)
    BY <2>6 DEF WriteInfo
  <2>7. CASE SemPost(t)
    BY <2>7 DEF SemPost
  <2>8. CASE FindWait(t)
    BY <2>8 DEF FindWait
  <2>9. CASE Look(t)
    BY <2>9 DEF Look, LoopGoesOn
  <2>10. CASE LookCrashes(t)
    BY <2>10 DEF LookCrashes
  <2>11. CASE LookEnds(t)
    BY <2>11 DEF LookEnds
  <2>12. CASE FindReturns(t)
    BY <2>12 DEF FindReturns
  <2> QED
    BY <1>3, <2>1, <2>2, <2>3, <2>4, <2>5, <2>6, <2>7, <2>8, <2>9, <2>10,
       <2>11, <2>12 DEF Advance
<1>4. CASE UNCHANGED vars
  BY <1>4 DEF vars
<1> QED BY <1>1, <1>2, <1>3, <1>4 DEF Next

\* The writes: two threads are never between the two writes of a slot, so
\* that what one has written is there when it writes on.
LEMMA WriteStep ==
  ASSUME TableInv, [Next]_vars
  PROVE  SlotsCallable' /\ \A u \in Threads : OrderOK(u)'
<1> USE TableAssumption DEF TableInv, TypeOK, SlotsCallable, OrderOK, Goto,
      Return, Locals, LoopEnd
<1> DEFINE Goal == SlotsCallable /\ \A u \in Threads : OrderOK(u)
<1>1. ASSUME NEW t \in Mutators, Call(t) PROVE Goal'
  BY <1>1 DEF Call, CallRefused, CallStarts, Threads
<1>2. ASSUME NEW t \in Finders, CallFind(t) PROVE Goal'
  BY <1>2 DEF CallFind, Threads
<1>3. ASSUME NEW t \in Threads, Advance(t) PROVE Goal'
  <2>1. CASE Scan(t)
    BY <2>1 DEF Scan, ScanFails, ScanGoesOn, ScanFinds
  <2>2. CASE Compare(t)
    BY <2>2 DEF Compare
  <2>3. CASE SemWait(t)
    BY <2>3 DEF SemWait, CallOK
  <2>4. CASE WriteHandle(t)
    BY <2>4 DEF WriteHandle, NewHandle, CallOK, MutexHeld, Critical, Writing,
       Changes
  <2>5. CASE WriteType(t)
    BY <2>5 DEF WriteType, CallOK, MutexHeld, Critical, Writing, Changes
  <2>6. CASE WriteInfo(t)
    BY <2>6 DEF WriteInfo
  <2>7. CASE SemPost(t)
    BY <2>7 DEF SemPost
  <2>8. CASE FindWait(t)
    BY <2>8 DEF FindWait
  <2>9. CASE Look(t)
    BY <2>9 DEF Look
  <2>10. CASE LookCrashes(t)
    BY <2>10 DEF LookCrashes
  <2>11. CASE LookEnds(t)
    BY <2>11 DEF LookEnds
  <2>12. CASE FindReturns(t)
    BY <2>12 DEF FindReturns
  <2> QED
    BY <1>3, <2>1, <2>2, <2>3, <2>4, <2>5, <2>6, <2>7, <2>8, <2>9, <2>10,
       <2>11, <2>12 DEF Advance
<1>4. CASE UNCHANGED vars
  BY <1>4 DEF vars
<1> QED BY <1>1, <1>2, <1>3, <1>4 DEF Next

\* Every step keeps the invariant.
LEMMA TableStep == TableInv /\ [Next]_vars => TableInv'
BY TypeStep, MutexStep, CallStep, WriteStep DEF TableInv

\* Types are correct.
THEOREM Typing == Spec => []TypeOK
<1>1. TableInv => TypeOK
  BY DEF TableInv
<1> QED BY <1>1, TableInit, TableStep, PTL DEF Spec

\* The semaphore protects writers and lookups from each other.
THEOREM MutualExclusion == Spec => []MutexHeld
<1>1. TableInv => MutexHeld
  BY DEF TableInv
<1> QED BY <1>1, TableInit, TableStep, PTL DEF Spec

\* A slot in use has a handler to call, at every moment of every write.
THEOREM AlwaysCallable == Spec => []SlotsCallable
<1>1. TableInv => SlotsCallable
  BY DEF TableInv
<1> QED BY <1>1, TableInit, TableStep, PTL DEF Spec

-----------------------------------------------------------------------------
(* FindsBestMatch *)

SpecificTo(slot, update) ==
  Relevant(slot, update) /\ slot.info # "empty" /\ slot.info = update.key
GeneralTo(slot, update) ==
  Relevant(slot, update) /\ slot.info = "empty"

\* What a lookup has in its locals after slots 1..n: the first specific
\* handler, which is slot n's as the loop ends there, and the last general one.
Found(table, update, n, specific, general) ==
  /\ specific = "NULL" => \A s \in 1..n : ~SpecificTo(table[s], update)
  /\ specific # "NULL" =>
       /\ n >= 1
       /\ SpecificTo(table[n], update) /\ specific = table[n].handle
       /\ \A s \in 1..(n - 1) : ~SpecificTo(table[s], update)
  /\ general = "NULL" => \A s \in 1..n : ~GeneralTo(table[s], update)
  /\ general # "NULL" =>
       \E s \in 1..n : /\ GeneralTo(table[s], update)
                       /\ general = table[s].handle
                       /\ \A r \in (s + 1)..n : ~GeneralTo(table[r], update)

\* The locals of a lookup: empty before, and what it has found while it has
\* the semaphore.
LookOK(t) ==
  /\ pc[t] \notin Looking => handle[t] = "NULL" /\ handle_def[t] = "NULL"
  /\ pc[t] \in Looking /\ ~crashed =>
       /\ i[t] \in 1..MAX_UPDATE_EVENTS
       /\ Found(notifiers, op[t].update, i[t] - 1, handle[t], handle_def[t])
       /\ pc[t] = "choose" => handle[t] # "NULL" \/ i[t] = MAX_UPDATE_EVENTS

LookInv == TableInv /\ \A t \in Threads : LookOK(t)

\* One round of the loop.
LEMMA FoundNext ==
  ASSUME NEW table, NEW update, NEW n \in Nat, NEW general,
         Found(table, update, n, "NULL", general),
         Relevant(table[n + 1], update) => table[n + 1].handle # "NULL"
  PROVE  Found(table, update, n + 1,
               IF SpecificTo(table[n + 1], update) THEN table[n + 1].handle
               ELSE "NULL",
               IF GeneralTo(table[n + 1], update) THEN table[n + 1].handle
               ELSE general)
<1> DEFINE h == IF SpecificTo(table[n + 1], update) THEN table[n + 1].handle
                ELSE "NULL"
           d == IF GeneralTo(table[n + 1], update) THEN table[n + 1].handle
                ELSE general
<1>1. /\ h = "NULL" => \A s \in 1..(n + 1) : ~SpecificTo(table[s], update)
      /\ h # "NULL" =>
           /\ n + 1 >= 1
           /\ SpecificTo(table[n + 1], update) /\ h = table[n + 1].handle
           /\ \A s \in 1..(n + 1 - 1) : ~SpecificTo(table[s], update)
  <2>1. \A s \in 1..n : ~SpecificTo(table[s], update)
    BY DEF Found
  <2>2. SpecificTo(table[n + 1], update) => table[n + 1].handle # "NULL"
    BY DEF SpecificTo
  <2>3. \A s \in 1..(n + 1) : s \in 1..n \/ s = n + 1
    OBVIOUS
  <2>4. n + 1 - 1 = n /\ n + 1 >= 1
    OBVIOUS
  <2> QED
    BY <2>1, <2>2, <2>3, <2>4
<1>2. d = "NULL" => \A s \in 1..(n + 1) : ~GeneralTo(table[s], update)
  <2>1. GeneralTo(table[n + 1], update) => table[n + 1].handle # "NULL"
    BY DEF GeneralTo
  <2>2. general = "NULL" => \A s \in 1..n : ~GeneralTo(table[s], update)
    BY DEF Found
  <2>3. \A s \in 1..(n + 1) : s \in 1..n \/ s = n + 1
    OBVIOUS
  <2> QED
    BY <2>1, <2>2, <2>3
<1>3. ASSUME d # "NULL"
      PROVE  \E s \in 1..(n + 1) :
               /\ GeneralTo(table[s], update)
               /\ d = table[s].handle
               /\ \A r \in (s + 1)..(n + 1) : ~GeneralTo(table[r], update)
  <2>1. CASE GeneralTo(table[n + 1], update)
    <3>1. n + 1 \in 1..(n + 1) /\ (n + 1 + 1)..(n + 1) = {}
      OBVIOUS
    <3>2. d = table[n + 1].handle
      BY <2>1
    <3> QED
      BY <2>1, <3>1, <3>2
  <2>2. CASE ~GeneralTo(table[n + 1], update)
    <3>1. d = general
      BY <2>2
    <3>2. PICK s \in 1..n : /\ GeneralTo(table[s], update)
                            /\ general = table[s].handle
                            /\ \A r \in (s + 1)..n : ~GeneralTo(table[r], update)
      BY <1>3, <3>1 DEF Found
    <3>3. s \in 1..(n + 1) /\ \A r \in (s + 1)..(n + 1) : r \in (s + 1)..n \/ r = n + 1
      OBVIOUS
    <3> QED
      BY <2>2, <3>1, <3>2, <3>3
  <2> QED
    BY <2>1, <2>2
<1> HIDE DEF h, d
<1>4. Found(table, update, n + 1, h, d)
  BY <1>1, <1>2, <1>3 DEF Found
<1> QED
  BY <1>4 DEF h, d

\* The locals at the end of the loop give the best match.
LEMMA FoundIsMatch ==
  ASSUME NEW update, NEW n \in 0..(MAX_UPDATE_EVENTS - 1), NEW h, NEW d,
         Found(notifiers, update, n, h, d),
         h # "NULL" \/ n = MAX_UPDATE_EVENTS - 1
  PROVE  Match(update) = IF h # "NULL" THEN h
                         ELSE IF d # "NULL" THEN d ELSE notifiers[0].handle
<1> USE TableAssumption
<1> DEFINE Specific == {s \in Slots : SpecificTo(notifiers[s], update)}
           General  == {s \in Slots : GeneralTo(notifiers[s], update)}
<1>1. Match(update) = IF Specific # {} THEN notifiers[Min(Specific)].handle
                      ELSE IF General # {} THEN notifiers[Max(General)].handle
                      ELSE notifiers[0].handle
  <2> DEFINE OfType == {s \in Slots : Relevant(notifiers[s], update)}
  <2>1. {s \in OfType : /\ notifiers[s].info # "empty"
                        /\ notifiers[s].info = update.key} = Specific
    BY DEF SpecificTo
  <2>2. {s \in OfType : notifiers[s].info = "empty"} = General
    BY DEF GeneralTo
  <2> QED
    BY <2>1, <2>2 DEF Match
<1>2. CASE h # "NULL"
  <2>1. /\ n \in Slots /\ n \in Specific /\ h = notifiers[n].handle
        /\ \A s \in Specific : n <= s
    BY <1>2 DEF Found, Slots
  <2>2. \A x \in Specific : (\A y \in Specific : x =< y) => x = n
    BY <2>1 DEF Slots
  <2>3. Min(Specific) = n
    BY <2>1, <2>2 DEF Min
  <2> QED
    BY <1>1, <1>2, <2>1, <2>3
<1>3. CASE h = "NULL"
  <2>1. Slots = 1..n
    BY <1>3 DEF Slots
  <2>2. Specific = {}
    BY <1>3, <2>1 DEF Found
  <2>3. CASE d = "NULL"
    <3>1. General = {}
      BY <2>1, <2>3 DEF Found
    <3> QED
      BY <1>1, <1>3, <2>2, <2>3, <3>1
  <2>4. CASE d # "NULL"
    <3>1. PICK s \in 1..n :
            /\ GeneralTo(notifiers[s], update) /\ d = notifiers[s].handle
            /\ \A r \in (s + 1)..n : ~GeneralTo(notifiers[r], update)
      BY <2>4 DEF Found
    <3>2. s \in General /\ \A r \in General : s >= r
      BY <2>1, <3>1
    <3>3. \A x \in General : (\A y \in General : x >= y) => x = s
      BY <2>1, <3>2
    <3>4. Max(General) = s
      BY <3>2, <3>3 DEF Max
    <3> QED
      BY <1>1, <1>3, <2>2, <2>4, <3>1, <3>2, <3>4
  <2> QED
    BY <2>3, <2>4
<1> QED
  BY <1>2, <1>3

\* While a thread looks nobody else writes, and what it looks for stays.
LEMMA LookElsewhere ==
  ASSUME LookInv, NEW t \in Threads,
         pc'[t] = pc[t], i'[t] = i[t], handle'[t] = handle[t],
         handle_def'[t] = handle_def[t], op'[t] = op[t],
         crashed' = FALSE => crashed = FALSE,
         pc[t] \in Looking => notifiers' = notifiers
  PROVE  LookOK(t)'
BY DEF LookInv, LookOK

\* A lookup's own step.
LEMMA LookStep ==
  ASSUME LookInv, NEW t \in Threads, Look(t)
  PROVE  LookOK(t)'
<1> USE DEF LookInv, TableInv, TypeOK, Goto, Looking
<1> DEFINE n == i[t] - 1
           slot == notifiers[n + 1]
           update == op[t].update
<1>1. /\ pc[t] = "look" /\ ~crashed /\ handle[t] = "NULL" /\ i[t] < MAX_UPDATE_EVENTS
      /\ pc' = [pc EXCEPT ![t] = "look"] /\ i' = [i EXCEPT ![t] = @ + 1]
      /\ UNCHANGED <<notifiers, op, crashed>>
  BY DEF Look, LoopGoesOn, LoopEnd
<1>2. i[t] \in 1..MAX_UPDATE_EVENTS /\ Found(notifiers, update, n, "NULL", handle_def[t])
  BY <1>1 DEF LookOK
<1>3. n \in Nat /\ n + 1 = i[t] /\ n + 1 \in AllSlots /\ i'[t] - 1 = n + 1
      /\ i'[t] \in 1..MAX_UPDATE_EVENTS
  BY <1>1, <1>2, TableAssumption DEF AllSlots
<1>4. Relevant(slot, update) => slot.handle # "NULL"
  BY <1>3 DEF SlotsCallable, Relevant
<1>5. handle'[t] = IF SpecificTo(slot, update) THEN slot.handle ELSE "NULL"
  BY <1>1, <1>3 DEF Look, SpecificTo
<1>6. handle_def'[t] = IF GeneralTo(slot, update) THEN slot.handle
                       ELSE handle_def[t]
  BY <1>1, <1>3 DEF Look, GeneralTo
<1>7. Found(notifiers, update, n + 1, handle'[t], handle_def'[t])
  BY <1>2, <1>3, <1>4, <1>5, <1>6, FoundNext
<1>8. pc'[t] = "look"
  BY <1>1
<1> QED
  BY <1>1, <1>3, <1>7, <1>8 DEF LookOK

LEMMA LookAlways ==
  ASSUME LookInv, [Next]_vars, NEW u \in Threads
  PROVE  LookOK(u)'
<1> USE DEF LookInv, TableInv, TypeOK, Goto, Locals, Return
<1>1. ASSUME NEW t \in Mutators, Call(t) PROVE LookOK(u)'
  BY <1>1, LookElsewhere
  DEF Call, CallRefused, CallStarts, Threads, LookOK, Looking
<1>2. ASSUME NEW t \in Finders, CallFind(t) PROVE LookOK(u)'
  BY <1>2 DEF CallFind, Threads, LookOK, Looking
<1>3. ASSUME NEW t \in Threads, Advance(t) PROVE LookOK(u)'
  <2>1. CASE Scan(t)
    BY <2>1 DEF Scan, ScanFails, ScanGoesOn, ScanFinds, LookOK, Looking
  <2>2. CASE Compare(t)
    BY <2>2 DEF Compare, LookOK, Looking
  <2>3. CASE SemWait(t)
    BY <2>3 DEF SemWait, LookOK, Looking
  <2>4. CASE WriteHandle(t) \/ WriteType(t) \/ WriteInfo(t)
    <3>1. pc[t] \in Writing /\ pc'[t] \in Writing
      BY <2>4 DEF WriteHandle, WriteType, WriteInfo, Writing
    <3>2. \A v \in Threads : pc[v] \in Looking \/ pc'[v] \in Looking => v # t
      BY <3>1 DEF Looking, Writing
    <3>3. \A v \in Threads : v # t => pc'[v] = pc[v]
      BY <2>4 DEF WriteHandle, WriteType, WriteInfo
    <3>4. \A v \in Threads : pc[v] \notin Looking
      BY <3>1, <3>2 DEF MutexHeld, Critical
    <3>5. \A v \in Threads : pc'[v] \notin Looking
      BY <3>2, <3>3, <3>4
    <3>6. UNCHANGED <<handle, handle_def>>
      BY <2>4 DEF WriteHandle, WriteType, WriteInfo
    <3> QED
      BY <3>4, <3>5, <3>6 DEF LookOK
  <2>5. CASE SemPost(t)
    BY <2>5 DEF SemPost, LookOK, Looking
  <2>6. CASE FindWait(t)
    <3>1. CASE u = t
      <4>1. /\ pc[t] = "find" /\ pc'[t] = "look" /\ i'[t] = 1
            /\ UNCHANGED <<notifiers, op, handle, handle_def>>
        BY <2>6 DEF FindWait
      <4>2. handle[t] = "NULL" /\ handle_def[t] = "NULL"
        BY <4>1 DEF LookOK, Looking
      <4>3. Found(notifiers, op[t].update, 1 - 1, "NULL", "NULL")
        BY DEF Found
      <4> QED
        BY <3>1, <4>1, <4>2, <4>3, TableAssumption DEF LookOK, Looking
    <3>2. CASE u # t
      BY <2>6, <3>2, LookElsewhere DEF FindWait
    <3> QED
      BY <3>1, <3>2
  <2>7. CASE Look(t)
    <3>1. CASE u = t
      BY <2>7, <3>1, LookStep
    <3>2. CASE u # t
      <4>1. /\ pc' = [pc EXCEPT ![t] = "look"] /\ i' = [i EXCEPT ![t] = @ + 1]
            /\ UNCHANGED <<notifiers, op, crashed>>
            /\ handle'[u] = handle[u] /\ handle_def'[u] = handle_def[u]
        BY <2>7, <3>2 DEF Look
      <4> QED
        BY <3>2, <4>1, LookElsewhere
    <3> QED
      BY <3>1, <3>2
  <2>8. CASE LookCrashes(t)
    BY <2>8 DEF LookCrashes, LookOK, Looking
  <2>9. CASE LookEnds(t)
    <3>1. /\ pc[t] = "look" /\ pc'[t] = "choose" /\ ~crashed
          /\ UNCHANGED <<notifiers, op, i, handle, handle_def, crashed>>
          /\ i[t] \in 1..MAX_UPDATE_EVENTS
      BY <2>9 DEF LookEnds, LookOK, Looking
    <3>2. handle[t] # "NULL" \/ i[t] = MAX_UPDATE_EVENTS
      BY <2>9, <3>1, TableAssumption DEF LookEnds, LoopGoesOn, LoopEnd
    <3>3. CASE u = t
      BY <3>1, <3>2, <3>3 DEF LookOK, Looking
    <3>4. CASE u # t
      <4>1. pc'[u] = pc[u]
        BY <2>9, <3>4 DEF LookEnds
      <4> QED
        BY <3>1, <4>1, LookElsewhere
    <3> QED
      BY <3>3, <3>4
  <2>10. CASE FindReturns(t)
    BY <2>10 DEF FindReturns, LookOK, Looking
  <2> QED
    BY <1>3, <2>1, <2>2, <2>3, <2>4, <2>5, <2>6, <2>7, <2>8, <2>9, <2>10
       DEF Advance
<1>4. CASE UNCHANGED vars
  BY <1>4 DEF vars, LookOK
<1> QED BY <1>1, <1>2, <1>3, <1>4 DEF Next

LEMMA LookFinds == LookInv => FindsBestMatch
<1> SUFFICES ASSUME LookInv, NEW t \in Threads, pc[t] = "choose", ~crashed
             PROVE  Choice(t) = Match(op[t].update)
  BY DEF FindsBestMatch
<1>1. /\ i[t] \in 1..MAX_UPDATE_EVENTS
      /\ Found(notifiers, op[t].update, i[t] - 1, handle[t], handle_def[t])
      /\ handle[t] # "NULL" \/ i[t] = MAX_UPDATE_EVENTS
  BY DEF LookInv, LookOK, Looking
<1>2. i[t] - 1 \in 0..(MAX_UPDATE_EVENTS - 1)
  BY <1>1, TableAssumption
<1> QED
  BY <1>1, <1>2, FoundIsMatch, TableAssumption DEF Choice

\* tbc_parser calls the best match of the table as it is, however many threads
\* change it, or take each other's slots.
THEOREM BestMatch == Spec => []FindsBestMatch
<1>1. Init => LookInv
  BY TableInit DEF LookInv, LookOK, Init, Looking
<1>2. LookInv /\ [Next]_vars => LookInv'
  BY TableStep, LookAlways DEF LookInv
<1> QED
  BY <1>1, <1>2, LookFinds, PTL DEF Spec

-----------------------------------------------------------------------------
(* What liveness rests on: InsideShortens *)

\* A step of the thread inside leaves it less to do, unless it is the step that
\* kills the process.
LEMMA InsideOwnStep ==
  ASSUME TableInv, NEW t \in Threads, pc[t] \in Critical, Advance(t)
  PROVE  LeftInside(t)' < LeftInside(t) \/ UNCHANGED <<pc[t], op[t], i[t]>>
<1> USE TableAssumption DEF TableInv, TypeOK, Goto, Locals
<1>1. CASE Look(t)
  <2>1. /\ pc[t] = "look" /\ pc'[t] = "look"
        /\ i[t] \in Nat /\ i'[t] = i[t] + 1
    BY <1>1 DEF Look
  <2>2. /\ LeftInside(t) = 2 + MAX_UPDATE_EVENTS - i[t]
        /\ LeftInside(t)' = 2 + MAX_UPDATE_EVENTS - i'[t]
    BY <2>1 DEF LeftInside
  <2> QED
    BY <2>1, <2>2
<1>2. CASE LookCrashes(t)
  BY <1>2 DEF LookCrashes
<1>3. CASE LookEnds(t)
  <2>1. /\ pc[t] = "look" /\ pc'[t] = "choose"
        /\ i[t] \in Nat /\ i[t] <= MAX_UPDATE_EVENTS
    BY <1>3 DEF LookEnds
  <2>2. LeftInside(t) = 2 + MAX_UPDATE_EVENTS - i[t] /\ LeftInside(t)' = 1
    BY <2>1 DEF LeftInside
  <2> QED
    BY <2>1, <2>2
<1>4. CASE FindReturns(t) \/ SemPost(t)
  <2>1. pc[t] \in {"post", "choose"} /\ pc'[t] = "idle"
    BY <1>4 DEF FindReturns, SemPost
  <2>2. LeftInside(t) = 1 /\ LeftInside(t)' = 0
    BY <2>1 DEF LeftInside
  <2> QED
    BY <2>2
<1>5. CASE WriteHandle(t) \/ WriteType(t) \/ WriteInfo(t)
  <2>1. \/ pc[t] = "write_handle" /\ op[t].kind = "add"
             /\ pc'[t] \in {"write_type", "post"}
        \/ pc[t] = "write_handle" /\ op[t].kind # "add" /\ pc'[t] = "post"
        \/ pc[t] = "write_type" /\ op[t].kind = "add" /\ pc'[t] = "write_info"
        \/ /\ pc[t] = "write_type" /\ op[t].kind # "add"
           /\ pc'[t] = "write_handle" /\ op'[t].kind # "add"
        \/ pc[t] = "write_info" /\ pc'[t] = "post"
    BY <1>5 DEF WriteHandle, WriteType, WriteInfo
  <2> QED
    BY <2>1 DEF LeftInside
<1>6. ~(Scan(t) \/ Compare(t) \/ SemWait(t) \/ FindWait(t))
  BY DEF Scan, ScanFails, ScanGoesOn, ScanFinds, Compare, SemWait, FindWait,
     Critical, Writing, Looking
<1> QED
  BY <1>1, <1>2, <1>3, <1>4, <1>5, <1>6 DEF Advance

\* A critical section of a table of any size is a fixed number of steps of the
\* thread inside, whatever the others do meanwhile.
THEOREM SectionsShorten == Spec => InsideShortens
<1> DEFINE Same(t) == UNCHANGED <<pc[t], op[t], i[t]>>
<1>1. ASSUME TableInv, [Next]_vars, NEW t \in Threads, pc[t] \in Critical
      PROVE  LeftInside(t)' < LeftInside(t) \/ Same(t)
  <2> USE DEF TableInv, TypeOK, Goto, Return, Locals
  <2>1. CASE Advance(t)
    BY <1>1, <2>1, InsideOwnStep
  <2>2. ASSUME NEW u \in Threads, u # t, Advance(u) PROVE Same(t)
    BY <1>1, <2>2 DEF Advance, Scan, ScanFails, ScanGoesOn, ScanFinds, Compare,
       SemWait, WriteHandle, WriteType, WriteInfo, SemPost, FindWait, Look,
       LookCrashes, LookEnds, FindReturns
  <2>3. ASSUME NEW u \in Mutators, Call(u) PROVE Same(t)
    BY <1>1, <2>3 DEF Call, CallRefused, CallStarts, Threads, Critical, Writing,
       Looking
  <2>4. ASSUME NEW u \in Finders, CallFind(u) PROVE Same(t)
    BY <1>1, <2>4 DEF CallFind, Threads, Critical, Writing, Looking
  <2>5. CASE UNCHANGED vars
    BY <2>5 DEF vars
  <2> QED
    BY <1>1, <2>1, <2>2, <2>3, <2>4, <2>5 DEF Next
<1>2. TableInv /\ [Next]_vars =>
        [\A t \in Threads :
           pc[t] \in Critical => LeftInside(t)' < LeftInside(t) \/ Same(t)]_vars
  BY <1>1
<1> QED
  BY <1>2, TableInit, TableStep, PTL DEF Spec, InsideShortens

=============================================================================
