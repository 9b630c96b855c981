------------------------- MODULE NotifierTableProofs -------------------------
(***************************************************************************)
(* Notifiers.tla implements NotifierTable.tla when one thread changes the  *)
(* table, however many look handlers up.                                   *)
(***************************************************************************)
EXTENDS NotifiersProofs, NotifierHistory

OneMutator == \A t, u \in Mutators : t = u

\* What the parsers look up.
ParsedUpdates ==
  \A update \in Updates :
    update.type \in {"UPDATE_UNKNOWN", "UPDATE_MESSAGE", "UPDATE_POLL"}

Searching == {"scan", "compare", "wait"}
Changing  == Searching \union Writing

\* What a change of slot 1 or above searches for.
Fits(slot, call) ==
  IF call.kind = "add" THEN slot.type = "UPDATE_NONE"
  ELSE slot.type = call.event.type /\ slot.info = call.event.info

\* Where the call stands: no slot before i fits, and slot i does when it is
\* chosen.  That stays true because nobody else writes.
SearchOK(t) ==
  /\ pc[t] \in Changing => t \in Mutators
  /\ pc[t] = "idle" => op[t] = NoCall
  /\ pc[t] \in {"scan", "compare"} => op[t].event.type # "UPDATE_ANY"
  /\ pc[t] \in {"wait"} \union Writing =>
       (i[t] = 0 <=> op[t].event.type = "UPDATE_ANY")
  /\ pc[t] \in Searching =>
       \A s \in 1..(i[t] - 1) : ~Fits(notifiers[s], op[t])
  /\ pc[t] = "compare" => notifiers[i[t]].type = op[t].event.type
  /\ pc[t] = "wait" /\ i[t] # 0 => Fits(notifiers[i[t]], op[t])

\* How much of the registration is written.
WrittenOK(t) ==
  LET slot == notifiers[i[t]]
      call == op[t] IN
  /\ pc[t] = "post" => \/ call.kind = "remove" /\ i[t] # 0
                       \/ slot.handle = NewHandle(call, i[t])
  /\ call.kind = "add" /\ i[t] # 0 =>
       /\ pc[t] \in {"write_type", "write_info"} => slot.handle = call.new
       /\ pc[t] \in {"write_info", "post"} => slot.type = call.event.type
       /\ pc[t] = "post" => slot.info = call.event.info
  /\ call.kind = "modify" /\ i[t] # 0 /\ pc[t] \in Writing =>
       slot.type = call.event.type /\ slot.info = call.event.info
  /\ call.kind = "remove" /\ i[t] # 0 /\ pc[t] \in {"write_handle", "post"} =>
       slot.type = "UPDATE_NONE"

ChangeInv == LookInv /\ \A t \in Threads : SearchOK(t) /\ WrittenOK(t)

LEMMA ChangeInit == Init => ChangeInv
<1> SUFFICES ASSUME Init PROVE ChangeInv
  OBVIOUS
<1>1. LookInv
  BY TableInit DEF LookInv, LookOK, Init, Looking
<1>2. \A t \in Threads : pc[t] = "idle" /\ op[t] = NoCall
  BY DEF Init
<1>3. \A t \in Threads : SearchOK(t) /\ WrittenOK(t)
  BY <1>2 DEF SearchOK, WrittenOK, Changing, Searching, Writing
<1> QED
  BY <1>1, <1>3 DEF ChangeInv

\* A thread that does not move keeps what it knows, unless a slot is written.
LEMMA ChangeElsewhere ==
  ASSUME ChangeInv, NEW t \in Threads,
         pc'[t] = pc[t], i'[t] = i[t], op'[t] = op[t],
         pc[t] \in Changing => notifiers' = notifiers
  PROVE  SearchOK(t)' /\ WrittenOK(t)'
<1>1. CASE pc[t] \in Changing
  BY <1>1 DEF ChangeInv, SearchOK, WrittenOK
<1>2. CASE pc[t] \notin Changing
  BY <1>2 DEF ChangeInv, SearchOK, WrittenOK, Changing, Searching, Writing
<1> QED
  BY <1>1, <1>2

\* A thread that is not changing anything knows nothing.
LEMMA ChangeNothing ==
  ASSUME NEW t \in Threads, pc'[t] \notin Changing,
         pc'[t] = "idle" => op'[t] = NoCall
  PROVE  SearchOK(t)' /\ WrittenOK(t)'
BY DEF SearchOK, WrittenOK, Changing, Searching, Writing

\* The calls.
LEMMA CallChange ==
  ASSUME ChangeInv, NEW t \in Mutators, Call(t)
  PROVE  SearchOK(t)' /\ WrittenOK(t)'
<1> USE DEF ChangeInv, LookInv, TableInv, TypeOK, Goto, Threads
<1>1. PICK kind \in Kinds, event \in Events, new \in Handles \union {"NULL"} :
        \/ CallRefused(t, Change(kind, event, new))
        \/ event.type = "UPDATE_ANY" /\ CallStarts(t, Change(kind, event, new), 0, "wait")
        \/ event.type # "UPDATE_ANY" /\ CallStarts(t, Change(kind, event, new), 1, "scan")
  BY DEF Call
<1> DEFINE call == Change(kind, event, new)
<1>2. call.event = event
  BY DEF Change
<1> HIDE DEF call
<1>3. CASE CallRefused(t, call)
  <2>1. pc'[t] = "idle" /\ op' = op /\ pc[t] = "idle"
    BY <1>3 DEF CallRefused
  <2>2. op'[t] = NoCall
    BY <2>1 DEF SearchOK
  <2> QED
    BY <2>1, <2>2, ChangeNothing DEF Changing, Searching, Writing
<1>4. CASE event.type = "UPDATE_ANY" /\ CallStarts(t, call, 0, "wait")
  <2>1. pc'[t] = "wait" /\ op'[t] = call /\ i'[t] = 0
    BY <1>4 DEF CallStarts
  <2> QED
    BY <1>2, <1>4, <2>1 DEF SearchOK, WrittenOK, Searching, Writing
<1>5. CASE event.type # "UPDATE_ANY" /\ CallStarts(t, call, 1, "scan")
  <2>1. pc'[t] = "scan" /\ op'[t] = call /\ i'[t] = 1
    BY <1>5 DEF CallStarts
  <2>2. 1..(1 - 1) = {}
    OBVIOUS
  <2> QED
    BY <1>2, <1>5, <2>1, <2>2 DEF SearchOK, WrittenOK, Searching, Writing
<1> QED
  BY <1>1, <1>3, <1>4, <1>5 DEF call

\* The search: a slot that is passed does not fit, one that is chosen does.
LEMMA ScanChange ==
  ASSUME ChangeInv, NEW t \in Threads, Scan(t)
  PROVE  SearchOK(t)' /\ WrittenOK(t)'
<1> USE TableAssumption DEF ChangeInv, LookInv, TableInv, TypeOK, Goto
<1>1. pc[t] = "scan" /\ notifiers' = notifiers
  BY DEF Scan, ScanFails, ScanGoesOn, ScanFinds
<1>2. /\ t \in Mutators /\ op[t].event.type # "UPDATE_ANY"
      /\ \A s \in 1..(i[t] - 1) : ~Fits(notifiers[s], op[t])
      /\ i[t] \in 1..MAX_UPDATE_EVENTS
  BY <1>1 DEF SearchOK, Changing, Searching, CallOK
<1>3. CASE ScanFails(t)
  <2>1. pc'[t] = "idle" /\ op'[t] = NoCall
    BY <1>3 DEF ScanFails, Return
  <2> QED
    BY <2>1, ChangeNothing DEF Changing, Searching, Writing
<1>4. CASE ScanGoesOn(t)
  <2>1. /\ pc'[t] = "scan" /\ op'[t] = op[t] /\ i'[t] = i[t] + 1
        /\ notifiers[i[t]].type # Wanted(op[t])
    BY <1>4 DEF ScanGoesOn
  <2>2. ~Fits(notifiers[i[t]], op[t])
    BY <2>1 DEF Fits, Wanted
  <2>3. i'[t] - 1 = i[t] /\ i[t] \in Nat
    BY <1>2, <2>1
  <2>4. \A s \in 1..(i'[t] - 1) : ~Fits(notifiers[s], op[t])
    <3>1. \A n \in Nat : \A s \in 1..n : s = n \/ s \in 1..(n - 1)
      OBVIOUS
    <3>2. \A s \in 1..i[t] : s = i[t] \/ s \in 1..(i[t] - 1)
      BY <2>3, <3>1
    <3> QED
      BY <1>2, <2>2, <2>3, <3>2
  <2> QED
    BY <1>1, <1>2, <2>1, <2>4 DEF SearchOK, WrittenOK, Searching, Writing
<1>5. CASE ScanFinds(t)
  <2>1. /\ pc'[t] = IF op[t].kind = "add" THEN "wait" ELSE "compare"
        /\ op'[t] = op[t] /\ i'[t] = i[t]
        /\ notifiers[i[t]].type = Wanted(op[t])
    BY <1>5 DEF ScanFinds
  <2>2. op[t].kind = "add" => Fits(notifiers[i[t]], op[t])
    BY <2>1 DEF Fits, Wanted
  <2>3. op[t].kind # "add" => notifiers[i[t]].type = op[t].event.type
    BY <2>1 DEF Wanted
  <2> QED
    BY <1>1, <1>2, <2>1, <2>2, <2>3 DEF SearchOK, WrittenOK, Searching, Writing
<1> QED
  BY <1>3, <1>4, <1>5 DEF Scan

LEMMA CompareChange ==
  ASSUME OneMutator, ChangeInv, NEW t \in Threads, Compare(t)
  PROVE  SearchOK(t)' /\ WrittenOK(t)'
<1> USE TableAssumption DEF ChangeInv, LookInv, TableInv, TypeOK, Goto
<1>1. pc[t] = "compare" /\ notifiers' = notifiers /\ op' = op
  BY DEF Compare
<1>2. /\ t \in Mutators /\ op[t].event.type # "UPDATE_ANY"
      /\ \A s \in 1..(i[t] - 1) : ~Fits(notifiers[s], op[t])
      /\ notifiers[i[t]].type = op[t].event.type
      /\ i[t] \in 1..MAX_UPDATE_EVENTS /\ op[t].kind # "add"
  BY <1>1 DEF SearchOK, Changing, Searching, CallOK
<1>3. ~Copying(i[t])
  BY <1>1, <1>2 DEF Copying, OneMutator
<1>4. CASE pc' = [pc EXCEPT ![t] = "wait"] /\ notifiers[i[t]].info = op[t].event.info
           /\ i' = i
  <2>1. Fits(notifiers[i[t]], op[t])
    BY <1>2, <1>4 DEF Fits
  <2>2. pc'[t] = "wait"
    BY <1>4
  <2> QED
    BY <1>1, <1>2, <1>4, <2>1, <2>2 DEF SearchOK, WrittenOK, Searching, Writing
<1>5. CASE pc' = [pc EXCEPT ![t] = "scan"] /\ notifiers[i[t]].info # op[t].event.info
           /\ i' = [i EXCEPT ![t] = @ + 1]
  <2>1. pc'[t] = "scan" /\ i'[t] = i[t] + 1
    BY <1>5
  <2>2. ~Fits(notifiers[i[t]], op[t])
    BY <1>2, <1>5 DEF Fits
  <2>3. i'[t] - 1 = i[t] /\ i[t] \in Nat
    BY <1>2, <2>1
  <2>4. \A s \in 1..(i'[t] - 1) : ~Fits(notifiers[s], op[t])
    <3>1. \A n \in Nat : \A s \in 1..n : s = n \/ s \in 1..(n - 1)
      OBVIOUS
    <3>2. \A s \in 1..i[t] : s = i[t] \/ s \in 1..(i[t] - 1)
      BY <2>3, <3>1
    <3> QED
      BY <1>2, <2>2, <2>3, <3>2
  <2> QED
    BY <1>1, <1>2, <2>1, <2>4 DEF SearchOK, WrittenOK, Searching, Writing
<1> QED
  BY <1>3, <1>4, <1>5 DEF Compare

LEMMA SemWaitChange ==
  ASSUME ChangeInv, NEW t \in Threads, SemWait(t)
  PROVE  SearchOK(t)' /\ WrittenOK(t)'
<1> USE DEF ChangeInv, LookInv, TableInv, TypeOK, Goto
<1>1. /\ pc[t] = "wait"
      /\ pc'[t] = IF op[t].kind = "remove" /\ i[t] # 0 THEN "write_type"
                  ELSE "write_handle"
      /\ UNCHANGED <<notifiers, op, i>>
  BY DEF SemWait, Locals
<1>2. /\ t \in Mutators /\ (i[t] = 0 <=> op[t].event.type = "UPDATE_ANY")
      /\ i[t] # 0 => Fits(notifiers[i[t]], op[t])
      /\ op[t].kind \in {"add", "modify", "remove"}
  BY <1>1 DEF SearchOK, Changing, Searching, CallOK
<1>3. SearchOK(t)'
  BY <1>1, <1>2 DEF SearchOK, Searching, Writing
<1>4. WrittenOK(t)'
  BY <1>1, <1>2 DEF WrittenOK, Writing, Fits
<1> QED
  BY <1>3, <1>4

\* The writes.
LEMMA WriteChange ==
  ASSUME ChangeInv, NEW t \in Threads, WriteHandle(t) \/ WriteType(t) \/ WriteInfo(t)
  PROVE  SearchOK(t)' /\ WrittenOK(t)'
<1> USE DEF ChangeInv, LookInv, TableInv, TypeOK, Goto
<1>1. /\ pc[t] \in {"write_handle", "write_type", "write_info"}
      /\ pc'[t] \in {"write_handle", "write_type", "write_info", "post"}
      /\ UNCHANGED <<op, i>>
  BY DEF WriteHandle, WriteType, WriteInfo, Locals
<1>2. /\ t \in Mutators /\ (i[t] = 0 <=> op[t].event.type = "UPDATE_ANY")
      /\ op[t].kind \in {"add", "modify", "remove"} /\ i[t] \in AllSlots
  BY <1>1 DEF SearchOK, Changing, Writing, CallOK
<1>3. SearchOK(t)'
  BY <1>1, <1>2 DEF SearchOK, Searching, Writing
<1> DEFINE call == op[t]
           slot == notifiers[i[t]]
<1>4. CASE WriteHandle(t)
  <2>1. /\ pc[t] = "write_handle"
        /\ pc'[t] = IF call.kind = "add" /\ i[t] # 0 THEN "write_type" ELSE "post"
        /\ notifiers'[i[t]].handle = NewHandle(call, i[t])
        /\ notifiers'[i[t]].type = slot.type /\ notifiers'[i[t]].info = slot.info
    BY <1>2, <1>4 DEF WriteHandle
  <2>2. call.kind = "add" => NewHandle(call, i[t]) = call.new
    BY DEF NewHandle
  <2>3. /\ call.kind = "modify" /\ i[t] # 0 =>
             slot.type = call.event.type /\ slot.info = call.event.info
        /\ call.kind = "remove" /\ i[t] # 0 => slot.type = "UPDATE_NONE"
    BY <2>1 DEF WrittenOK, Writing
  <2> QED
    BY <1>1, <1>2, <1>3, <2>1, <2>2, <2>3 DEF WrittenOK, Writing
<1>5. CASE WriteType(t)
  <2>1. /\ pc[t] = "write_type"
        /\ pc'[t] = IF call.kind = "add" THEN "write_info" ELSE "write_handle"
        /\ notifiers'[i[t]].type = IF call.kind = "add" THEN call.event.type
                                   ELSE "UPDATE_NONE"
        /\ notifiers'[i[t]].handle = slot.handle
    BY <1>2, <1>5 DEF WriteType
  <2>2. i[t] # 0 /\ call.kind # "modify"
    BY <2>1 DEF CallOK
  <2>3. call.kind = "add" => slot.handle = call.new
    BY <2>1, <2>2 DEF WrittenOK
  <2> QED
    BY <1>1, <1>2, <1>3, <2>1, <2>2, <2>3 DEF WrittenOK, Writing
<1>6. CASE WriteInfo(t)
  <2>1. /\ pc[t] = "write_info" /\ pc'[t] = "post"
        /\ notifiers'[i[t]].info = call.event.info
        /\ notifiers'[i[t]].handle = slot.handle
        /\ notifiers'[i[t]].type = slot.type
    BY <1>2, <1>6 DEF WriteInfo
  <2>2. i[t] # 0 /\ call.kind = "add"
    BY <2>1 DEF CallOK, Writing
  <2>3. slot.handle = call.new /\ slot.type = call.event.type
    BY <2>1, <2>2 DEF WrittenOK
  <2>4. NewHandle(call, i[t]) = call.new
    BY <2>2 DEF NewHandle
  <2> QED
    BY <1>1, <1>2, <1>3, <2>1, <2>2, <2>3, <2>4 DEF WrittenOK, Writing
<1> QED
  BY <1>4, <1>5, <1>6

LEMMA ChangeStep == OneMutator /\ ChangeInv /\ [Next]_vars => ChangeInv'
<1> SUFFICES ASSUME OneMutator, ChangeInv, [Next]_vars PROVE ChangeInv'
  OBVIOUS
<1>0. LookInv'
  BY TableStep, LookAlways DEF ChangeInv, LookInv
<1> SUFFICES \A u \in Threads : SearchOK(u)' /\ WrittenOK(u)'
  BY <1>0 DEF ChangeInv
<1> TAKE u \in Threads
<1> USE DEF ChangeInv, LookInv, TableInv, TypeOK, Goto
<1>1. ASSUME NEW t \in Mutators, Call(t) PROVE SearchOK(u)' /\ WrittenOK(u)'
  <2>1. CASE u = t
    BY <1>1, <2>1, CallChange
  <2>2. CASE u # t
    <3>1. pc'[u] = pc[u] /\ i'[u] = i[u] /\ op'[u] = op[u] /\ notifiers' = notifiers
      BY <1>1, <2>2 DEF Call, CallRefused, CallStarts, Threads
    <3> QED
      BY <3>1, ChangeElsewhere
  <2> QED
    BY <2>1, <2>2
<1>2. ASSUME NEW t \in Finders, CallFind(t) PROVE SearchOK(u)' /\ WrittenOK(u)'
  <2>1. CASE u = t
    <3>1. pc'[t] = "find" /\ t \in Threads
      BY <1>2 DEF CallFind, Threads
    <3> QED
      BY <2>1, <3>1, ChangeNothing DEF Changing, Searching, Writing
  <2>2. CASE u # t
    <3>1. pc'[u] = pc[u] /\ i'[u] = i[u] /\ op'[u] = op[u] /\ notifiers' = notifiers
      BY <1>2, <2>2 DEF CallFind, Threads, Locals
    <3> QED
      BY <3>1, ChangeElsewhere
  <2> QED
    BY <2>1, <2>2
<1>3. ASSUME NEW t \in Threads, Advance(t) PROVE SearchOK(u)' /\ WrittenOK(u)'
  <2>1. CASE u = t
    <3>1. CASE SemPost(t) \/ FindReturns(t)
      <4>1. pc'[t] = "idle" /\ op'[t] = NoCall
        BY <3>1 DEF SemPost, FindReturns, Return
      <4> QED
        BY <2>1, <4>1, ChangeNothing DEF Changing, Searching, Writing
    <3>2. CASE FindWait(t) \/ Look(t) \/ LookCrashes(t) \/ LookEnds(t)
      <4>1. pc'[t] \in {"look", "choose"}
        BY <3>2 DEF FindWait, Look, LookCrashes, LookEnds
      <4> QED
        BY <2>1, <4>1, ChangeNothing DEF Changing, Searching, Writing
    <3> QED
      BY <1>3, <2>1, <3>1, <3>2, ScanChange, CompareChange, SemWaitChange,
         WriteChange DEF Advance
  <2>2. CASE u # t
    <3>1. CASE WriteHandle(t) \/ WriteType(t) \/ WriteInfo(t)
      <4>1. pc[t] \in Writing /\ pc'[u] = pc[u] /\ i'[u] = i[u] /\ op'[u] = op[u]
        BY <2>2, <3>1 DEF WriteHandle, WriteType, WriteInfo, Writing, Locals
      <4>2. pc[u] \notin Changing
        BY <2>2, <4>1 DEF SearchOK, OneMutator, Changing
      <4> QED
        BY <4>1, <4>2, ChangeElsewhere
    <3>2. CASE Scan(t) \/ Compare(t) \/ SemWait(t) \/ SemPost(t) \/ FindWait(t)
      <4>1. /\ pc'[u] = pc[u] /\ i'[u] = i[u] /\ op'[u] = op[u]
            /\ notifiers' = notifiers
        BY <2>2, <3>2 DEF Scan, ScanFails, ScanGoesOn, ScanFinds, Compare, SemWait,
                          SemPost, FindWait, Return, Locals
      <4> QED
        BY <4>1, ChangeElsewhere
    <3>3. CASE Look(t) \/ LookCrashes(t) \/ LookEnds(t) \/ FindReturns(t)
      <4>1. /\ pc'[u] = pc[u] /\ i'[u] = i[u] /\ op'[u] = op[u]
            /\ notifiers' = notifiers
        BY <2>2, <3>3 DEF Look, LookCrashes, LookEnds, FindReturns, Return, Locals
      <4> QED
        BY <4>1, ChangeElsewhere
    <3> QED
      BY <1>3, <3>1, <3>2, <3>3 DEF Advance
  <2> QED
    BY <2>1, <2>2
<1>4. CASE UNCHANGED vars
  BY <1>4, ChangeElsewhere DEF vars
<1> QED
  BY <1>1, <1>2, <1>3, <1>4 DEF Next

-----------------------------------------------------------------------------
(* The abstract table *)

\* A slot is taken for written by the thread that is writing it.
LEMMA WrittenBy ==
  TableInv => \A t \in Threads : pc[t] \in Writing =>
    \A s \in AllSlots : Written(s) = IF s = i[t] THEN Target(op[t], s) ELSE notifiers[s]
<1> SUFFICES ASSUME TableInv, NEW t \in Threads, pc[t] \in Writing, NEW s \in AllSlots
             PROVE  Written(s) = IF s = i[t] THEN Target(op[t], s) ELSE notifiers[s]
  OBVIOUS
<1>1. \A u \in Threads : pc[u] \in Writing => u = t
  BY DEF TableInv, MutexHeld, Critical
<1>2. Owners(s) = IF s = i[t] THEN {t} ELSE {}
  BY <1>1 DEF Owners
<1>3. (CHOOSE u \in {t} : TRUE) = t
  OBVIOUS
<1> QED
  BY <1>2, <1>3 DEF Written

LEMMA WrittenByNone ==
  (\A t \in Threads : pc[t] \notin Writing) =>
    \A s \in AllSlots : Written(s) = notifiers[s]
BY DEF Written, Owners

LEMMA WrittenByNext ==
  /\ TableInv' => \A t \in Threads : pc'[t] \in Writing =>
       \A s \in AllSlots : Written(s)' = IF s = i'[t] THEN Target(op[t], s)'
                                         ELSE notifiers'[s]
  /\ (\A t \in Threads : pc'[t] \notin Writing) =>
       \A s \in AllSlots : Written(s)' = notifiers'[s]
<1>1. (TableInv => \A t \in Threads : pc[t] \in Writing =>
        \A s \in AllSlots : Written(s) = IF s = i[t] THEN Target(op[t], s)
                                         ELSE notifiers[s])'
  BY WrittenBy, PTL
<1>2. ((\A t \in Threads : pc[t] \notin Writing) =>
         \A s \in AllSlots : Written(s) = notifiers[s])'
  BY WrittenByNone, PTL
<1> QED
  BY <1>1, <1>2 DEF Writing, Target

\* Nothing of the abstract table changes with the writes of others or none.
LEMMA NowSame ==
  ASSUME TableInv, TableInv', notifiers' = notifiers,
         \A u \in Threads : pc'[u] \in Writing <=> pc[u] \in Writing,
         \A u \in Threads : pc[u] \in Writing => op'[u] = op[u] /\ i'[u] = i[u]
  PROVE  DefaultNow' = DefaultNow /\ TableNow' = TableNow
<1>1. \A s \in AllSlots : Written(s)' = Written(s)
  <2>1. CASE \A t \in Threads : pc[t] \notin Writing
    BY <2>1, WrittenByNone, WrittenByNext
  <2>2. ASSUME NEW t \in Threads, pc[t] \in Writing, NEW s \in AllSlots
        PROVE  Written(s)' = Written(s)
    <3>1. Written(s) = IF s = i[t] THEN Target(op[t], s) ELSE notifiers[s]
      BY <2>2, WrittenBy
    <3>2. Written(s)' = IF s = i'[t] THEN Target(op[t], s)' ELSE notifiers'[s]
      BY <2>2, WrittenByNext
    <3>3. Target(op[t], s)' = Target(op[t], s)
      BY <2>2 DEF Target, NewHandle
    <3> QED
      BY <2>2, <3>1, <3>2, <3>3
  <2> QED
    BY <2>1, <2>2
<1>2. 0 \in AllSlots /\ Slots \subseteq AllSlots
  BY TableAssumption DEF AllSlots, Slots
<1> QED
  BY <1>1, <1>2 DEF DefaultNow, TableNow, AsRegistration

\* A slot and its registration.
LEMMA AsFree ==
  ASSUME NEW slot
  PROVE  AsRegistration(slot) = EmptySlot <=> slot.type = "UPDATE_NONE"
BY DEF AsRegistration, EmptySlot, NoEvent

LEMMA AsHolding ==
  ASSUME NEW slot, NEW event \in Events, event.type # "UPDATE_NONE"
  PROVE  AsRegistration(slot).event = event
           <=> slot.type = event.type /\ slot.info = event.info
<1>1. event = [type |-> event.type, info |-> event.info]
  BY EventsAssumption
<1> QED
  BY <1>1 DEF AsRegistration, EmptySlot, NoEvent

LEMMA FirstSlot ==
  ASSUME NEW S \in SUBSET Slots, NEW n \in S, \A s \in 1..(n - 1) : s \notin S
  PROVE  S # {} /\ Min(S) = n
<1>1. \A s \in S : n =< s
  BY TableAssumption DEF Slots
<1>2. \A x \in S : (\A y \in S : x =< y) => x = n
  BY <1>1, TableAssumption DEF Slots
<1> QED
  BY <1>1, <1>2 DEF Min

\* The table that a search of the only mutator sees is the abstract one.
LEMMA Searched ==
  ASSUME OneMutator, ChangeInv, NEW t \in Threads, pc[t] \in Searching
  PROVE  /\ \A u \in Threads : pc[u] \notin Writing
         /\ \A s \in AllSlots : Written(s) = notifiers[s]
         /\ TableNow = [s \in Slots |-> AsRegistration(notifiers[s])]
         /\ DefaultNow = notifiers[0].handle
<1>1. \A u \in Threads : pc[u] \notin Writing
  <2>1. \A u \in Threads : pc[u] \in Writing => u = t
    BY DEF ChangeInv, SearchOK, Changing, OneMutator
  <2> QED
    BY <2>1 DEF Searching, Writing
<1>2. \A s \in AllSlots : Written(s) = notifiers[s]
  BY <1>1, WrittenByNone
<1>3. 0 \in AllSlots /\ Slots \subseteq AllSlots
  BY TableAssumption DEF AllSlots, Slots
<1> QED
  BY <1>1, <1>2, <1>3 DEF TableNow, DefaultNow

\* What a step of t does to the calls and their outcomes.
LEMMA NowCalls ==
  ASSUME NEW t \in Threads, NEW c, NEW d,
         \A u \in Threads : u # t => /\ pc'[u] = pc[u] /\ op'[u] = op[u]
                                     /\ ret'[u] = ret[u],
         (IF pc'[t] \in Writing THEN NoCall ELSE op'[t]) = c,
         (IF pc'[t] \in Writing THEN "ok" ELSE ret'[t]) = d
  PROVE  CallNow' = [CallNow EXCEPT ![t] = c] /\ DoneNow' = [DoneNow EXCEPT ![t] = d]
<1>1. CallNow' = [u \in Threads |-> IF u = t THEN c ELSE CallNow[u]]
  BY DEF CallNow, Writing, NoCall, Change, NoEvent
<1>2. DoneNow' = [u \in Threads |-> IF u = t THEN d ELSE DoneNow[u]]
  BY DEF DoneNow, Writing
<1> QED
  BY <1>1, <1>2 DEF CallNow, DoneNow

-----------------------------------------------------------------------------
(* Every step is one of the abstract table, or none *)

LEMMA CallStarted ==
  ASSUME ChangeInv, ChangeInv', NEW t \in Threads, NEW c \in Table!Calls,
         pc[t] = "idle", pc'[t] \notin Writing, op'[t] = c, ret' = ret,
         \A u \in Threads : u # t => /\ pc'[u] = pc[u] /\ op'[u] = op[u]
                                     /\ i'[u] = i[u],
         notifiers' = notifiers
  PROVE  Table!Start(t)
<1>1. pc[t] \notin Writing /\ op[t] = NoCall
  BY DEF Writing, ChangeInv, SearchOK
<1>2. CallNow[t] = Table!NoCall
  BY <1>1 DEF CallNow, Table!NoCall, Table!Change, Table!Free, NoCall, Change, NoEvent
<1>3. ret'[t] = DoneNow[t]
  BY <1>1 DEF DoneNow
<1>4. CallNow' = [CallNow EXCEPT ![t] = c] /\ DoneNow' = [DoneNow EXCEPT ![t] = DoneNow[t]]
  BY <1>3, NowCalls
<1>5. DoneNow' = DoneNow
  BY <1>4 DEF DoneNow
<1>6. DefaultNow' = DefaultNow /\ TableNow' = TableNow
  BY <1>1, NowSame DEF ChangeInv, LookInv
<1> QED
  BY <1>2, <1>4, <1>5, <1>6 DEF Table!Start

LEMMA CallImplements ==
  ASSUME ChangeInv, ChangeInv', NEW t \in Mutators, Call(t)
  PROVE  Table!Start(t) \/ Table!Refuse(t)
<1> USE DEF Goto, Threads
<1>1. TypeOK
  BY DEF ChangeInv, LookInv, TableInv
<1>2. PICK kind \in Kinds, event \in Events, new \in Handles \union {"NULL"} :
        /\ kind = "remove" => new = "NULL"
        /\ \/ CallRefused(t, Change(kind, event, new))
           \/ CallStarts(t, Change(kind, event, new), 0, "wait")
           \/ CallStarts(t, Change(kind, event, new), 1, "scan")
  BY DEF Call
<1>3. notifiers' = notifiers
  BY DEF Call
<1> DEFINE call == Change(kind, event, new)
<1>4. /\ call.kind = kind /\ call.event = event /\ call.new = new
      /\ call = Table!Change(kind, event, new)
  BY DEF Change, Table!Change
<1> HIDE DEF call
<1>5. CASE CallRefused(t, call)
  <2>1. /\ pc[t] = "idle" /\ pc' = [pc EXCEPT ![t] = "idle"] /\ op' = op /\ i' = i
        /\ ret' = [ret EXCEPT ![t] = "error"]
    BY <1>5 DEF CallRefused
  <2>2. /\ \A u \in Threads : pc'[u] = pc[u]
        /\ \A u \in Threads : u # t => ret'[u] = ret[u]
        /\ ret'[t] = "error" /\ pc[t] \notin Writing
    BY <1>1, <2>1 DEF TypeOK, Writing
  <2>3. ~Table!Acceptable(new, event)
    BY <1>4, <1>5 DEF CallRefused, Refused, Table!Acceptable
  <2>4. op[t] = CallNow[t]
    BY <2>2 DEF CallNow
  <2>5. /\ CallNow' = [CallNow EXCEPT ![t] = CallNow[t]]
        /\ DoneNow' = [DoneNow EXCEPT ![t] = "error"]
    BY <2>1, <2>2, <2>4, NowCalls
  <2>6. CallNow' = CallNow
    BY <2>5 DEF CallNow
  <2>7. DefaultNow' = DefaultNow /\ TableNow' = TableNow
    BY <1>3, <2>1, <2>2, NowSame DEF ChangeInv, LookInv
  <2>8. CallNow[t] = Table!NoCall
    <3>1. op[t] = NoCall
      BY <2>1 DEF ChangeInv, SearchOK
    <3> QED
      BY <2>4, <3>1 DEF Table!NoCall, Table!Change, Table!Free, NoCall, Change, NoEvent
  <2> QED
    BY <2>3, <2>5, <2>6, <2>7, <2>8 DEF Table!Refuse
<1>6. CASE CallStarts(t, call, 0, "wait") \/ CallStarts(t, call, 1, "scan")
  <2>1. PICK to \in {"wait", "scan"}, slot \in {0, 1} :
          /\ ~Refused(call) /\ pc[t] = "idle" /\ pc' = [pc EXCEPT ![t] = to]
          /\ op' = [op EXCEPT ![t] = call] /\ i' = [i EXCEPT ![t] = slot]
          /\ ret' = ret
    BY <1>6 DEF CallStarts
  <2>2. call \in Table!Calls
    <3>1. CASE kind = "remove"
      BY <1>2, <1>4, <3>1 DEF Table!Calls
    <3>2. CASE kind # "remove"
      <4>1. kind \in {"add", "modify"} /\ new \in Handles
        BY <1>4, <2>1, <3>2, KindsAssumption DEF Refused
      <4>2. Table!Acceptable(call.new, call.event)
        BY <1>4, <2>1, <3>2 DEF Refused, Table!Acceptable
      <4> QED
        BY <1>4, <4>1, <4>2 DEF Table!Calls
    <3> QED
      BY <3>1, <3>2
  <2>3. /\ pc'[t] \notin Writing /\ op'[t] = call
        /\ \A u \in Threads : u # t => /\ pc'[u] = pc[u] /\ op'[u] = op[u]
                                       /\ i'[u] = i[u]
    BY <1>1, <2>1 DEF TypeOK, Writing
  <2> QED
    BY <1>3, <2>1, <2>2, <2>3, CallStarted
<1> QED
  BY <1>2, <1>5, <1>6 DEF call

LEMMA CallFindImplements ==
  ASSUME ChangeInv, ChangeInv', NEW t \in Finders, CallFind(t)
  PROVE  Table!Start(t)
<1> USE DEF Goto, Threads, Locals
<1>1. TypeOK
  BY DEF ChangeInv, LookInv, TableInv
<1>2. PICK update \in Updates :
        /\ pc[t] = "idle" /\ pc' = [pc EXCEPT ![t] = "find"]
        /\ op' = [op EXCEPT ![t] = Lookup(update)]
        /\ UNCHANGED <<notifiers, i, ret>>
  BY DEF CallFind
<1>3. Lookup(update) \in Table!Calls
  BY DEF Lookup, Table!Lookup, Table!Calls
<1>4. /\ pc'[t] \notin Writing /\ op'[t] = Lookup(update)
      /\ \A u \in Threads : u # t => /\ pc'[u] = pc[u] /\ op'[u] = op[u]
                                     /\ i'[u] = i[u]
  BY <1>1, <1>2 DEF TypeOK, Writing
<1> QED
  BY <1>2, <1>3, <1>4, CallStarted

\* The sets of slots that the abstract calls choose from.
LEMMA SlotsSearched ==
  ASSUME OneMutator, ChangeInv, NEW t \in Threads, pc[t] \in Searching
  PROVE  /\ Table!FreeSlots = {s \in Slots : notifiers[s].type = "UPDATE_NONE"}
         /\ \A event \in Events : event.type # "UPDATE_NONE" =>
              Table!Holding(event) = {s \in Slots : /\ notifiers[s].type = event.type
                                                    /\ notifiers[s].info = event.info}
<1>1. \A s \in Slots : TableNow[s] = AsRegistration(notifiers[s])
  BY Searched
<1>2. Table!Slots = Slots /\ Table!Free = EmptySlot
  BY DEF Table!Slots, Slots, Table!Free, EmptySlot, NoEvent
<1>3. Table!FreeSlots = {s \in Slots : notifiers[s].type = "UPDATE_NONE"}
  <2>1. Table!FreeSlots = {s \in Slots : TableNow[s] = EmptySlot}
    BY <1>2 DEF Table!FreeSlots
  <2>2. \A s \in Slots : TableNow[s] = EmptySlot <=> notifiers[s].type = "UPDATE_NONE"
    BY <1>1, AsFree
  <2> QED
    BY <2>1, <2>2
<1>4. ASSUME NEW event \in Events, event.type # "UPDATE_NONE"
      PROVE  Table!Holding(event) = {s \in Slots : /\ notifiers[s].type = event.type
                                                   /\ notifiers[s].info = event.info}
  <2>1. Table!Holding(event) = {s \in Slots : TableNow[s].event = event}
    BY <1>2 DEF Table!Holding
  <2>2. \A s \in Slots : TableNow[s].event = event
          <=> notifiers[s].type = event.type /\ notifiers[s].info = event.info
    BY <1>1, <1>4, AsHolding
  <2> QED
    BY <2>1, <2>2
<1> QED
  BY <1>3, <1>4

\* What a change may rely on when it is called abstractly.
LEMMA ChangeCall ==
  ASSUME ChangeInv, NEW t \in Threads, pc[t] \in Searching
  PROVE  /\ CallNow[t] = op[t]
         /\ op[t].kind \in {"add", "modify", "remove"}
         /\ op[t].event \in Events \union {NoEvent}
         /\ op[t].kind # "remove" => op[t].event.type # "UPDATE_NONE"
         /\ op[t].event.type # "UPDATE_NONE" => op[t].event \in Events
<1>1. pc[t] \notin Writing
  BY DEF Searching, Writing
<1>2. /\ op[t] \in Changes /\ op[t].kind \in {"add", "modify", "remove"}
      /\ op[t].kind # "remove" => op[t].event.type # "UPDATE_NONE"
  BY DEF ChangeInv, LookInv, TableInv, CallOK, Searching
<1> QED
  BY <1>1, <1>2 DEF CallNow, Changes, NoEvent

LEMMA ScanFailsImplements ==
  ASSUME OneMutator, ChangeInv, ChangeInv', NEW t \in Threads, Scan(t), ScanFails(t)
  PROVE  Table!Act(t)
<1> DEFINE call == op[t]
<1>1. TypeOK
  BY DEF ChangeInv, LookInv, TableInv
<1>2. /\ pc[t] = "scan" /\ i[t] = MAX_UPDATE_EVENTS
      /\ pc' = [pc EXCEPT ![t] = "idle"] /\ op' = [op EXCEPT ![t] = NoCall]
      /\ i' = [i EXCEPT ![t] = 0]
      /\ ret' = [ret EXCEPT ![t] = "error"] /\ notifiers' = notifiers
  BY DEF Scan, ScanFails, Goto, Return, LoopEnd
<1>3. /\ pc'[t] = "idle" /\ op'[t] = NoCall /\ ret'[t] = "error"
      /\ \A u \in Threads : u # t => /\ pc'[u] = pc[u] /\ op'[u] = op[u]
                                     /\ ret'[u] = ret[u]
      /\ \A u \in Threads : u # t => i'[u] = i[u]
  BY <1>1, <1>2 DEF TypeOK
<1>4. pc[t] \in Searching /\ pc[t] \notin Writing /\ pc'[t] \notin Writing
  BY <1>2, <1>3 DEF Searching, Writing
<1>5. /\ CallNow' = [CallNow EXCEPT ![t] = NoCall]
      /\ DoneNow' = [DoneNow EXCEPT ![t] = "error"]
  BY <1>3, <1>4, NowCalls
<1>6. DefaultNow' = DefaultNow /\ TableNow' = TableNow
  BY <1>2, <1>3, <1>4, NowSame DEF ChangeInv, LookInv
<1>7. Table!Fails(t)
  <2>1. Table!NoCall = NoCall
    BY DEF Table!NoCall, Table!Change, Table!Free, NoCall, Change, NoEvent
  <2> QED
    BY <1>5, <1>6, <2>1 DEF Table!Fails, Table!Returns
<1>8. /\ call.event.type # "UPDATE_ANY"
      /\ \A s \in Slots : ~Fits(notifiers[s], call)
  <2>1. 1..(i[t] - 1) = Slots
    BY <1>2 DEF Slots
  <2> QED
    BY <1>2, <2>1 DEF ChangeInv, SearchOK, Searching
<1>9. /\ CallNow[t] = call
      /\ call.kind \in {"add", "modify", "remove"}
      /\ call.kind # "remove" => call.event.type # "UPDATE_NONE"
      /\ call.event.type # "UPDATE_NONE" => call.event \in Events
  BY <1>4, ChangeCall
<1>10. CASE call.kind = "add"
  <2>1. Table!FreeSlots = {}
    BY <1>4, <1>8, <1>10, SlotsSearched DEF Fits
  <2>2. Table!Add(t, call.event, call.new)
    BY <1>7, <1>8, <2>1 DEF Table!Add, Table!SetFirst
  <2> QED
    BY <1>9, <1>10, <2>2 DEF Table!Act
<1>11. CASE call.kind # "add" /\ call.event.type # "UPDATE_NONE"
  <2>1. Table!Holding(call.event) = {}
    BY <1>4, <1>8, <1>9, <1>11, SlotsSearched DEF Fits
  <2>2. /\ Table!Modify(t, call.event, call.new)
        /\ Table!Remove(t, call.event)
    BY <1>7, <1>8, <1>11, <2>1 DEF Table!Modify, Table!Remove, Table!SetFirst
  <2> QED
    BY <1>9, <1>11, <2>2 DEF Table!Act
<1>12. CASE call.kind = "remove" /\ call.event.type = "UPDATE_NONE"
  <2>1. Table!Remove(t, call.event)
    BY <1>7, <1>12 DEF Table!Remove
  <2> QED
    BY <1>9, <1>12, <2>1 DEF Table!Act
<1> HIDE DEF call
<1> QED
  BY <1>9, <1>10, <1>11, <1>12

\* The abstract table after a step that leaves t writing: t's slot has what it
\* is to have, the others what they have.
LEMMA NowWriting ==
  ASSUME TableInv', NEW t \in Threads, pc'[t] \in Writing
  PROVE  /\ TableNow' = [s \in Slots |-> IF s = i'[t] THEN AsRegistration(Target(op'[t], s))
                                         ELSE AsRegistration(notifiers'[s])]
         /\ DefaultNow' = IF i'[t] = 0 THEN NewHandle(op'[t], 0) ELSE notifiers'[0].handle
<1>1. 0 \in AllSlots /\ Slots \subseteq AllSlots
  BY TableAssumption DEF AllSlots, Slots
<1>2. \A s \in AllSlots : Written(s)' = IF s = i'[t] THEN Target(op'[t], s)
                                        ELSE notifiers'[s]
  BY WrittenByNext DEF Target, NewHandle
<1>3. \A s \in AllSlots : AsRegistration(Written(s))'
                            = IF s = i'[t] THEN AsRegistration(Target(op'[t], s))
                              ELSE AsRegistration(notifiers'[s])
  BY <1>2 DEF AsRegistration
<1>4. DefaultNow' = Written(0)'.handle
  BY DEF DefaultNow
<1>5. Target(op'[t], 0).handle = NewHandle(op'[t], 0)
  BY DEF Target
<1> QED
  BY <1>1, <1>2, <1>3, <1>4, <1>5 DEF TableNow

\* The slot that a change has written, as a registration.
LEMMA TargetIs ==
  ASSUME NEW call, NEW s, s # 0
  PROVE  /\ call.kind = "remove" => AsRegistration(Target(call, s)) = EmptySlot
         /\ call.kind # "remove" /\ call.event.type # "UPDATE_NONE"
              /\ call.event \in Events =>
              AsRegistration(Target(call, s))
                = [event |-> call.event, handle |-> call.new]
<1>1. call.kind = "remove" => Target(call, s).type = "UPDATE_NONE"
  BY DEF Target
<1>2. call.kind # "remove" => /\ Target(call, s).type = call.event.type
                              /\ Target(call, s).info = call.event.info
                              /\ Target(call, s).handle = call.new
  BY DEF Target, NewHandle
<1>3. call.event \in Events =>
        call.event = [type |-> call.event.type, info |-> call.event.info]
  BY EventsAssumption
<1> QED
  BY <1>1, <1>2, <1>3 DEF AsRegistration

\* A change acts when its thread gets the semaphore.
LEMMA SemWaitImplements ==
  ASSUME OneMutator, ChangeInv, ChangeInv', NEW t \in Threads, SemWait(t)
  PROVE  Table!Act(t)
<1> DEFINE call == op[t]
           n == i[t]
<1>1. TypeOK /\ TableInv'
  BY DEF ChangeInv, LookInv, TableInv
<1>2. /\ pc[t] = "wait" /\ UNCHANGED <<notifiers, op, i, ret>>
      /\ pc' = [pc EXCEPT ![t] = IF call.kind = "remove" /\ n # 0 THEN "write_type"
                                 ELSE "write_handle"]
  BY DEF SemWait, Goto, Locals
<1>3. /\ pc'[t] \in Writing /\ op'[t] = call /\ i'[t] = n
      /\ \A u \in Threads : u # t => /\ pc'[u] = pc[u] /\ op'[u] = op[u]
                                     /\ ret'[u] = ret[u]
  BY <1>1, <1>2 DEF TypeOK, Writing
<1>4. pc[t] \in Searching
  BY <1>2 DEF Searching
<1>5. Table!Returns(t, "ok")
  <2>1. Table!NoCall = NoCall
    BY DEF Table!NoCall, Table!Change, Table!Free, NoCall, Change, NoEvent
  <2>2. /\ CallNow' = [CallNow EXCEPT ![t] = NoCall]
        /\ DoneNow' = [DoneNow EXCEPT ![t] = "ok"]
    BY <1>3, NowCalls
  <2> QED
    BY <2>1, <2>2 DEF Table!Returns
<1>6. /\ CallNow[t] = call
      /\ call.kind \in {"add", "modify", "remove"}
      /\ call.kind # "remove" => call.event.type # "UPDATE_NONE"
      /\ call.event.type # "UPDATE_NONE" => call.event \in Events
  BY <1>4, ChangeCall
<1>7. /\ n \in AllSlots /\ (n = 0 <=> call.event.type = "UPDATE_ANY")
      /\ \A s \in 1..(n - 1) : ~Fits(notifiers[s], call)
      /\ n # 0 => Fits(notifiers[n], call)
  BY <1>2 DEF ChangeInv, LookInv, TableInv, CallOK, SearchOK, Searching
<1>8. /\ TableNow = [s \in Slots |-> AsRegistration(notifiers[s])]
      /\ DefaultNow = notifiers[0].handle
  BY <1>4, Searched
<1>9. /\ TableNow' = [s \in Slots |-> IF s = n THEN AsRegistration(Target(call, s))
                                      ELSE AsRegistration(notifiers[s])]
      /\ DefaultNow' = IF n = 0 THEN NewHandle(call, 0) ELSE notifiers[0].handle
  <2>1. /\ TableNow' = [s \in Slots |-> IF s = i'[t] THEN AsRegistration(Target(op'[t], s))
                                        ELSE AsRegistration(notifiers'[s])]
        /\ DefaultNow' = IF i'[t] = 0 THEN NewHandle(op'[t], 0) ELSE notifiers'[0].handle
    BY <1>1, <1>3, NowWriting
  <2> QED
    BY <1>2, <1>3, <2>1
<1>10. CASE n = 0
  <2>1. TableNow' = TableNow
    <3>1. \A s \in Slots : s # 0
      BY DEF Slots
    <3> QED
      BY <1>8, <1>9, <1>10, <3>1
  <2>2. DefaultNow' = IF call.kind = "remove" THEN "ignoreUpdate" ELSE call.new
    BY <1>9, <1>10 DEF NewHandle
  <2>3. call.event.type = "UPDATE_ANY"
    BY <1>7, <1>10
  <2>4. /\ call.kind = "add" => Table!Add(t, call.event, call.new)
        /\ call.kind = "modify" => Table!Modify(t, call.event, call.new)
        /\ call.kind = "remove" => Table!Remove(t, call.event)
    BY <1>5, <2>1, <2>2, <2>3
    DEF Table!Add, Table!Modify, Table!Remove, Table!SetDefault
  <2> HIDE DEF call
  <2> QED
    BY <1>6, <2>4 DEF Table!Act
<1>11. CASE n # 0
  <2>1. n \in Slots /\ DefaultNow' = DefaultNow /\ call.event.type # "UPDATE_ANY"
    BY <1>7, <1>8, <1>9, <1>11, TableAssumption DEF Slots, AllSlots
  <2>2. TableNow' = [TableNow EXCEPT ![n] = AsRegistration(Target(call, n))]
    BY <1>8, <1>9, <2>1
  <2>3. ASSUME NEW S \in SUBSET Slots, \A s \in Slots : s \in S <=> Fits(notifiers[s], call)
        PROVE  Table!SetFirst(t, S, AsRegistration(Target(call, n)))
    <3>1. n \in S /\ \A s \in 1..(n - 1) : s \notin S
      <4>1. \A s \in 1..(n - 1) : s \in Slots
        BY <2>1, TableAssumption DEF Slots
      <4> QED
        BY <1>7, <1>11, <2>1, <2>3, <4>1
    <3>2. S # {} /\ Min(S) = n
      BY <3>1, FirstSlot
    <3>3. Table!Min(S) = n
      BY <3>2 DEF Table!Min, Min
    <3> QED
      BY <1>5, <2>1, <2>2, <3>2, <3>3 DEF Table!SetFirst
  <2>4. CASE call.kind = "add"
    <3>1. Table!FreeSlots = {s \in Slots : Fits(notifiers[s], call)}
      BY <1>4, <2>4, SlotsSearched DEF Fits
    <3>2. AsRegistration(Target(call, n)) = [event |-> call.event, handle |-> call.new]
      BY <1>6, <1>11, <2>4, TargetIs
    <3>3. Table!Add(t, call.event, call.new)
      BY <2>1, <2>3, <3>1, <3>2 DEF Table!Add
    <3> HIDE DEF call
    <3> QED
      BY <1>6, <2>4, <3>3 DEF Table!Act
  <2>5. CASE call.kind = "modify"
    <3>1. Table!Holding(call.event) = {s \in Slots : Fits(notifiers[s], call)}
      BY <1>4, <1>6, <2>5, SlotsSearched DEF Fits
    <3>2. AsRegistration(Target(call, n)) = [event |-> call.event, handle |-> call.new]
      BY <1>6, <1>11, <2>5, TargetIs
    <3>3. Table!Modify(t, call.event, call.new)
      BY <2>1, <2>3, <3>1, <3>2 DEF Table!Modify
    <3> HIDE DEF call
    <3> QED
      BY <1>6, <2>5, <3>3 DEF Table!Act
  <2>6. CASE call.kind = "remove" /\ call.event.type # "UPDATE_NONE"
    <3>1. Table!Holding(call.event) = {s \in Slots : Fits(notifiers[s], call)}
      BY <1>4, <1>6, <2>6, SlotsSearched DEF Fits
    <3>2. AsRegistration(Target(call, n)) = Table!Free
      BY <1>11, <2>6, TargetIs DEF Table!Free, EmptySlot, NoEvent
    <3>3. Table!Remove(t, call.event)
      BY <2>1, <2>3, <2>6, <3>1, <3>2 DEF Table!Remove
    <3> HIDE DEF call
    <3> QED
      BY <1>6, <2>6, <3>3 DEF Table!Act
  <2>7. CASE call.kind = "remove" /\ call.event.type = "UPDATE_NONE"
    <3>1. notifiers[n].type = "UPDATE_NONE"
      BY <1>7, <1>11, <2>7 DEF Fits
    <3>2. AsRegistration(Target(call, n)) = TableNow[n]
      BY <1>8, <1>11, <2>1, <2>7, <3>1, TargetIs, AsFree
    <3>3. TableNow' = TableNow
      BY <1>8, <2>2, <3>2
    <3>4. Table!Remove(t, call.event)
      BY <1>5, <2>1, <2>7, <3>3 DEF Table!Remove
    <3> HIDE DEF call
    <3> QED
      BY <1>6, <2>7, <3>4 DEF Table!Act
  <2> HIDE DEF call
  <2> QED
    BY <1>6, <2>4, <2>5, <2>6, <2>7
<1> QED
  BY <1>10, <1>11

\* The steps that the abstract table does not see.
LEMMA CallsSame ==
  ASSUME UNCHANGED <<op, ret>>,
         \A u \in Threads : pc'[u] \in Writing <=> pc[u] \in Writing
  PROVE  CallNow' = CallNow /\ DoneNow' = DoneNow
BY DEF CallNow, DoneNow, Writing, NoCall, Change, NoEvent

LEMMA WriteStutters ==
  ASSUME ChangeInv, ChangeInv', NEW t \in Threads,
         WriteHandle(t) \/ WriteType(t) \/ WriteInfo(t)
  PROVE  UNCHANGED Table!vars
<1>1. TypeOK /\ TableInv /\ TableInv'
  BY DEF ChangeInv, LookInv, TableInv
<1>2. /\ pc[t] \in Writing /\ UNCHANGED <<op, i, ret>>
      /\ \E to \in Writing : pc' = [pc EXCEPT ![t] = to]
      /\ \A s \in AllSlots : s # i[t] => notifiers'[s] = notifiers[s]
  BY <1>1 DEF WriteHandle, WriteType, WriteInfo, Goto, Locals, Writing, TypeOK
<1>3. pc'[t] \in Writing /\ \A u \in Threads : pc'[u] \in Writing <=> pc[u] \in Writing
  BY <1>1, <1>2 DEF TypeOK
<1>4. CallNow' = CallNow /\ DoneNow' = DoneNow
  BY <1>2, <1>3, CallsSame
<1>5. \A s \in AllSlots : Written(s)' = Written(s)
  <2> TAKE s \in AllSlots
  <2>1. Written(s) = IF s = i[t] THEN Target(op[t], s) ELSE notifiers[s]
    BY <1>1, <1>2, WrittenBy
  <2>2. Written(s)' = IF s = i'[t] THEN Target(op[t], s)' ELSE notifiers'[s]
    BY <1>1, <1>3, WrittenByNext
  <2>3. Target(op[t], s)' = Target(op[t], s)
    BY <1>2 DEF Target, NewHandle
  <2> QED
    BY <1>2, <2>1, <2>2, <2>3
<1>6. 0 \in AllSlots /\ Slots \subseteq AllSlots
  BY TableAssumption DEF AllSlots, Slots
<1>7. DefaultNow' = DefaultNow /\ TableNow' = TableNow
  BY <1>5, <1>6 DEF DefaultNow, TableNow, AsRegistration
<1> QED
  BY <1>4, <1>7 DEF Table!vars

\* When the semaphore is given back the slot holds what the call asked for.
LEMMA SemPostStutters ==
  ASSUME ChangeInv, ChangeInv', NEW t \in Threads, SemPost(t)
  PROVE  UNCHANGED Table!vars
<1> DEFINE call == op[t]
           n == i[t]
           slot == notifiers[n]
<1>1. TypeOK /\ TableInv
  BY DEF ChangeInv, LookInv, TableInv
<1>2. /\ pc[t] = "post" /\ pc' = [pc EXCEPT ![t] = "idle"] /\ notifiers' = notifiers
      /\ op' = [op EXCEPT ![t] = NoCall] /\ ret' = [ret EXCEPT ![t] = "ok"]
  BY DEF SemPost, Goto, Return
<1>3. pc[t] \in Writing
  BY <1>2 DEF Writing
<1>4. /\ pc'[t] = "idle" /\ op'[t] = NoCall /\ ret'[t] = "ok"
      /\ \A u \in Threads : u # t => /\ pc'[u] = pc[u] /\ op'[u] = op[u]
                                     /\ ret'[u] = ret[u]
  BY <1>1, <1>2 DEF TypeOK
<1>5. CallNow' = CallNow /\ DoneNow' = DoneNow
  <2>1. (IF pc'[t] \in Writing THEN NoCall ELSE op'[t]) = CallNow[t]
    BY <1>3, <1>4 DEF CallNow, Writing
  <2>2. (IF pc'[t] \in Writing THEN "ok" ELSE ret'[t]) = DoneNow[t]
    BY <1>3, <1>4 DEF DoneNow, Writing
  <2>3. /\ CallNow' = [CallNow EXCEPT ![t] = CallNow[t]]
        /\ DoneNow' = [DoneNow EXCEPT ![t] = DoneNow[t]]
    BY <1>4, <2>1, <2>2, NowCalls
  <2> QED
    BY <2>3 DEF CallNow, DoneNow
<1>6. /\ n \in AllSlots /\ (n = 0 <=> call.event.type = "UPDATE_ANY")
      /\ call.kind \in {"add", "modify", "remove"} /\ WrittenOK(t)
  BY <1>2, <1>3 DEF ChangeInv, LookInv, TableInv, CallOK, SearchOK
<1>7. \A s \in AllSlots : Written(s) = IF s = n THEN Target(call, s) ELSE notifiers[s]
  BY <1>1, <1>3, WrittenBy
<1>8. \A s \in AllSlots : Written(s)' = notifiers[s]
  <2>1. \A u \in Threads : pc'[u] \notin Writing
    <3>1. \A u \in Threads : pc[u] \in Writing => u = t
      BY <1>1, <1>3 DEF TableInv, MutexHeld, Critical
    <3>2. pc'[t] \notin Writing
      BY <1>4 DEF Writing
    <3> QED
      BY <1>4, <3>1, <3>2
  <2> QED
    BY <1>2, <2>1, WrittenByNext
<1>9. n = 0 => slot.handle = Target(call, 0).handle
  BY <1>2, <1>6 DEF WrittenOK, Target
<1>10. n # 0 => AsRegistration(slot) = AsRegistration(Target(call, n))
  <2> SUFFICES ASSUME n # 0
               PROVE  AsRegistration(slot) = AsRegistration(Target(call, n))
    OBVIOUS
  <2>1. CASE call.kind = "remove"
    <3>1. slot.type = "UPDATE_NONE" /\ Target(call, n).type = "UPDATE_NONE"
      BY <1>2, <1>6, <2>1 DEF WrittenOK, Target
    <3> QED
      BY <3>1 DEF AsRegistration
  <2>2. CASE call.kind # "remove"
    <3>1. /\ slot.type = call.event.type /\ slot.info = call.event.info
          /\ slot.handle = NewHandle(call, n)
      BY <1>2, <1>3, <1>6, <2>2 DEF WrittenOK, NewHandle
    <3>2. /\ Target(call, n).type = call.event.type
          /\ Target(call, n).info = call.event.info
          /\ Target(call, n).handle = NewHandle(call, n)
      BY <2>2 DEF Target
    <3> QED
      BY <3>1, <3>2 DEF AsRegistration
  <2> QED
    BY <2>1, <2>2
<1>11. 0 \in AllSlots /\ Slots \subseteq AllSlots /\ 0 \notin Slots
  BY TableAssumption DEF AllSlots, Slots
<1>12. DefaultNow' = DefaultNow
  BY <1>7, <1>8, <1>9, <1>11 DEF DefaultNow
<1>13. TableNow' = TableNow
  <2>1. \A s \in Slots : AsRegistration(Written(s)') = AsRegistration(Written(s))
    BY <1>7, <1>8, <1>10, <1>11
  <2> QED
    BY <2>1 DEF TableNow, AsRegistration
<1> QED
  BY <1>5, <1>12, <1>13 DEF Table!vars

\* The search, and the lookup until it returns.
LEMMA QuietStutters ==
  ASSUME ChangeInv, ChangeInv', NEW t \in Threads,
         \/ Scan(t) /\ (ScanGoesOn(t) \/ ScanFinds(t))
         \/ Compare(t) \/ FindWait(t) \/ Look(t) \/ LookCrashes(t) \/ LookEnds(t)
  PROVE  UNCHANGED Table!vars
<1>1. TypeOK /\ TableInv /\ TableInv'
  BY DEF ChangeInv, LookInv, TableInv
<1>2. /\ pc[t] \in Searching \union {"find"} \union Looking
      /\ \E to \in Searching \union Looking : pc' = [pc EXCEPT ![t] = to]
      /\ UNCHANGED <<notifiers, op, ret>>
      /\ i' = i \/ \E to \in 0..MAX_UPDATE_EVENTS : i' = [i EXCEPT ![t] = to]
  <2>1. CASE Scan(t) /\ (ScanGoesOn(t) \/ ScanFinds(t))
    <3>1. i[t] + 1 \in 0..MAX_UPDATE_EVENTS \/ ~ScanGoesOn(t)
      BY <1>1, TableAssumption DEF ScanGoesOn, LoopEnd, TypeOK
    <3> QED
      BY <2>1, <3>1 DEF Scan, ScanGoesOn, ScanFinds, Goto, Searching
  <2>2. CASE Compare(t)
    <3>1. pc[t] = "compare"
      BY <2>2 DEF Compare, Goto
    <3>2. i[t] + 1 \in 0..MAX_UPDATE_EVENTS
      BY <1>1, <3>1, TableAssumption DEF TableInv, CallOK, Slots
    <3> QED
      BY <2>2, <3>1, <3>2 DEF Compare, Goto, Searching
  <2>3. CASE FindWait(t)
    <3>1. 1 \in 0..MAX_UPDATE_EVENTS
      BY TableAssumption
    <3>2. pc[t] = "find" /\ pc' = [pc EXCEPT ![t] = "look"] /\ "look" \in Looking
      BY <2>3 DEF FindWait, Goto, Looking
    <3>3. UNCHANGED <<notifiers, op, ret>> /\ i' = [i EXCEPT ![t] = 1]
      BY <2>3 DEF FindWait
    <3> QED
      BY <3>1, <3>2, <3>3
  <2>4. CASE Look(t)
    <3>1. i[t] + 1 \in 0..MAX_UPDATE_EVENTS
      BY <1>1, <2>4, TableAssumption DEF Look, LoopGoesOn, LoopEnd, TypeOK
    <3> QED
      BY <2>4, <3>1 DEF Look, Goto, Looking
  <2>5. CASE LookCrashes(t) \/ LookEnds(t)
    BY <2>5 DEF LookCrashes, LookEnds, Goto, Looking, Locals
  <2> QED
    BY <2>1, <2>2, <2>3, <2>4, <2>5
<1>3. pc[t] \notin Writing /\ pc'[t] \notin Writing
  BY <1>1, <1>2 DEF TypeOK, Searching, Looking, Writing
<1>4. \A u \in Threads : u # t => pc'[u] = pc[u] /\ i'[u] = i[u]
  BY <1>1, <1>2 DEF TypeOK
<1>5. \A u \in Threads : pc'[u] \in Writing <=> pc[u] \in Writing
  BY <1>3, <1>4
<1>6. \A u \in Threads : pc[u] \in Writing => op'[u] = op[u] /\ i'[u] = i[u]
  BY <1>2, <1>3, <1>4
<1> QED
  BY <1>1, <1>2, <1>5, <1>6, CallsSame, NowSame DEF Table!vars

\* What a lookup has found at the end of its loop is the abstract best match.
LEMMA FoundIsBest ==
  ASSUME NEW update, NEW n \in 0..(MAX_UPDATE_EVENTS - 1), NEW h, NEW d,
         Found(notifiers, update, n, h, d),
         h # "NULL" \/ n = MAX_UPDATE_EVENTS - 1,
         update.type \in {"UPDATE_UNKNOWN", "UPDATE_MESSAGE", "UPDATE_POLL"},
         TableNow = [s \in Slots |-> AsRegistration(notifiers[s])],
         DefaultNow = notifiers[0].handle
  PROVE  Table!BestMatch(update) = IF h # "NULL" THEN h
                                   ELSE IF d # "NULL" THEN d ELSE notifiers[0].handle
<1> USE TableAssumption
<1> DEFINE Specific == {s \in Slots : SpecificTo(notifiers[s], update)}
           General  == {s \in Slots : GeneralTo(notifiers[s], update)}
<1>1. CASE update.type = "UPDATE_UNKNOWN"
  <2>1. \A slot : ~SpecificTo(slot, update) /\ ~GeneralTo(slot, update)
    BY <1>1 DEF SpecificTo, GeneralTo, Relevant
  <2>2. h = "NULL" /\ d = "NULL"
    BY <2>1 DEF Found
  <2> QED
    BY <1>1, <2>2 DEF Table!BestMatch
<1>2. CASE update.type # "UPDATE_UNKNOWN"
  <2>1. \A s \in Slots : notifiers[s].type = update.type =>
          /\ TableNow[s].event.type = notifiers[s].type
          /\ TableNow[s].event.info = notifiers[s].info
          /\ TableNow[s].handle = notifiers[s].handle
    BY DEF AsRegistration
  <2>2. \A s \in Slots :
          TableNow[s].event.type = update.type <=> notifiers[s].type = update.type
    BY DEF AsRegistration, EmptySlot, NoEvent
  <2>3. Table!Slots = Slots
    BY DEF Table!Slots, Slots
  <2> DEFINE OfType == {s \in Table!Slots : TableNow[s].event.type = update.type}
         Named   == {s \in OfType : /\ TableNow[s].event.info # "empty"
                                    /\ TableNow[s].event.info = update.key}
         Unnamed == {s \in OfType : TableNow[s].event.info = "empty"}
  <2>4. Named = Specific
    BY <1>2, <2>1, <2>2, <2>3 DEF SpecificTo, Relevant
  <2>5. Unnamed = General
    BY <1>2, <2>1, <2>2, <2>3 DEF GeneralTo, Relevant
  <2>6. Table!BestMatch(update) =
          IF Specific # {} THEN TableNow[Min(Specific)].handle
          ELSE IF General # {} THEN TableNow[Max(General)].handle
          ELSE DefaultNow
    <3>1. Table!BestMatch(update) =
            IF Named # {} THEN TableNow[Table!Min(Named)].handle
            ELSE IF Unnamed # {} THEN TableNow[Table!Max(Unnamed)].handle
            ELSE DefaultNow
      BY <1>2 DEF Table!BestMatch
    <3>2. Table!Min(Specific) = Min(Specific) /\ Table!Max(General) = Max(General)
      BY DEF Table!Min, Table!Max, Min, Max
    <3> HIDE DEF Named, Unnamed, Specific, General
    <3> QED
      BY <2>4, <2>5, <3>1, <3>2
  <2>7. CASE h # "NULL"
    <3>1. /\ n \in Specific /\ h = notifiers[n].handle
          /\ \A s \in 1..(n - 1) : s \notin Specific
      BY <2>7 DEF Found, Slots
    <3>2. Specific # {} /\ Min(Specific) = n
      BY <3>1, FirstSlot
    <3>3. n \in Slots /\ TableNow[n].handle = h
      BY <2>1, <3>1 DEF SpecificTo, Relevant
    <3> QED
      BY <2>6, <2>7, <3>2, <3>3
  <2>8. CASE h = "NULL"
    <3>1. Slots = 1..n
      BY <2>8 DEF Slots
    <3>2. Specific = {}
      BY <2>8, <3>1 DEF Found
    <3>3. CASE d = "NULL"
      <4>1. General = {}
        BY <3>1, <3>3 DEF Found
      <4> QED
        BY <2>6, <2>8, <3>2, <3>3, <4>1
    <3>4. CASE d # "NULL"
      <4>1. PICK s \in 1..n :
              /\ GeneralTo(notifiers[s], update) /\ d = notifiers[s].handle
              /\ \A r \in (s + 1)..n : ~GeneralTo(notifiers[r], update)
        BY <3>4 DEF Found
      <4>2. s \in General /\ \A r \in General : s >= r
        BY <3>1, <4>1
      <4>3. \A x \in General : (\A y \in General : x >= y) => x = s
        BY <3>1, <4>2
      <4>4. Max(General) = s
        BY <4>2, <4>3 DEF Max
      <4>5. TableNow[s].handle = d
        BY <2>1, <3>1, <4>1 DEF GeneralTo, Relevant
      <4> QED
        BY <2>6, <2>8, <3>2, <3>4, <4>2, <4>4, <4>5
    <3> QED
      BY <3>3, <3>4
  <2> QED
    BY <2>7, <2>8
<1> QED
  BY <1>1, <1>2

\* A lookup acts when it returns: nobody is writing then.
LEMMA FindReturnsImplements ==
  ASSUME ParsedUpdates, ChangeInv, ChangeInv', NEW t \in Threads, FindReturns(t)
  PROVE  Table!Act(t)
<1> DEFINE update == op[t].update
<1>1. TypeOK /\ TableInv
  BY DEF ChangeInv, LookInv, TableInv
<1>2. /\ pc[t] = "choose" /\ ~crashed /\ pc' = [pc EXCEPT ![t] = "idle"]
      /\ op' = [op EXCEPT ![t] = NoCall] /\ ret' = [ret EXCEPT ![t] = Choice(t)]
      /\ notifiers' = notifiers
  BY DEF FindReturns, Goto, Return
<1>3. /\ pc'[t] = "idle" /\ op'[t] = NoCall /\ ret'[t] = Choice(t)
      /\ \A u \in Threads : u # t => /\ pc'[u] = pc[u] /\ op'[u] = op[u]
                                     /\ ret'[u] = ret[u]
  BY <1>1, <1>2 DEF TypeOK
<1>4. \A u \in Threads : pc[u] \notin Writing /\ pc'[u] \notin Writing
  <2>1. \A u \in Threads : pc[u] \in Critical => u = t
    BY <1>1, <1>2 DEF TableInv, MutexHeld, Critical, Looking
  <2>2. pc[t] \notin Writing /\ pc'[t] \notin Writing
    BY <1>2, <1>3 DEF Writing
  <2> QED
    BY <1>3, <2>1, <2>2 DEF Critical
<1>5. DefaultNow' = DefaultNow /\ TableNow' = TableNow
  <2>1. TableInv'
    BY DEF ChangeInv, LookInv
  <2> QED
    BY <1>1, <1>2, <1>4, <2>1, NowSame
<1>6. Table!Returns(t, Choice(t))
  <2>1. Table!NoCall = NoCall
    BY DEF Table!NoCall, Table!Change, Table!Free, NoCall, Change, NoEvent
  <2>2. /\ CallNow' = [CallNow EXCEPT ![t] = NoCall]
        /\ DoneNow' = [DoneNow EXCEPT ![t] = Choice(t)]
    BY <1>3, <1>4, NowCalls
  <2> QED
    BY <2>1, <2>2 DEF Table!Returns
<1>7. CallNow[t] = op[t] /\ op[t].kind = "find" /\ update \in Updates
  <2>1. op[t] \in Lookups
    BY <1>1, <1>2 DEF TableInv, CallOK, Looking
  <2> QED
    BY <1>4, <2>1 DEF CallNow, Lookups
<1>8. Choice(t) = Table!BestMatch(update)
  <2>1. /\ i[t] \in 1..MAX_UPDATE_EVENTS
        /\ Found(notifiers, update, i[t] - 1, handle[t], handle_def[t])
        /\ handle[t] # "NULL" \/ i[t] = MAX_UPDATE_EVENTS
    BY <1>2 DEF ChangeInv, LookInv, LookOK, Looking
  <2>2. /\ i[t] - 1 \in 0..(MAX_UPDATE_EVENTS - 1)
        /\ i[t] = MAX_UPDATE_EVENTS => i[t] - 1 = MAX_UPDATE_EVENTS - 1
    BY <2>1, TableAssumption
  <2>3. /\ TableNow = [s \in Slots |-> AsRegistration(notifiers[s])]
        /\ DefaultNow = notifiers[0].handle
    <3>1. \A s \in AllSlots : Written(s) = notifiers[s]
      BY <1>4, WrittenByNone
    <3>2. 0 \in AllSlots /\ Slots \subseteq AllSlots
      BY TableAssumption DEF AllSlots, Slots
    <3> QED
      BY <3>1, <3>2 DEF TableNow, DefaultNow
  <2>4. update.type \in {"UPDATE_UNKNOWN", "UPDATE_MESSAGE", "UPDATE_POLL"}
    BY <1>7 DEF ParsedUpdates
  <2> HIDE DEF update
  <2> QED
    BY <2>1, <2>2, <2>3, <2>4, FoundIsBest DEF Choice
<1>9. Table!Find(t, update)
  BY <1>5, <1>6, <1>8 DEF Table!Find
<1> HIDE DEF update
<1>10. CallNow[t].update = update
  BY <1>7 DEF update
<1> QED
  BY <1>7, <1>9, <1>10 DEF Table!Act

LEMMA TableBegins == Init => Table!Init
<1> SUFFICES ASSUME Init PROVE Table!Init
  OBVIOUS
<1>1. \A t \in Threads : pc[t] \notin Writing /\ op[t] = NoCall /\ ret[t] = "ok"
  BY DEF Init, Writing
<1>2. \A s \in AllSlots : Written(s) = notifiers[s]
  BY <1>1, WrittenByNone
<1>3. 0 \in AllSlots /\ Slots \subseteq AllSlots /\ 0 \notin Slots
  BY TableAssumption DEF AllSlots, Slots
<1>4. /\ notifiers[0].handle = "ignoreUpdate"
      /\ \A s \in Slots : notifiers[s].type = "UPDATE_NONE"
  BY <1>3 DEF Init
<1>5. DefaultNow = "ignoreUpdate"
  BY <1>2, <1>3, <1>4 DEF DefaultNow
<1>6. TableNow = [s \in Slots |-> EmptySlot]
  BY <1>2, <1>3, <1>4 DEF TableNow, AsRegistration
<1>7. /\ CallNow = [t \in Threads |-> NoCall]
      /\ DoneNow = [t \in Threads |-> "ok"]
  BY <1>1 DEF CallNow, DoneNow
<1>8. Table!NoCall = NoCall /\ Table!Free = EmptySlot /\ Table!Slots = Slots
  BY DEF Table!NoCall, Table!Change, Table!Free, Table!Slots, Slots,
         NoCall, Change, NoEvent, EmptySlot
<1> QED
  BY <1>5, <1>6, <1>7, <1>8 DEF Table!Init

\* One step of Notifiers is a step of NotifierTable or a stutter.
LEMMA TableStepImplements ==
  ASSUME OneMutator, ParsedUpdates, ChangeInv, ChangeInv', [Next]_vars
  PROVE  [Table!Next]_(Table!vars)
<1>1. ASSUME NEW t \in Mutators, Call(t) PROVE Table!Next
  <2>1. t \in Threads
    BY DEF Threads
  <2> QED
    BY <1>1, <2>1, CallImplements DEF Table!Next
<1>2. ASSUME NEW t \in Finders, CallFind(t) PROVE Table!Next
  <2>1. t \in Threads
    BY DEF Threads
  <2> QED
    BY <1>2, <2>1, CallFindImplements DEF Table!Next
<1>3. ASSUME NEW t \in Threads, Advance(t) PROVE [Table!Next]_(Table!vars)
  <2>1. CASE (Scan(t) /\ ScanFails(t)) \/ SemWait(t) \/ FindReturns(t)
    <3>1. Table!Act(t)
      BY <2>1, ScanFailsImplements, SemWaitImplements, FindReturnsImplements
    <3> QED
      BY <3>1 DEF Table!Next
  <2>2. CASE WriteHandle(t) \/ WriteType(t) \/ WriteInfo(t)
    BY <2>2, WriteStutters
  <2>3. CASE SemPost(t)
    BY <2>3, SemPostStutters
  <2>4. CASE \/ Scan(t) /\ (ScanGoesOn(t) \/ ScanFinds(t))
             \/ Compare(t) \/ FindWait(t) \/ Look(t) \/ LookCrashes(t) \/ LookEnds(t)
    BY <2>4, QuietStutters
  <2>5. Scan(t) => ScanFails(t) \/ ScanGoesOn(t) \/ ScanFinds(t)
    BY DEF Scan
  <2> QED
    BY <1>3, <2>1, <2>2, <2>3, <2>4, <2>5 DEF Advance
<1>4. CASE UNCHANGED vars
  <2>1. UNCHANGED <<notifiers, pc, op, i, ret>>
    BY <1>4 DEF vars
  <2>2. TableInv /\ TableInv'
    BY DEF ChangeInv, LookInv
  <2> QED
    BY <2>1, <2>2, NowSame, CallsSame DEF Table!vars
<1> QED
  BY <1>1, <1>2, <1>3, <1>4 DEF Next

\* With one thread that changes the table, however many look handlers up, each
\* call of events.c is one step of the abstract table.
THEOREM Implements ==
  ASSUME OneMutator, ParsedUpdates PROVE Spec => TablePromise
<1>1. Init => ChangeInv /\ Table!Init
  BY ChangeInit, TableBegins
<1>2. ChangeInv /\ [Next]_vars => ChangeInv'
  BY ChangeStep
<1>3. ChangeInv /\ ChangeInv' /\ [Next]_vars => [Table!Next]_(Table!vars)
  BY TableStepImplements
<1> QED
  BY <1>1, <1>2, <1>3, PTL DEF Spec, TablePromise, Table!Spec

-----------------------------------------------------------------------------
(* AcceptedIsKept *)

OnlyAdds == Kinds \subseteq {"add"}

\* A slot that a registration is on its way into.
Chosen(s) ==
  \E t \in Mutators : pc[t] \in {"wait"} \union (Writing \ {"post"}) /\ i[t] = s

\* Nobody is about to write where an accepted registration is: the scan took
\* an empty slot and, with nobody else to write, the slot is empty still.
KeptInv ==
  /\ \A t \in Mutators : pc[t] \in Changing => op[t].kind = "add"
  /\ \A registration \in accepted :
       /\ registration.type # "UPDATE_NONE"
       /\ \E s \in Slots : notifiers[s] = registration /\ ~Chosen(s)

\* A slot where a registration is keeps it, unless a thread chooses it.
LEMMA SlotKept ==
  ASSUME OneMutator, ChangeInv, [Next]_vars, NEW s \in Slots,
         notifiers[s].type # "UPDATE_NONE", ~Chosen(s),
         \A t \in Mutators : pc[t] \in Changing => op[t].kind = "add"
  PROVE  notifiers'[s] = notifiers[s] /\ ~Chosen(s)'
<1> USE DEF ChangeInv, LookInv, TableInv, TypeOK, Goto, Threads, Chosen, Writing
<1>0. s \in AllSlots /\ s # 0
  BY TableAssumption DEF Slots, AllSlots
<1>1. ASSUME NEW t \in Mutators, Call(t)
      PROVE  notifiers'[s] = notifiers[s] /\ ~Chosen(s)'
  BY <1>0, <1>1 DEF Call, CallRefused, CallStarts
<1>2. ASSUME NEW t \in Finders, CallFind(t)
      PROVE  notifiers'[s] = notifiers[s] /\ ~Chosen(s)'
  BY <1>2 DEF CallFind, Locals
<1>3. ASSUME NEW t \in Threads, Advance(t)
      PROVE  notifiers'[s] = notifiers[s] /\ ~Chosen(s)'
  <2>1. CASE Scan(t)
    BY <1>3, <2>1 DEF Scan, ScanFails, ScanGoesOn, ScanFinds, Wanted, Return,
       SearchOK, Changing, Searching
  <2>2. CASE Compare(t)
    BY <1>3, <2>2 DEF Compare, CallOK, SearchOK, Changing, Searching
  <2>3. CASE SemWait(t)
    BY <1>3, <2>3 DEF SemWait, Locals
  <2>4. CASE WriteHandle(t) \/ WriteType(t) \/ WriteInfo(t)
    <3>1. pc[t] \in (Writing \ {"post"}) /\ t \in Mutators /\ i[t] # s
      BY <1>3, <2>4 DEF WriteHandle, WriteType, WriteInfo, SearchOK, Changing
    <3>2. notifiers'[s] = notifiers[s] /\ i' = i
      BY <1>0, <1>3, <2>4, <3>1 DEF WriteHandle, WriteType, WriteInfo, Locals
    <3>3. \A u \in Threads : pc'[u] = pc[u] \/ u = t
      BY <1>3, <2>4 DEF WriteHandle, WriteType, WriteInfo
    <3> QED
      BY <3>1, <3>2, <3>3
  <2>5. CASE SemPost(t)
    BY <1>3, <2>5 DEF SemPost, Return
  <2>6. CASE FindWait(t)
    BY <1>3, <2>6 DEF FindWait
  <2>7. CASE Look(t)
    BY <1>3, <2>7 DEF Look
  <2>8. CASE LookCrashes(t)
    BY <1>3, <2>8 DEF LookCrashes, Locals
  <2>9. CASE LookEnds(t)
    BY <1>3, <2>9 DEF LookEnds, Locals
  <2>10. CASE FindReturns(t)
    BY <1>3, <2>10 DEF FindReturns, Return
  <2> QED
    BY <1>3, <2>1, <2>2, <2>3, <2>4, <2>5, <2>6, <2>7, <2>8, <2>9, <2>10 DEF Advance
<1>4. CASE UNCHANGED vars
  BY <1>4 DEF vars
<1> QED
  BY <1>1, <1>2, <1>3, <1>4 DEF Next

\* Every call adds.
LEMMA AddsStep ==
  ASSUME OnlyAdds, ChangeInv, [Next]_vars, NEW u \in Mutators,
         pc[u] \in Changing => op[u].kind = "add"
  PROVE  pc'[u] \in Changing => op'[u].kind = "add"
<1> USE DEF ChangeInv, LookInv, TableInv, TypeOK, Goto, Threads, Changing, Searching, Writing
<1>1. ASSUME NEW t \in Mutators, Call(t)
      PROVE  pc'[u] \in Changing => op'[u].kind = "add"
  BY <1>1 DEF Call, CallRefused, CallStarts, Change, OnlyAdds
<1>2. ASSUME NEW t \in Finders, CallFind(t)
      PROVE  pc'[u] \in Changing => op'[u].kind = "add"
  BY <1>2 DEF CallFind
<1>3. ASSUME NEW t \in Threads, Advance(t)
      PROVE  pc'[u] \in Changing => op'[u].kind = "add"
  BY <1>3 DEF Advance, Scan, ScanFails, ScanGoesOn, ScanFinds, Compare, SemWait,
     WriteHandle, WriteType, WriteInfo, SemPost, FindWait, Look, LookCrashes,
     LookEnds, FindReturns, Return
<1>4. CASE UNCHANGED vars
  BY <1>4 DEF vars
<1> QED
  BY <1>1, <1>2, <1>3, <1>4 DEF Next

\* What is accepted now is in the slot that was written.
LEMMA AcceptedWritten ==
  ASSUME OneMutator, OnlyAdds, ChangeInv, [Next]_vars, NEW registration \in AcceptedNow
  PROVE  /\ registration.type # "UPDATE_NONE"
         /\ \E s \in Slots : notifiers'[s] = registration /\ ~Chosen(s)'
<1> USE DEF ChangeInv, LookInv, TableInv, TypeOK
<1>1. PICK t \in Mutators :
        /\ pc[t] = "post" /\ pc'[t] = "idle" /\ op[t].kind = "add" /\ i[t] # 0
        /\ registration = Registration(op[t].event, op[t].new)
  BY DEF AcceptedNow
<1>2. t \in Threads
  BY DEF Threads
<1>3. /\ i[t] \in Slots /\ i[t] \in AllSlots /\ op[t] \in Changes
      /\ op[t].event.type # "UPDATE_NONE"
  BY <1>1, <1>2, TableAssumption DEF CallOK, Writing, AllSlots, Slots
<1>4. /\ notifiers[i[t]].handle = op[t].new
      /\ notifiers[i[t]].type = op[t].event.type
      /\ notifiers[i[t]].info = op[t].event.info
  BY <1>1, <1>2 DEF WrittenOK, NewHandle
<1>5. notifiers[i[t]] = registration
  BY <1>1, <1>3, <1>4 DEF Registration
<1>6. notifiers' = notifiers
  <2>1. \A u \in Mutators : pc[u] = "post"
    BY <1>1 DEF OneMutator
  <2>2. \A u \in Threads : pc[u] \in Writing => pc[u] = "post"
    BY <1>1, <1>2 DEF MutexHeld, Critical, Writing
  <2> QED
    BY <1>1, <2>2 DEF Next, vars, Call, CallFind, Advance, Scan, Compare, SemWait,
       WriteHandle, WriteType, WriteInfo, SemPost, FindWait, Look, LookCrashes,
       LookEnds, FindReturns, Goto, Writing
<1>7. PICK s \in Slots : s = i[t]
  BY <1>3
<1>8. ~Chosen(s)'
  BY <1>1 DEF OneMutator, Chosen, Writing
<1> QED
  BY <1>1, <1>3, <1>5, <1>6, <1>7, <1>8 DEF Registration

LEMMA KeptStep ==
  OneMutator /\ OnlyAdds /\ ChangeInv /\ KeptInv /\ [HNext]_<<vars, accepted>> => KeptInv'
<1> SUFFICES ASSUME OneMutator, OnlyAdds, ChangeInv, KeptInv, [HNext]_<<vars, accepted>>
             PROVE  KeptInv'
  OBVIOUS
<1>1. [Next]_vars /\ (accepted' = accepted \/ accepted' = accepted \union AcceptedNow)
  BY DEF HNext
<1>2. \A t \in Mutators : pc'[t] \in Changing => op'[t].kind = "add"
  BY <1>1, AddsStep DEF KeptInv
<1>3. ASSUME NEW registration \in accepted
      PROVE  /\ registration.type # "UPDATE_NONE"
             /\ \E s \in Slots : notifiers'[s] = registration /\ ~Chosen(s)'
  <2>1. PICK s \in Slots : notifiers[s] = registration /\ ~Chosen(s)
    BY DEF KeptInv
  <2> QED
    BY <1>1, <2>1, SlotKept DEF KeptInv
<1>4. \A registration \in AcceptedNow :
        /\ registration.type # "UPDATE_NONE"
        /\ \E s \in Slots : notifiers'[s] = registration /\ ~Chosen(s)'
  BY <1>1, AcceptedWritten
<1> QED
  BY <1>1, <1>2, <1>3, <1>4 DEF KeptInv, Changing, Searching, Writing

\* With one thread that registers, what addUpdateNotifier accepts stays in the
\* table: it takes a second thread to lose a registration.
THEOREM OneThreadKeeps ==
  ASSUME OneMutator, OnlyAdds PROVE HSpec => []AcceptedIsKept
<1>1. HInit => ChangeInv /\ KeptInv
  <2>1. Init => \A t \in Threads : pc[t] = "idle"
    BY DEF Init
  <2> QED
    BY <2>1, ChangeInit DEF HInit, KeptInv, Changing, Searching, Writing, Threads
<1>2. OneMutator /\ ChangeInv /\ [HNext]_<<vars, accepted>> => ChangeInv'
  BY ChangeStep DEF HNext, vars
<1>3. KeptInv => AcceptedIsKept
  BY DEF KeptInv, AcceptedIsKept
<1> QED
  BY <1>1, <1>2, <1>3, KeptStep, PTL DEF HSpec

=============================================================================
