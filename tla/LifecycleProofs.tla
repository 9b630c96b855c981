-------------------------- MODULE LifecycleProofs --------------------------
(***************************************************************************)
(* Proofs about Lifecycle.tla: of any number of bots and lives on one      *)
(* machine, none takes another's semaphore, unless two start at once, and   *)
(* one that is closed as it should be uses nothing that is gone.            *)
(***************************************************************************)
EXTENDS Lifecycle, TLAPS

\* main has its semaphore; tbc_poll was started.
SetUp   == {"easy", "polling", "idle", "use", "held"}
Serving == {"idle", "use", "held"}

Holds(b, t) == t \in {"main", "parser"} /\ pc[b][t] \in {"held", "look"}

HeapStep(b) == LeaveHeap(b) \/ \E t \in Threads : EnterHeap(b, t)

\* The threads of a bot start one another, and it has a semaphore from
\* CreateMutex on.
Threading ==
  /\ name <= created
  /\ \A b \in Bots :
       /\ pc[b].poll # "none" <=> pc[b].main \in Serving
       /\ pc[b].parser # "none" => pc[b].poll = "wait"
       /\ mutex[b] # 0 <=> pc[b].main \in SetUp
       /\ mutex[b] <= created

\* A semaphore that two bots share still lets one thread in.
Exclusion ==
  /\ \A b, c \in Bots : \A t, u \in Threads :
       Holds(b, t) /\ Holds(c, u) /\ mutex[b] = mutex[c] => b = c /\ t = u
  /\ \A b \in Bots, t \in Threads : Holds(b, t) => value[mutex[b]] = 0

TypeInv == TypeOK /\ Threading /\ Exclusion

\* Every step of a thread moves one field of one bot.
Places == [main : MainPcs, poll : PollPcs, parser : ParserPcs]

MovedMain(b, to) ==
  /\ pc' \in [Bots -> Places]
  /\ pc'[b].main = to
  /\ pc'[b].poll = pc[b].poll /\ pc'[b].parser = pc[b].parser
  /\ \A c \in Bots \ {b} : pc'[c] = pc[c]

MovedPoll(b, to) ==
  /\ pc' \in [Bots -> Places]
  /\ pc'[b].poll = to
  /\ pc'[b].main = pc[b].main /\ pc'[b].parser = pc[b].parser
  /\ \A c \in Bots \ {b} : pc'[c] = pc[c]

MovedParser(b, to) ==
  /\ pc' \in [Bots -> Places]
  /\ pc'[b].parser = to
  /\ pc'[b].main = pc[b].main /\ pc'[b].poll = pc[b].poll
  /\ \A c \in Bots \ {b} : pc'[c] = pc[c]

LEMMA Moves ==
  ASSUME TypeOK, NEW b \in Bots
  PROVE  /\ \A from, to \in MainPcs : MainGoes(b, from, to) => MovedMain(b, to)
         /\ \A from, to \in PollPcs : PollGoes(b, from, to) => MovedPoll(b, to)
         /\ \A from, to \in ParserPcs : ParserGoes(b, from, to) => MovedParser(b, to)
<1>1. pc \in [Bots -> Places] /\ pc[b] \in Places
  BY DEF TypeOK, Places
<1>2. ASSUME NEW from \in MainPcs, NEW to \in MainPcs, MainGoes(b, from, to)
      PROVE  MovedMain(b, to)
  <2> DEFINE new == [pc[b] EXCEPT !.main = to]
  <2>1. /\ new \in Places /\ new.main = to
        /\ new.poll = pc[b].poll /\ new.parser = pc[b].parser
    BY <1>1 DEF Places
  <2>2. pc' = [pc EXCEPT ![b] = new]
    BY <1>2 DEF MainGoes
  <2> HIDE DEF new
  <2> QED
    BY <1>1, <2>1, <2>2 DEF MovedMain
<1>3. ASSUME NEW from \in PollPcs, NEW to \in PollPcs, PollGoes(b, from, to)
      PROVE  MovedPoll(b, to)
  <2> DEFINE new == [pc[b] EXCEPT !.poll = to]
  <2>1. /\ new \in Places /\ new.poll = to
        /\ new.main = pc[b].main /\ new.parser = pc[b].parser
    BY <1>1 DEF Places
  <2>2. pc' = [pc EXCEPT ![b] = new]
    BY <1>3 DEF PollGoes
  <2> HIDE DEF new
  <2> QED
    BY <1>1, <2>1, <2>2 DEF MovedPoll
<1>4. ASSUME NEW from \in ParserPcs, NEW to \in ParserPcs, ParserGoes(b, from, to)
      PROVE  MovedParser(b, to)
  <2> DEFINE new == [pc[b] EXCEPT !.parser = to]
  <2>1. /\ new \in Places /\ new.parser = to
        /\ new.main = pc[b].main /\ new.poll = pc[b].poll
    BY <1>1 DEF Places
  <2>2. pc' = [pc EXCEPT ![b] = new]
    BY <1>4 DEF ParserGoes
  <2> HIDE DEF new
  <2> QED
    BY <1>1, <2>1, <2>2 DEF MovedParser
<1> QED
  BY <1>2, <1>3, <1>4

\* No thread of b takes or gives, and its semaphore stays.
LEMMA Elsewhere ==
  ASSUME TypeInv, TypeOK', UNCHANGED <<name, created, value, mutex>>,
         \A b \in Bots :
           /\ pc'[b].poll # "none" <=> pc'[b].main \in Serving
           /\ pc'[b].parser # "none" => pc'[b].poll = "wait"
           /\ pc'[b].main \in SetUp <=> pc[b].main \in SetUp
           /\ pc'[b].main = "held" <=> pc[b].main = "held"
           /\ pc'[b].parser = "look" <=> pc[b].parser = "look"
  PROVE  TypeInv'
<1>1. Threading'
  BY DEF TypeInv, Threading
<1>2. \A b \in Bots, t \in Threads : Holds(b, t)' => Holds(b, t)
  <2>1. \A b \in Bots : pc'[b].main # "look" /\ pc'[b].parser # "held"
    BY DEF TypeOK, MainPcs, ParserPcs
  <2> QED
    BY <2>1 DEF Holds
<1>3. Exclusion'
  BY <1>2 DEF TypeInv, Exclusion
<1> QED
  BY <1>1, <1>3 DEF TypeInv

LEMMA GoneKeeps ==
  ASSUME TypeInv, NEW b \in Bots, Gone(b)
  PROVE  TypeInv'
<1>1. TypeOK'
  <2>1. Nowhere \in [main : MainPcs, poll : PollPcs, parser : ParserPcs]
    BY DEF Nowhere, MainPcs, PollPcs, ParserPcs
  <2>2. NotClosing \in [Threads -> Closings]
    BY DEF NotClosing, Closings
  <2>3. 0 \in 0..MaxBoots
    BY LivesAssumption
  <2> QED
    BY <2>1, <2>2, <2>3 DEF Gone, TypeInv, TypeOK, machine
<1>2. /\ pc'[b] = Nowhere /\ \A c \in Bots \ {b} : pc'[c] = pc[c]
      /\ mutex'[b] = 0 /\ \A c \in Bots \ {b} : mutex'[c] = mutex[c]
      /\ UNCHANGED <<name, created, value>>
  BY DEF Gone, TypeInv, TypeOK, machine
<1>3. Threading'
  BY <1>2 DEF TypeInv, TypeOK, Threading, Nowhere, Serving, SetUp
<1>4. \A c \in Bots, t \in Threads : Holds(c, t)' => Holds(c, t) /\ c # b
  BY <1>2 DEF Holds, Nowhere
<1>5. Exclusion'
  BY <1>2, <1>4 DEF TypeInv, Exclusion
<1> QED
  BY <1>1, <1>3, <1>5 DEF TypeInv

\* Steps that leave the machine, the semaphore and everybody's place alone.
LEMMA TypeClosing ==
  ASSUME TypeInv, NEW b \in Bots, NEW t \in Threads,
         Interrupt(b, t) \/ CloseStep(b, t)
  PROVE  TypeInv'
<1>1. CASE KillItself(b, t)
  BY <1>1, GoneKeeps DEF KillItself
<1>2. CASE Unlink(b, t)
  <2>1. /\ UNCHANGED <<pc, heap, created, value, boots, mutex>> /\ name' = 0
        /\ closing' \in [Bots -> [Threads -> Closings]]
    BY <1>2 DEF Unlink, CloserGoes, process, TypeInv, TypeOK, Closings
  <2>2. TypeOK'
    BY <1>2, <2>1, LivesAssumption
       DEF Unlink, process, history, TypeInv, TypeOK
  <2>3. Threading'
    BY <2>1 DEF TypeInv, TypeOK, Threading
  <2>4. Exclusion'
    BY <2>1 DEF TypeInv, Exclusion, Holds
  <2> QED
    BY <2>2, <2>3, <2>4 DEF TypeInv
<1>3. CASE \/ Interrupt(b, t) \/ Stop(b, t) \/ SleepEnds(b, t)
           \/ EasyCleanup(b, t) \/ GlobalCleanup(b, t)
  <2> USE DEF Interrupt, Stop, SleepEnds, EasyCleanup, GlobalCleanup
  <2>1. UNCHANGED <<machine, pc, heap, mutex>>
    BY <1>3 DEF CloserGoes, process
  <2>2. \E to \in Closings : closing' = [closing EXCEPT ![b][t] = to]
    BY <1>3 DEF CloserGoes, Closings
  <2>3. closing' \in [Bots -> [Threads -> Closings]]
    BY <2>2 DEF TypeInv, TypeOK
  <2>4. /\ overlap' = overlap
        /\ orderly' \in [Bots -> BOOLEAN]
        /\ undefined' \in [Bots -> BOOLEAN]
    <3>1. CASE Interrupt(b, t) \/ SleepEnds(b, t)
      BY <3>1 DEF TypeInv, TypeOK, history
    <3>2. CASE EasyCleanup(b, t) \/ GlobalCleanup(b, t)
      BY <3>2 DEF TypeInv, TypeOK, Undefined
    <3>3. CASE Stop(b, t)
      BY <3>3 DEF TypeInv, TypeOK, history
    <3> QED
      BY <1>3, <3>1, <3>2, <3>3
  <2>5. /\ running' \in [Bots -> BOOLEAN] /\ known' \in [Bots -> BOOLEAN]
        /\ handle' \in [Bots -> {"unset", "live", "freed"}]
        /\ library' \in [Bots -> {"unset", "live", "freed"}]
    BY <1>3 DEF TypeInv, TypeOK, process
  <2>6. TypeOK'
    BY <2>1, <2>3, <2>4, <2>5 DEF TypeInv, TypeOK, machine
  <2> QED
    BY <2>1, <2>6, Elsewhere DEF TypeInv, Threading, machine
<1> QED
  BY <1>1, <1>2, <1>3 DEF CloseStep

LEMMA TypeQuiet ==
  ASSUME TypeInv, NEW b \in Bots,
         \/ Boot(b) \/ ArmSignal(b) \/ GlobalInit(b) \/ StartRunning(b)
         \/ TestName(b) \/ EasyInit(b) \/ UseHandle(b) \/ HandleUsed(b)
         \/ PollStep(b) \/ HandlerReturns(b)
  PROVE  TypeInv'
<1> USE DEF TypeInv, MainPcs, PollPcs, ParserPcs
<1>1. CASE \/ Boot(b) \/ ArmSignal(b) \/ GlobalInit(b) \/ StartRunning(b)
           \/ TestName(b) \/ EasyInit(b) \/ UseHandle(b) \/ HandleUsed(b)
  <2> USE DEF Boot, ArmSignal, GlobalInit, StartRunning, TestName, EasyInit,
              UseHandle, HandleUsed
  <2>1. \E from, to \in MainPcs :
          /\ MainGoes(b, from, to)
          /\ <<from, to>> \in {<<"down", "arm">>, <<"arm", "global">>,
               <<"global", "run">>, <<"run", "test">>, <<"test", "unlink">>,
               <<"test", "create">>, <<"easy", "polling">>,
               <<"idle", "use">>, <<"use", "idle">>}
    BY <1>1
  <2>2. PICK from \in MainPcs, to \in MainPcs :
          /\ MainGoes(b, from, to)
          /\ from \in Serving <=> to \in Serving
          /\ from \in SetUp <=> to \in SetUp
          /\ from # "held" /\ to # "held"
    BY <2>1 DEF Serving, SetUp
  <2>3. MovedMain(b, to) /\ pc[b].main = from /\ UNCHANGED <<closing, heap>>
    BY <2>2, Moves DEF MainGoes
  <2>4. UNCHANGED <<name, created, value, mutex>> /\ boots' \in 0..MaxBoots
    BY <1>1, LivesAssumption DEF machine, process, TypeOK
  <2>5. /\ overlap' \in BOOLEAN
        /\ orderly' \in [Bots -> BOOLEAN]
        /\ undefined' \in [Bots -> BOOLEAN]
    BY <1>1 DEF TypeOK, history, Undefined
  <2>6. /\ running' \in [Bots -> BOOLEAN] /\ known' \in [Bots -> BOOLEAN]
        /\ handle' \in [Bots -> {"unset", "live", "freed"}]
        /\ library' \in [Bots -> {"unset", "live", "freed"}]
    BY <1>1 DEF TypeOK, process
  <2>7. TypeOK'
    BY <2>3, <2>4, <2>5, <2>6 DEF TypeOK, MovedMain, Places
  <2> QED
    BY <2>2, <2>3, <2>4, <2>7, Elsewhere DEF Threading, MovedMain
<1>2. ASSUME UNCHANGED <<machine, process, overlap, orderly, closing, heap>>,
             undefined' \in [Bots -> BOOLEAN]
      PROVE  /\ UNCHANGED <<name, created, value, mutex>>
             /\ pc' \in [Bots -> Places] => TypeOK'
  BY <1>2 DEF machine, process, TypeOK, Places
<1>4. CASE SpawnParser(b)
  <2>1. /\ pc'[b].main = pc[b].main /\ pc'[b].poll = "wait" /\ pc'[b].parser = "find"
        /\ \A c \in Bots \ {b} : pc'[c] = pc[c]
        /\ pc' \in [Bots -> Places]
    <3> DEFINE new == [pc[b] EXCEPT !.poll = "wait", !.parser = "find"]
    <3>1. pc[b] \in Places /\ pc \in [Bots -> Places]
      BY DEF TypeOK, Places
    <3>2. /\ new.poll = "wait" /\ new.parser = "find"
          /\ new.main = pc[b].main /\ new \in Places
      BY <3>1 DEF Places
    <3>3. pc' = [pc EXCEPT ![b] = new]
      BY <1>4, <3>1 DEF SpawnParser, Places
    <3> HIDE DEF new
    <3> QED
      BY <3>1, <3>2, <3>3
  <2>2. undefined' \in [Bots -> BOOLEAN]
          /\ UNCHANGED <<machine, process, overlap, orderly, closing, heap>>
    BY <1>4 DEF SpawnParser, Undefined, TypeOK
  <2>3. pc[b].poll = "transfer" /\ pc[b].parser = "none"
    BY <1>4 DEF SpawnParser
  <2> QED
    BY <1>2, <2>1, <2>2, <2>3, Elsewhere DEF Threading
<1>5. CASE Duplicate(b) \/ PollTest(b) \/ TransferFails(b) \/ PollResumes(b)
           \/ PollExits(b)
  <2> USE DEF Duplicate, PollTest, TransferFails, PollResumes, PollExits
  <2>1. PICK from \in PollPcs, to \in PollPcs :
          PollGoes(b, from, to) /\ from # "none" /\ to # "none"
            /\ (from = "wait" => pc[b].parser = "none")
    BY <1>5
  <2>2. MovedPoll(b, to) /\ pc[b].poll = from /\ UNCHANGED <<closing, heap>>
    BY <2>1, Moves DEF PollGoes
  <2>3. undefined' \in [Bots -> BOOLEAN]
          /\ UNCHANGED <<machine, process, overlap, orderly>>
    BY <1>5 DEF Undefined, history, TypeOK
  <2>4. pc[b].parser # "none" => from = "wait"
    BY <2>2 DEF Threading
  <2> QED
    BY <1>2, <2>1, <2>2, <2>3, <2>4, Elsewhere DEF Threading, MovedPoll
<1>6. CASE HandlerReturns(b)
  <2>1. PICK to \in {"find", "none"} : ParserGoes(b, "handler", to)
    BY <1>6 DEF HandlerReturns
  <2>2. MovedParser(b, to) /\ pc[b].parser = "handler" /\ UNCHANGED <<closing, heap>>
    BY <2>1, Moves DEF ParserGoes
  <2>3. undefined' \in [Bots -> BOOLEAN]
          /\ UNCHANGED <<machine, process, overlap, orderly>>
    BY <1>6 DEF HandlerReturns, Undefined, TypeOK
  <2> QED
    BY <1>2, <2>1, <2>2, <2>3, Elsewhere DEF Threading, MovedParser
<1> QED
  BY <1>1, <1>4, <1>5, <1>6 DEF PollStep

LEMMA HolderHasMutex ==
  ASSUME TypeInv, NEW b \in Bots, NEW t \in Threads, Holds(b, t)
  PROVE  mutex[b] \in Sems /\ mutex[b] # created + 1
<1>1. pc[b].main = "held" \/ pc[b].parser = "look"
  BY DEF Holds, TypeInv, TypeOK, MainPcs, ParserPcs
<1>2. pc[b].parser = "look" => pc[b].main \in Serving
  BY DEF TypeInv, Threading
<1>3. pc[b].main \in SetUp
  BY <1>1, <1>2 DEF SetUp, Serving
<1> QED
  BY <1>3 DEF TypeInv, TypeOK, Threading, Sems

LEMMA TypeNaming ==
  ASSUME TypeInv, NEW b \in Bots, UnlinkOld(b) \/ CreateMutex(b) \/ StartPolling(b)
  PROVE  TypeInv'
<1> USE DEF TypeInv, MainPcs, PollPcs, ParserPcs
<1>1. CASE UnlinkOld(b)
  <2>1. MovedMain(b, "create") /\ pc[b].main = "unlink" /\ UNCHANGED <<closing, heap>>
    BY <1>1, Moves DEF UnlinkOld, MainGoes
  <2>2. UNCHANGED <<created, value, boots, process, history>> /\ name' = 0
    BY <1>1 DEF UnlinkOld
  <2>3. TypeOK'
    BY <2>1, <2>2, LivesAssumption DEF TypeOK, process, history, MovedMain, Places
  <2>4. Threading'
    <3>1. mutex' = mutex /\ name' <= created'
      BY <2>2 DEF process, TypeOK
    <3>2. \A c \in Bots : /\ pc'[c].main \in Serving <=> pc[c].main \in Serving
                          /\ pc'[c].main \in SetUp <=> pc[c].main \in SetUp
                          /\ pc'[c].poll = pc[c].poll /\ pc'[c].parser = pc[c].parser
      BY <2>1 DEF MovedMain, Serving, SetUp
    <3> QED
      BY <2>2, <3>1, <3>2 DEF Threading
  <2>5. \A c \in Bots, t \in Threads : Holds(c, t)' <=> Holds(c, t)
    BY <2>1 DEF Holds, MovedMain
  <2>6. Exclusion'
    BY <2>2, <2>5 DEF Exclusion, process
  <2> QED
    BY <2>3, <2>4, <2>6
<1>2. CASE CreateMutex(b)
  <2>1. MovedMain(b, "easy") /\ pc[b].main = "create" /\ UNCHANGED <<closing, heap>>
    BY <1>2, Moves DEF CreateMutex, MainGoes
  <2>2. UNCHANGED <<boots, running, known, handle, library, history>>
    BY <1>2 DEF CreateMutex
  <2>3. \A c \in Bots, t \in Threads : Holds(c, t)' => Holds(c, t) /\ c # b
    <3>1. pc[b].poll = "none" /\ pc[b].parser = "none"
      BY <2>1 DEF Threading, Serving
    <3> QED
      BY <2>1, <3>1 DEF Holds, MovedMain
  <2>4. PICK s \in Sems : /\ mutex' = [mutex EXCEPT ![b] = s]
                          /\ name' = s /\ created' >= created /\ s <= created'
                          /\ created' \in 0..MaxBoots
                          /\ \/ value' = value
                             \/ s = created + 1 /\ value' = [value EXCEPT ![s] = 1]
    <3>1. CASE name # 0
      <4>1. name \in Sems
        BY <3>1 DEF TypeOK, Sems
      <4> QED
        BY <1>2, <3>1, <4>1 DEF CreateMutex, Threading, TypeOK
    <3>2. CASE name = 0
      <4>1. created + 1 \in Sems /\ created' = created + 1
        BY <1>2, <3>2, LivesAssumption DEF CreateMutex, TypeOK, Sems
      <4> QED
        BY <1>2, <3>2, <4>1, LivesAssumption DEF CreateMutex, TypeOK, Sems
    <3> QED
      BY <3>1, <3>2
  <2>5. TypeOK'
    BY <2>1, <2>2, <2>4, LivesAssumption DEF TypeOK, history, MovedMain, Places, Sems
  <2>6. /\ mutex'[b] = s /\ s # 0 /\ \A c \in Bots \ {b} : mutex'[c] = mutex[c]
    BY <2>4, LivesAssumption DEF TypeOK, Sems
  <2>7. Threading'
    <3>1. \A c \in Bots : mutex'[c] <= created'
      BY <2>4, <2>6 DEF Threading, TypeOK, Sems
    <3> QED
      BY <2>1, <2>4, <2>6, <3>1 DEF Threading, MovedMain, TypeOK, Serving, SetUp
  <2>8. \A c \in Bots, t \in Threads :
          Holds(c, t)' => value'[mutex[c]] = value[mutex[c]]
    <3>1. \A c \in Bots, t \in Threads :
            Holds(c, t)' => mutex[c] \in Sems /\ mutex[c] # created + 1
      BY <2>3, HolderHasMutex
    <3>2. value \in [Sems -> {0, 1}]
      BY DEF TypeOK
    <3> QED
      BY <2>4, <3>1, <3>2
  <2>9. Exclusion'
    BY <2>3, <2>6, <2>8, HolderHasMutex DEF Exclusion
  <2> QED
    BY <2>5, <2>7, <2>9
<1>3. CASE StartPolling(b)
  <2>1. CASE Gone(b)
    BY <2>1, GoneKeeps
  <2>2. CASE /\ pc' = [pc EXCEPT ![b].main = "idle", ![b].poll = "dup"]
             /\ UNCHANGED <<machine, closing, heap, process, history>>
    <3>1. /\ pc'[b].main = "idle" /\ pc'[b].poll = "dup"
          /\ pc'[b].parser = pc[b].parser
          /\ \A c \in Bots \ {b} : pc'[c] = pc[c]
          /\ pc' \in [Bots -> Places]
      <4> DEFINE new == [pc[b] EXCEPT !.main = "idle", !.poll = "dup"]
      <4>1. pc[b] \in Places /\ pc \in [Bots -> Places]
        BY DEF TypeOK, Places
      <4>2. /\ new.main = "idle" /\ new.poll = "dup"
            /\ new.parser = pc[b].parser /\ new \in Places
        BY <4>1 DEF Places
      <4>3. pc' = [pc EXCEPT ![b] = new]
        BY <2>2, <4>1 DEF Places
      <4> HIDE DEF new
      <4> QED
        BY <4>1, <4>2, <4>3
    <3>2. pc[b].main = "polling" /\ pc[b].parser = "none"
      BY <1>3 DEF StartPolling, Threading, Serving
    <3>3. TypeOK'
      BY <2>2, <3>1 DEF TypeOK, Places, machine, process, history
    <3> QED
      BY <2>2, <3>1, <3>2, <3>3, Elsewhere
         DEF Threading, machine, process, Serving, SetUp
  <2> QED
    BY <1>3, <2>1, <2>2 DEF StartPolling
<1> QED
  BY <1>1, <1>2, <1>3

\* A semaphore is free when it is taken, and taken when it is given back.
LEMMA TypeMutex ==
  ASSUME TypeInv, NEW b \in Bots,
         AddTakes(b) \/ AddReturns(b) \/ FindTakes(b) \/ FindReturns(b)
  PROVE  TypeInv'
<1> USE DEF TypeInv, MainPcs, PollPcs, ParserPcs
<1> DEFINE s == mutex[b]
<1>1. s \in Sems
  <2>1. pc[b].main \in SetUp
    <3>1. CASE AddTakes(b) \/ AddReturns(b)
      BY <3>1 DEF AddTakes, AddReturns, MainGoes, SetUp
    <3>2. CASE FindTakes(b) \/ FindReturns(b)
      BY <3>2 DEF FindTakes, FindReturns, ParserGoes, Threading, Serving, SetUp
    <3> QED
      BY <3>1, <3>2
  <2> QED
    BY <2>1 DEF Threading, TypeOK, Sems
<1>2. /\ UNCHANGED <<name, created, boots, process, history, closing, heap>>
      /\ pc' \in [Bots -> Places]
      /\ \A c \in Bots \ {b} : pc'[c] = pc[c]
      /\ pc'[b].poll = pc[b].poll
      /\ pc'[b].main \in Serving <=> pc[b].main \in Serving
      /\ pc'[b].main \in SetUp <=> pc[b].main \in SetUp
      /\ pc'[b].parser = "none" <=> pc[b].parser = "none"
  <2>1. CASE AddTakes(b) \/ AddReturns(b)
    <3>1. PICK from \in {"idle", "held"}, to \in {"idle", "held"} : MainGoes(b, from, to)
      BY <2>1 DEF AddTakes, AddReturns
    <3>2. MovedMain(b, to) /\ pc[b].main = from /\ UNCHANGED <<closing, heap>>
      BY <3>1, Moves DEF MainGoes
    <3> QED
      BY <2>1, <3>2
         DEF AddTakes, AddReturns, TakeMutex, GiveMutex, MovedMain, Serving, SetUp
  <2>2. CASE FindTakes(b) \/ FindReturns(b)
    <3>1. PICK from \in {"find", "look"}, to \in {"look", "handler"} :
            ParserGoes(b, from, to)
      BY <2>2 DEF FindTakes, FindReturns
    <3>2. MovedParser(b, to) /\ pc[b].parser = from /\ UNCHANGED <<closing, heap>>
      BY <3>1, Moves DEF ParserGoes
    <3> QED
      BY <2>2, <3>2 DEF FindTakes, FindReturns, TakeMutex, GiveMutex, MovedParser
  <2> QED
    BY <2>1, <2>2
<1>3. Threading'
  BY <1>2 DEF Threading, process
<1>4. CASE AddTakes(b) \/ FindTakes(b)
  <2>1. value[s] = 1 /\ value' = [value EXCEPT ![s] = 0]
    BY <1>1, <1>4 DEF AddTakes, FindTakes, TakeMutex, TypeOK
  <2>2. \A c \in Bots, t \in Threads : Holds(c, t) => mutex[c] # s
    BY <2>1 DEF Exclusion
  <2>3. PICK me \in {"main", "parser"} :
          \A c \in Bots, t \in Threads : Holds(c, t)' => Holds(c, t) \/ (c = b /\ t = me)
    <3>1. CASE AddTakes(b)
      <4>1. MovedMain(b, "held")
        BY <3>1, Moves DEF AddTakes
      <4> QED
        BY <4>1 DEF Holds, MovedMain
    <3>2. CASE FindTakes(b)
      <4>1. MovedParser(b, "look")
        BY <3>2, Moves DEF FindTakes
      <4> QED
        BY <4>1 DEF Holds, MovedParser
    <3> QED
      BY <1>4, <3>1, <3>2
  <2>4. value' \in [Sems -> {0, 1}] /\ value'[s] = 0
          /\ \A r \in Sems \ {s} : value'[r] = value[r]
    BY <1>1, <2>1 DEF TypeOK
  <2>5. Exclusion'
    BY <1>2, <2>2, <2>3, <2>4, HolderHasMutex DEF Exclusion, process
  <2> QED
    BY <1>2, <1>3, <2>4, <2>5 DEF TypeOK, Places, process, history
<1>5. CASE AddReturns(b) \/ FindReturns(b)
  <2>1. PICK me \in {"main", "parser"} :
          /\ Holds(b, me)
          /\ \A c \in Bots, t \in Threads :
               Holds(c, t)' => Holds(c, t) /\ ~(c = b /\ t = me)
    <3>1. CASE AddReturns(b)
      <4>1. MovedMain(b, "idle") /\ pc[b].main = "held"
        BY <3>1, Moves DEF AddReturns, MainGoes
      <4> QED
        BY <4>1 DEF Holds, MovedMain
    <3>2. CASE FindReturns(b)
      <4>1. MovedParser(b, "handler") /\ pc[b].parser = "look"
        BY <3>2, Moves DEF FindReturns, ParserGoes
      <4> QED
        BY <4>1 DEF Holds, MovedParser
    <3> QED
      BY <1>5, <3>1, <3>2
  <2>2. value[s] = 0 /\ value' = [value EXCEPT ![s] = value[s] + 1]
    BY <1>5, <2>1 DEF AddReturns, FindReturns, GiveMutex, Exclusion, Threads
  <2>3. value' \in [Sems -> {0, 1}] /\ \A r \in Sems \ {s} : value'[r] = value[r]
    BY <1>1, <2>2 DEF TypeOK
  <2>4. \A c \in Bots, t \in Threads : Holds(c, t)' => mutex[c] # s
    BY <2>1 DEF Exclusion, Threads
  <2>5. Exclusion'
    BY <1>2, <2>1, <2>3, <2>4, HolderHasMutex DEF Exclusion, process
  <2> QED
    BY <1>2, <1>3, <2>3, <2>5 DEF TypeOK, Places, process, history
<1> QED
  BY <1>4, <1>5

\* Into malloc and out of it.
LEMMA TypeHeap ==
  ASSUME TypeInv, NEW b \in Bots, HeapStep(b)
  PROVE  TypeInv'
<1>1. /\ UNCHANGED <<machine, pc, closing, process, history>>
      /\ heap' \in [Bots -> Threads \cup {"free"}]
  BY DEF HeapStep, EnterHeap, LeaveHeap, TypeInv, TypeOK
<1>2. TypeOK'
  BY <1>1 DEF TypeInv, TypeOK, machine, process, history
<1> QED
  BY <1>1, <1>2, Elsewhere DEF TypeInv, Threading, machine, process

LEMMA TypeStep ==
  ASSUME TypeInv, [Next]_vars
  PROVE  TypeInv'
<1>1. CASE UNCHANGED vars
  BY <1>1 DEF vars, machine, process, history, TypeInv, TypeOK, Threading,
              Exclusion, Holds
<1>2. ASSUME NEW b \in Bots, Die(b) PROVE TypeInv'
  BY <1>2, GoneKeeps DEF Die
<1>3. ASSUME NEW b \in Bots, MainStep(b) PROVE TypeInv'
  BY <1>3, TypeQuiet, TypeNaming, TypeMutex DEF MainStep
<1>4. ASSUME NEW b \in Bots, Boot(b) \/ PollStep(b) \/ ParserStep(b) PROVE TypeInv'
  BY <1>4, TypeQuiet, TypeMutex DEF ParserStep
<1>5. ASSUME NEW b \in Bots, NEW t \in Threads, Interrupt(b, t) \/ CloseStep(b, t)
      PROVE  TypeInv'
  BY <1>5, TypeClosing
<1>6. ASSUME NEW b \in Bots, HeapStep(b) PROVE TypeInv'
  BY <1>6, TypeHeap
<1> QED
  BY <1>1, <1>2, <1>3, <1>4, <1>5, <1>6 DEF Next, HeapStep

LEMMA TypeInit == Init => TypeInv
<1> SUFFICES ASSUME Init PROVE TypeInv
  OBVIOUS
<1>1. Nowhere \in Places /\ NotClosing \in [Threads -> Closings] /\ 0 \in 0..MaxBoots
  BY LivesAssumption
     DEF Nowhere, NotClosing, Places, MainPcs, PollPcs, ParserPcs, Closings
<1>2. TypeOK
  BY <1>1 DEF Init, TypeOK, Places
<1>3. \A b \in Bots : pc[b] = Nowhere /\ mutex[b] = 0
  BY DEF Init
<1>4. Threading
  BY <1>3 DEF Init, Threading, Nowhere, Serving, SetUp
<1>5. \A b \in Bots, t \in Threads : ~Holds(b, t)
  BY <1>3 DEF Holds, Nowhere
<1>6. Exclusion
  BY <1>5 DEF Exclusion
<1> QED
  BY <1>2, <1>4, <1>6 DEF TypeInv

\* Among other things a semaphore's value is never more than one.
THEOREM TypeCorrect == Spec => []TypeOK
<1>1. TypeInv => TypeOK
  BY DEF TypeInv
<1> QED
  BY <1>1, TypeInit, TypeStep, PTL DEF Spec

-----------------------------------------------------------------------------
(* Semaphores of one's own *)

\* Until two bots start at once, nobody is where the name may change under
\* them; and what is taken was taken by its owner.
Windows ==
  ~overlap =>
    /\ \A b, c \in Bots : InWindow(b) /\ InWindow(c) => b = c
    /\ \A b \in Bots : pc[b].main = "create" => name = 0
    /\ \A b, c \in Bots : mutex[b] # 0 /\ mutex[b] = mutex[c] => b = c
    /\ \A b \in Bots : mutex[b] # 0 /\ value[mutex[b]] = 0 =>
         \E t \in Threads : Holds(b, t)

\* A step that brings nobody into the window, names nothing, and takes and
\* gives nothing.
LEMMA WindowsElsewhere ==
  ASSUME TypeInv, TypeInv', Windows, UNCHANGED <<value, overlap>>,
         name' \in {name, 0},
         \A b \in Bots :
           /\ mutex'[b] \in {mutex[b], 0}
           /\ InWindow(b)' => InWindow(b)
           /\ pc'[b].main = "create" => pc[b].main = "create" \/ name' = 0
           /\ mutex'[b] # 0 => \A t \in Threads : Holds(b, t) => Holds(b, t)'
  PROVE  Windows'
<1> SUFFICES ASSUME ~overlap PROVE Windows'
  BY DEF Windows
<1> QED
  BY DEF Windows

LEMMA WindowsStep ==
  ASSUME TypeInv, TypeInv', Windows, [Next]_vars
  PROVE  Windows'
<1> USE DEF InWindow, MainPcs, PollPcs, ParserPcs
<1>0. TypeOK
  BY DEF TypeInv
<1>1. CASE UNCHANGED vars
  BY <1>1, WindowsElsewhere DEF vars, machine, process, history, Holds
<1>2. ASSUME NEW b \in Bots, Gone(b) PROVE Windows'
  <2>1. /\ UNCHANGED <<value, overlap, name>>
        /\ pc'[b].main = "down" /\ mutex'[b] = 0
        /\ \A c \in Bots \ {b} : pc'[c] = pc[c] /\ mutex'[c] = mutex[c]
    BY <1>2 DEF Gone, machine, Nowhere, TypeInv, TypeOK
  <2>2. \A c \in Bots : mutex'[c] # 0 => c # b
    BY <2>1
  <2> QED
    BY <2>1, <2>2, WindowsElsewhere DEF Holds
<1>3. ASSUME NEW b \in Bots,
             \/ Boot(b) \/ ArmSignal(b) \/ GlobalInit(b) \/ StartRunning(b)
             \/ UnlinkOld(b) \/ EasyInit(b) \/ UseHandle(b) \/ HandleUsed(b)
      PROVE  Windows'
  <2> USE DEF Boot, ArmSignal, GlobalInit, StartRunning, UnlinkOld, EasyInit,
              UseHandle, HandleUsed
  <2>1. PICK from \in MainPcs, to \in MainPcs :
          /\ MainGoes(b, from, to)
          /\ to \in {"unlink", "create"} => from = "unlink" /\ to = "create"
          /\ from # "held" /\ to # "held"
          /\ IF from = "unlink" THEN name' = 0 ELSE name' = name
    BY <1>3 DEF machine
  <2>2. MovedMain(b, to) /\ pc[b].main = from
    BY <1>0, <2>1, Moves DEF MainGoes
  <2>3. UNCHANGED <<value, overlap, mutex>>
    BY <1>3 DEF machine, process, history, Undefined
  <2>4. \A c \in Bots, t \in Threads : Holds(c, t) => Holds(c, t)'
    BY <2>1, <2>2 DEF Holds, MovedMain, TypeInv, TypeOK
  <2> QED
    BY <2>1, <2>2, <2>3, <2>4, WindowsElsewhere DEF MovedMain
<1>4. ASSUME NEW b \in Bots, TestName(b) PROVE Windows'
  <2>1. PICK to \in {"unlink", "create"} :
          MainGoes(b, "test", to) /\ (to = "create" => name = 0)
    BY <1>4 DEF TestName
  <2>2. MovedMain(b, to) /\ pc[b].main = "test"
    BY <1>0, <2>1, Moves DEF MainGoes
  <2>3. /\ UNCHANGED <<name, value, mutex>>
        /\ ~overlap' => ~overlap /\ \A c \in Bots : ~InWindow(c)
    BY <1>4 DEF TestName, machine, process
  <2>4. \A c \in Bots, t \in Threads : Holds(c, t) => Holds(c, t)'
    BY <2>2 DEF Holds, MovedMain
  <2> SUFFICES ASSUME ~overlap' PROVE Windows'
    BY DEF Windows
  <2>5. \A c \in Bots : InWindow(c)' => c = b
    BY <2>2, <2>3 DEF MovedMain
  <2>6. \A c \in Bots : pc'[c].main = "create" => name' = 0
    BY <2>1, <2>2, <2>3, <2>5 DEF MovedMain
  <2> QED
    BY <2>3, <2>4, <2>5, <2>6 DEF Windows
<1>5. ASSUME NEW b \in Bots, CreateMutex(b) PROVE Windows'
  <2>1. MovedMain(b, "easy") /\ pc[b].main = "create"
    BY <1>0, <1>5, Moves DEF CreateMutex, MainGoes
  <2> SUFFICES ASSUME ~overlap PROVE Windows'
    BY <1>5 DEF CreateMutex, history, Windows
  <2>2. name = 0
    BY <2>1 DEF Windows
  <2>3. /\ created + 1 \in Sems
        /\ value' = [value EXCEPT ![created + 1] = 1]
        /\ mutex' = [mutex EXCEPT ![b] = created + 1]
    BY <1>5, <2>2, LivesAssumption DEF CreateMutex, TypeInv, TypeOK, Sems
  <2>4. \A c \in Bots : mutex[c] # created + 1
    BY DEF TypeInv, TypeOK, Threading
  <2>5. /\ mutex'[b] = created + 1 /\ value'[created + 1] = 1
        /\ \A c \in Bots \ {b} : mutex'[c] = mutex[c]
        /\ \A s \in Sems \ {created + 1} : value'[s] = value[s]
    BY <1>0, <2>3 DEF TypeOK
  <2>6. \A c \in Bots : ~InWindow(c)'
    BY <2>1 DEF MovedMain, Windows
  <2>7. \A c \in Bots : mutex[c] # 0 => mutex[c] \in Sems
    BY DEF TypeInv, TypeOK, Sems
  <2>8. \A c \in Bots \ {b}, t \in Threads : Holds(c, t) => Holds(c, t)'
    BY <2>1 DEF Holds, MovedMain
  <2>9. \A c, d \in Bots : mutex'[c] # 0 /\ mutex'[c] = mutex'[d] => c = d
    BY <2>4, <2>5 DEF Windows
  <2>10. \A c \in Bots : mutex'[c] # 0 /\ value'[mutex'[c]] = 0 =>
           \E t \in Threads : Holds(c, t)'
    BY <2>4, <2>5, <2>7, <2>8 DEF Windows
  <2> QED
    BY <2>6, <2>9, <2>10 DEF Windows
<1>6. ASSUME NEW b \in Bots, StartPolling(b), ~Gone(b) PROVE Windows'
  <2>1. /\ pc'[b].main = "idle" /\ pc[b].main = "polling"
        /\ pc'[b].parser = pc[b].parser
        /\ \A c \in Bots \ {b} : pc'[c] = pc[c]
        /\ UNCHANGED <<name, value, overlap, mutex>>
    BY <1>0, <1>6 DEF StartPolling, TypeOK, machine, process, history
  <2>2. \A c \in Bots, t \in Threads : Holds(c, t) => Holds(c, t)'
    BY <2>1 DEF Holds
  <2> QED
    BY <2>1, <2>2, WindowsElsewhere
<1>7. ASSUME NEW b \in Bots, PollStep(b) \/ HandlerReturns(b) PROVE Windows'
  <2>1. /\ UNCHANGED <<name, value, overlap, mutex>>
    BY <1>7 DEF PollStep, HandlerReturns, Duplicate, PollTest, TransferFails,
         SpawnParser, PollResumes, PollExits, Undefined, machine, process, history
  <2>2. /\ pc'[b].main = pc[b].main
        /\ pc[b].parser = "look" => pc'[b].parser = "look"
        /\ pc[b].parser # "held"
        /\ \A c \in Bots \ {b} : pc'[c] = pc[c]
    <3>1. CASE SpawnParser(b)
      BY <1>0, <3>1 DEF SpawnParser, TypeOK
    <3>2. CASE HandlerReturns(b)
      <4>1. PICK to \in {"find", "none"} : ParserGoes(b, "handler", to)
        BY <3>2 DEF HandlerReturns
      <4>2. MovedParser(b, to) /\ pc[b].parser = "handler"
        BY <1>0, <4>1, Moves DEF ParserGoes
      <4> QED
        BY <4>2 DEF MovedParser
    <3>3. CASE Duplicate(b) \/ PollTest(b) \/ TransferFails(b) \/ PollResumes(b)
               \/ PollExits(b)
      <4>1. PICK from \in PollPcs, to \in PollPcs : PollGoes(b, from, to)
        BY <3>3 DEF Duplicate, PollTest, TransferFails, PollResumes, PollExits
      <4>2. MovedPoll(b, to)
        BY <1>0, <4>1, Moves
      <4>3. pc[b] \in [main : MainPcs, poll : PollPcs, parser : ParserPcs]
        BY <1>0 DEF TypeOK
      <4>4. pc[b].parser # "held"
        BY <4>3
      <4> QED
        BY <4>2, <4>4 DEF MovedPoll
    <3> QED
      BY <1>7, <3>1, <3>2, <3>3 DEF PollStep
  <2>3. \A c \in Bots, t \in Threads : Holds(c, t) => Holds(c, t)'
    BY <2>2 DEF Holds
  <2>4. \A c \in Bots : pc'[c].main = pc[c].main
    BY <2>2
  <2> QED
    BY <2>1, <2>3, <2>4, WindowsElsewhere
<1>8. ASSUME NEW b \in Bots,
             AddTakes(b) \/ AddReturns(b) \/ FindTakes(b) \/ FindReturns(b)
      PROVE  Windows'
  <2>1. /\ UNCHANGED <<name, mutex, overlap>>
        /\ \A c \in Bots : /\ InWindow(c)' <=> InWindow(c)
                           /\ pc'[c].main = "create" <=> pc[c].main = "create"
        /\ \A c \in Bots \ {b} : pc'[c] = pc[c]
        /\ \/ value' = [value EXCEPT ![mutex[b]] = @ - 1]
                /\ \E t \in Threads : Holds(b, t)'
           \/ value' = [value EXCEPT ![mutex[b]] = @ + 1]
    <3>1. CASE AddTakes(b) \/ AddReturns(b)
      <4>1. PICK from \in {"idle", "held"}, to \in {"idle", "held"} :
              MainGoes(b, from, to) /\ (AddTakes(b) => to = "held")
        BY <3>1 DEF AddTakes, AddReturns
      <4>2. MovedMain(b, to) /\ pc[b].main = from
        BY <1>0, <4>1, Moves DEF MainGoes
      <4> QED
        BY <3>1, <4>1, <4>2
           DEF AddTakes, AddReturns, TakeMutex, GiveMutex, MovedMain, Holds,
               Threads, process, history
    <3>2. CASE FindTakes(b) \/ FindReturns(b)
      <4>1. PICK from \in {"find", "look"}, to \in {"look", "handler"} :
              ParserGoes(b, from, to) /\ (FindTakes(b) => to = "look")
        BY <3>2 DEF FindTakes, FindReturns
      <4>2. MovedParser(b, to)
        BY <1>0, <4>1, Moves
      <4> QED
        BY <3>2, <4>1, <4>2
           DEF FindTakes, FindReturns, TakeMutex, GiveMutex, MovedParser, Holds,
               Threads, process, history
    <3> QED
      BY <1>8, <3>1, <3>2
  <2> SUFFICES ASSUME ~overlap PROVE Windows'
    BY <2>1 DEF Windows
  <2>2. mutex[b] \in Sems /\ value \in [Sems -> {0, 1}] /\ value' \in [Sems -> {0, 1}]
    <3>1. pc[b].main \in SetUp
      BY <1>8 DEF AddTakes, AddReturns, FindTakes, FindReturns, MainGoes, ParserGoes,
                  TypeInv, Threading, SetUp, Serving
    <3> QED
      BY <3>1 DEF TypeInv, TypeOK, Threading, Sems
  <2>3. value'[mutex[b]] = 0 => \E t \in Threads : Holds(b, t)'
    BY <2>1, <2>2
  <2>4. \A s \in Sems \ {mutex[b]} : value'[s] = value[s]
    BY <2>1, <2>2
  <2>5. \A c \in Bots : mutex[c] # 0 => mutex[c] \in Sems
    BY DEF TypeInv, TypeOK, Sems
  <2>6. \A c \in Bots \ {b}, t \in Threads : Holds(c, t) => Holds(c, t)'
    BY <2>1 DEF Holds
  <2>7. \A c \in Bots : mutex[c] # 0 /\ value'[mutex[c]] = 0 =>
          \E t \in Threads : Holds(c, t)'
    BY <2>3, <2>4, <2>5, <2>6 DEF Windows
  <2> QED
    BY <2>1, <2>7 DEF Windows
<1>9. ASSUME NEW b \in Bots, NEW t \in Threads, Interrupt(b, t) \/ CloseStep(b, t),
             ~KillItself(b, t)
      PROVE  Windows'
  <2>1. /\ UNCHANGED <<pc, value, overlap, mutex>> /\ name' \in {name, 0}
    BY <1>9 DEF Interrupt, CloseStep, Stop, SleepEnds, Unlink, EasyCleanup,
         GlobalCleanup, CloserGoes, Undefined, machine, process, history
  <2> QED
    BY <2>1, WindowsElsewhere DEF Holds
<1>10. ASSUME NEW b \in Bots, MainStep(b) PROVE Windows'
  BY <1>2, <1>3, <1>4, <1>5, <1>6, <1>8, <1>10 DEF MainStep
<1>11. ASSUME NEW b \in Bots, Boot(b) \/ Die(b) \/ PollStep(b) \/ ParserStep(b)
       PROVE  Windows'
  BY <1>2, <1>3, <1>7, <1>8, <1>11 DEF Die, ParserStep
<1>12. ASSUME NEW b \in Bots, NEW t \in Threads, Interrupt(b, t) \/ CloseStep(b, t)
       PROVE  Windows'
  BY <1>2, <1>9, <1>12 DEF KillItself
<1>13. ASSUME NEW b \in Bots, HeapStep(b) PROVE Windows'
  <2>1. UNCHANGED <<pc, name, value, overlap, mutex>>
    BY <1>13 DEF HeapStep, EnterHeap, LeaveHeap, machine, process, history
  <2> QED
    BY <2>1, WindowsElsewhere DEF Holds
<1> QED
  BY <1>1, <1>10, <1>11, <1>12, <1>13 DEF Next, HeapStep

LEMMA WindowsInit == Init => Windows
BY DEF Init, Windows, InWindow, Nowhere

\* Bots that do not start at once have a semaphore each.
THEOREM Isolated == Spec => []Isolation
<1>1. Windows => Isolation
  BY DEF Windows, Isolation
<1>2. TypeInv /\ Windows /\ [Next]_vars => TypeInv' /\ Windows'
  BY TypeStep, WindowsStep
<1> QED
  BY <1>1, <1>2, TypeInit, WindowsInit, PTL DEF Spec

\* And it is taken only while a thread of theirs has it.
THEOREM OwnMutexOnly == Spec => []OwnMutex
<1>1. ASSUME TypeInv, Windows, ~overlap, NEW b \in Bots, mutex[b] # 0
      PROVE  /\ value[mutex[b]] = 0 <=> Holders(b) # {}
             /\ \A t, u \in Holders(b) : t = u
  <2>1. \A t : t \in Holders(b) <=> Holds(b, t) /\ t \in Threads
    BY DEF Holders, Holds, Threads
  <2>2. ASSUME NEW t \in Holders(b), NEW u \in Holders(b) PROVE t = u
    <3>1. Holds(b, t) /\ Holds(b, u) /\ t \in Threads /\ u \in Threads
      BY <2>1
    <3> QED
      BY <1>1, <3>1 DEF TypeInv, Exclusion
  <2>3. ASSUME Holders(b) # {} PROVE value[mutex[b]] = 0
    <3>1. PICK t \in Holders(b) : TRUE
      BY <2>3
    <3>2. Holds(b, t) /\ t \in Threads
      BY <2>1
    <3> QED
      BY <1>1, <3>2 DEF TypeInv, Exclusion
  <2>4. value[mutex[b]] = 0 => Holders(b) # {}
    BY <1>1, <2>1 DEF Windows
  <2> QED
    BY <2>2, <2>3, <2>4
<1>2. TypeInv /\ Windows => OwnMutex
  BY <1>1 DEF OwnMutex
<1>3. TypeInv /\ Windows /\ [Next]_vars => TypeInv' /\ Windows'
  BY TypeStep, WindowsStep
<1> QED
  BY <1>2, <1>3, TypeInit, WindowsInit, PTL DEF Spec

-----------------------------------------------------------------------------
(* An orderly end *)

\* Of a bot that closes as it should, main is the one that closes, in no call
\* of the library, and from the end of its sleep on the poll has come to its
\* end; so far nothing is gone that is to be used yet.
Orderly(b) ==
  /\ ~undefined[b]
  /\ closing[b]["poll"] = "no" /\ closing[b]["parser"] = "no"
  /\ closing[b]["main"] # "no" => pc[b].main \in Quiet
  /\ closing[b]["main"] \in {"unlink", "easy", "global", "kill"} =>
       pc[b].poll = "ended"
  /\ pc[b].main \in SetUp => known[b]
  /\ pc[b].main \in SetUp \union {"run", "test", "unlink", "create"}
       /\ closing[b]["main"] # "kill" => library[b] = "live"
  /\ pc[b].main \in Serving \union {"polling"}
       /\ closing[b]["main"] \notin {"global", "kill"} => handle[b] = "live"
  /\ pc[b].main \in {"test", "unlink", "create"} => known[b]

Ends == \A b \in Bots : orderly[b] => Orderly(b)

\* Nothing changes for the bots that do not step.
Others(b) ==
  \A c \in Bots \ {b} :
    /\ pc'[c] = pc[c] /\ closing'[c] = closing[c]
    /\ known'[c] = known[c] /\ handle'[c] = handle[c] /\ library'[c] = library[c]
    /\ orderly'[c] = orderly[c] /\ undefined'[c] = undefined[c]

LEMMA OthersEnd ==
  ASSUME Ends, NEW b \in Bots, Others(b), orderly'[b] => Orderly(b)'
  PROVE  Ends'
BY DEF Ends, Others, Orderly

LEMMA EndsStep ==
  ASSUME TypeInv, TypeInv', Ends, [Next]_vars
  PROVE  Ends'
<1> USE DEF MainPcs, PollPcs, ParserPcs
<1>0. TypeOK
  BY DEF TypeInv
<1>1. CASE UNCHANGED vars
  BY <1>1 DEF vars, machine, process, history, Ends, Orderly
<1>2. ASSUME NEW b \in Bots, Gone(b) PROVE Ends'
  <2>1. Others(b)
    BY <1>0, <1>2 DEF Gone, Others, TypeOK
  <2>2. /\ pc'[b].main = "down" /\ closing'[b] = NotClosing /\ undefined'[b] = FALSE
    BY <1>0, <1>2 DEF Gone, TypeOK, Nowhere
  <2>3. Orderly(b)'
    BY <2>2 DEF Orderly, NotClosing, Threads, SetUp, Serving
  <2> QED
    BY <2>1, <2>3, OthersEnd
<1>3. ASSUME NEW b \in Bots, MainStep(b) \/ Boot(b), ~Gone(b)
      PROVE  Ends'
  <2> USE DEF Boot, MainStep, ArmSignal, GlobalInit, StartRunning, TestName,
              UnlinkOld, CreateMutex, EasyInit, UseHandle, HandleUsed, AddTakes, AddReturns, TakeMutex,
              GiveMutex
  <2>1. CASE StartPolling(b)
    <3>1. /\ pc'[b].main = "idle" /\ pc[b].main = "polling"
          /\ \A c \in Bots \ {b} : pc'[c] = pc[c]
          /\ UNCHANGED <<closing, process, history>> /\ closing[b]["main"] = "no"
      BY <1>0, <1>3, <2>1 DEF StartPolling, Goes, TypeOK
    <3>2. Others(b)
      BY <3>1 DEF Others, process, history
    <3>3. orderly'[b] => Orderly(b)'
      BY <3>1 DEF Ends, Orderly, process, history, SetUp, Serving
    <3> QED
      BY <3>2, <3>3, OthersEnd
  <2>2. CASE ~StartPolling(b)
    <3>1. PICK from \in MainPcs, to \in MainPcs :
            /\ MainGoes(b, from, to)
            /\ \/ <<from, to>> \in {<<"down", "arm">>, <<"arm", "global">>,
                    <<"test", "unlink">>, <<"test", "create">>, <<"unlink", "create">>,
                    <<"create", "easy">>, <<"use", "idle">>, <<"idle", "held">>,
                    <<"held", "idle">>}
                  /\ UNCHANGED <<known, handle, library, undefined>>
               \/ <<from, to>> = <<"global", "run">>
                  /\ library' = [library EXCEPT ![b] = "live"]
                  /\ UNCHANGED <<known, handle, undefined>>
               \/ <<from, to>> = <<"run", "test">>
                  /\ known' = [known EXCEPT ![b] = TRUE]
                  /\ UNCHANGED <<handle, library, undefined>>
               \/ <<from, to>> = <<"easy", "polling">>
                  /\ handle' = [handle EXCEPT ![b] = "live"]
                  /\ UNCHANGED <<known, library, undefined>>
               \/ <<from, to>> = <<"idle", "use">>
                  /\ undefined' = [undefined EXCEPT ![b] =
                                     @ \/ handle[b] # "live" \/ library[b] # "live"]
                  /\ UNCHANGED <<known, handle, library>>
      BY <1>3, <2>2 DEF process, history, Undefined
    <3>2. /\ MovedMain(b, to) /\ pc[b].main = from /\ UNCHANGED closing
          /\ closing[b]["main"] = "no"
      BY <1>0, <3>1, Moves DEF MainGoes, Goes
    <3>3. orderly' = orderly
      BY <1>3, <2>2 DEF history, Undefined
    <3>4. Others(b)
      BY <1>0, <3>1, <3>2, <3>3 DEF Others, MovedMain, TypeOK
    <3>5. orderly'[b] => Orderly(b)'
      BY <1>0, <3>1, <3>2, <3>3
         DEF MovedMain, Ends, Orderly, SetUp, Serving, TypeOK
    <3> QED
      BY <3>4, <3>5, OthersEnd
  <2> QED
    BY <2>1, <2>2
<1>4. ASSUME NEW b \in Bots, PollStep(b) \/ ParserStep(b) PROVE Ends'
  <2>1. /\ pc'[b].main = pc[b].main /\ pc[b].poll # "ended"
        /\ \A c \in Bots \ {b} : pc'[c] = pc[c]
        /\ closing' = closing
    <3>1. CASE SpawnParser(b)
      BY <1>0, <3>1 DEF SpawnParser, TypeOK
    <3>2. CASE ParserStep(b)
      <4>1. PICK from \in {"find", "look", "handler"}, to \in ParserPcs :
              ParserGoes(b, from, to)
        BY <3>2 DEF ParserStep, FindTakes, FindReturns, HandlerReturns
      <4>2. MovedParser(b, to) /\ pc[b].parser # "none"
        BY <1>0, <4>1, Moves DEF ParserGoes
      <4>3. pc[b].poll # "ended"
        BY <4>2 DEF TypeInv, Threading
      <4> QED
        BY <4>1, <4>2, <4>3 DEF MovedParser, ParserGoes
    <3>3. CASE Duplicate(b) \/ PollTest(b) \/ TransferFails(b) \/ PollResumes(b)
               \/ PollExits(b)
      <4>1. PICK from \in PollPcs \ {"ended"}, to \in PollPcs : PollGoes(b, from, to)
        BY <3>3 DEF Duplicate, PollTest, TransferFails, PollResumes, PollExits
      <4>2. MovedPoll(b, to) /\ pc[b].poll # "ended" /\ closing' = closing
        BY <1>0, <4>1, Moves DEF PollGoes
      <4> QED
        BY <4>2 DEF MovedPoll
    <3> QED
      BY <1>4, <3>1, <3>2, <3>3 DEF PollStep
  <2>2. pc[b].main \in Serving
    <3>1. pc[b].poll # "none"
      BY <1>4 DEF PollStep, ParserStep, Duplicate, PollTest, TransferFails,
                  SpawnParser, PollResumes, PollExits, PollGoes, FindTakes,
                  FindReturns, HandlerReturns, ParserGoes, TypeInv, Threading
    <3> QED
      BY <3>1 DEF TypeInv, Threading
  <2>3. /\ UNCHANGED <<known, handle, library, orderly>>
        /\ \/ undefined' = undefined
           \/ undefined' = [undefined EXCEPT ![b] = @ \/ library[b] # "live"]
           \/ undefined' = [undefined EXCEPT ![b] =
                              @ \/ handle[b] # "live" \/ library[b] # "live"]
    BY <1>4 DEF PollStep, ParserStep, Duplicate, PollTest, TransferFails,
                SpawnParser, PollResumes, PollExits, FindTakes, FindReturns,
                HandlerReturns, TakeMutex, GiveMutex, process, history, Undefined
  <2>4. Others(b)
    BY <1>0, <2>1, <2>3 DEF Others, TypeOK
  <2>5. ASSUME orderly[b] PROVE Orderly(b)'
    <3>1. /\ Orderly(b)
          /\ closing[b]["main"] \notin {"unlink", "easy", "global", "kill"}
      BY <2>1, <2>5 DEF Ends, Orderly
    <3>2. library[b] = "live" /\ handle[b] = "live"
      BY <2>2, <3>1 DEF Orderly, Serving, SetUp
    <3>3. ~undefined'[b]
      BY <1>0, <2>3, <3>1, <3>2 DEF Orderly, TypeOK
    <3> QED
      BY <2>1, <2>3, <3>1, <3>3 DEF Orderly
  <2> QED
    BY <2>3, <2>4, <2>5, OthersEnd
<1>5. ASSUME NEW b \in Bots, NEW t \in Threads, Interrupt(b, t) PROVE Ends'
  <2>1. /\ UNCHANGED <<pc, known, handle, library, undefined>>
        /\ closing' = [closing EXCEPT ![b][t] = "stop"]
        /\ orderly' = [orderly EXCEPT ![b] =
             @ /\ t = "main" /\ pc[b].main \in Quiet /\ Closers(b) = {}]
    BY <1>5 DEF Interrupt, process
  <2>2. Others(b)
    BY <1>0, <2>1 DEF Others, TypeOK
  <2>3. ASSUME orderly'[b] PROVE Orderly(b)'
    <3>1. orderly[b] /\ t = "main" /\ pc[b].main \in Quiet
      BY <1>0, <2>1, <2>3 DEF TypeOK
    <3>2. /\ closing'[b]["main"] = "stop"
          /\ closing'[b]["poll"] = closing[b]["poll"]
          /\ closing'[b]["parser"] = closing[b]["parser"]
      BY <1>0, <2>1, <3>1 DEF TypeOK, Threads
    <3>3. closing[b]["main"] = "no"
      BY <1>5, <3>1 DEF Interrupt
    <3> QED
      BY <2>1, <3>1, <3>2, <3>3 DEF Ends, Orderly
  <2> QED
    BY <2>2, <2>3, OthersEnd
<1>6. ASSUME NEW b \in Bots, NEW t \in Threads, CloseStep(b, t), ~Gone(b)
      PROVE  Ends'
  <2>1. PICK from \in Closings, to \in Closings :
          /\ CloserGoes(b, t, from, to) /\ from # "no"
          /\ \/ /\ <<from, to>> \in {<<"stop", "sleep">>, <<"unlink", "easy">>}
                /\ UNCHANGED <<known, handle, library, orderly, undefined>>
             \/ /\ <<from, to>> = <<"sleep", "unlink">>
                /\ orderly' = [orderly EXCEPT ![b] = @ /\ ~PollAtWork(b)]
                /\ UNCHANGED <<known, handle, library, undefined>>
             \/ /\ <<from, to>> = <<"easy", "global">>
                /\ undefined' = [undefined EXCEPT ![b] = @ \/
                     \/ ~known[b] \/ handle[b] # "live" \/ library[b] # "live"
                     \/ pc[b].main = "use" \/ pc[b].poll = "dup"]
                /\ handle' = [handle EXCEPT ![b] = "freed"]
                /\ UNCHANGED <<known, library, orderly>>
             \/ /\ <<from, to>> = <<"global", "kill">>
                /\ undefined' = [undefined EXCEPT ![b] = @ \/
                     \/ pc[b].main = "use"
                     \/ pc[b].poll \in {"dup", "transfer", "exiting"}
                     \/ pc[b].parser = "handler"]
                /\ library' = [library EXCEPT ![b] = "freed"]
                /\ UNCHANGED <<known, handle, orderly>>
    BY <1>6 DEF CloseStep, Stop, SleepEnds, Unlink, EasyCleanup, GlobalCleanup,
                KillItself, Closings, process, history, Undefined
  <2>2. /\ UNCHANGED pc /\ closing[b][t] = from
        /\ closing' = [closing EXCEPT ![b][t] = to]
    BY <2>1 DEF CloserGoes
  <2>3. Others(b)
    BY <1>0, <2>1, <2>2 DEF Others, TypeOK
  <2>4. ASSUME orderly'[b] PROVE Orderly(b)'
    <3>1. orderly[b] /\ Orderly(b)
      BY <1>0, <2>1, <2>4 DEF TypeOK, Ends
    <3>2. t = "main"
      BY <2>1, <2>2, <3>1 DEF Orderly, Threads
    <3>3. /\ closing'[b]["main"] = to
          /\ closing'[b]["poll"] = "no" /\ closing'[b]["parser"] = "no"
      BY <1>0, <2>2, <3>1, <3>2 DEF TypeOK, Threads, Orderly
    <3>4. pc[b].main \in Quiet /\ pc[b].main \in Serving /\ pc[b].main \in SetUp
            /\ pc[b].poll # "none"
      BY <2>1, <2>2, <3>1, <3>2 DEF Orderly, Quiet, Serving, SetUp, TypeInv, Threading
    <3>5. to \in {"unlink", "easy", "global", "kill"} => pc[b].poll = "ended"
      BY <1>0, <2>1, <2>2, <2>4, <3>1, <3>2, <3>4 DEF Orderly, PollAtWork, TypeOK
    <3>6. pc[b].poll = "ended" => pc[b].parser = "none"
      BY DEF TypeInv, Threading
    <3>7. ~undefined'[b] /\ known'[b]
      BY <1>0, <2>1, <2>2, <3>1, <3>2, <3>4, <3>5, <3>6 DEF Orderly, TypeOK, Quiet
    <3>8. to # "kill" => library'[b] = "live"
      BY <2>1, <2>2, <3>1, <3>2, <3>4 DEF Orderly
    <3>9. to \notin {"global", "kill"} => handle'[b] = "live"
      BY <2>1, <2>2, <3>1, <3>2, <3>4 DEF Orderly
    <3> QED
      BY <2>2, <3>3, <3>4, <3>5, <3>7, <3>8, <3>9 DEF Orderly
  <2> QED
    BY <2>3, <2>4, OthersEnd
<1>7. ASSUME NEW b \in Bots, HeapStep(b) PROVE Ends'
  BY <1>7 DEF HeapStep, EnterHeap, LeaveHeap, process, history, Ends, Orderly
<1> QED
  BY <1>1, <1>2, <1>3, <1>4, <1>5, <1>6, <1>7 DEF Next, Die, HeapStep

\* A bot that is closed as it should be closes cleanly.
THEOREM ClosesCleanly == Spec => []CleanShutdown
<1>1. Init => Ends
  BY DEF Init, Ends, Orderly, Nowhere, NotClosing, Threads, SetUp, Serving
<1>2. TypeInv /\ Ends /\ [Next]_vars => TypeInv' /\ Ends'
  BY TypeStep, EndsStep
<1>3. Ends => CleanShutdown
  BY DEF Ends, Orderly, CleanShutdown
<1> QED
  BY <1>1, <1>2, <1>3, TypeInit, PTL DEF Spec

-----------------------------------------------------------------------------
(* Refinement of Loan *)

\* Where a step takes tbc_poll and the parser of a bot.
LEMMA PlaceStep ==
  ASSUME TypeInv, [Next]_vars, NEW b \in Bots
  PROVE  \/ pc'[b].poll = pc[b].poll /\ pc'[b].parser = pc[b].parser
         \/ pc'[b].poll = "none" /\ pc'[b].parser = "none"
         \/ /\ pc'[b].parser = pc[b].parser
            /\ \/ pc[b].poll = "none" /\ pc'[b].poll = "dup"
               \/ pc[b].poll \in {"dup", "test", "transfer"}
                    /\ pc'[b].poll \in {"test", "transfer", "exiting"}
               \/ pc[b].poll = "exiting" /\ pc'[b].poll = "ended"
               \/ pc[b].poll = "wait" /\ pc[b].parser = "none" /\ pc'[b].poll = "test"
         \/ /\ pc[b].poll = "transfer" /\ pc'[b].poll = "wait"
            /\ pc[b].parser = "none" /\ pc'[b].parser = "find"
         \/ /\ pc'[b].poll = pc[b].poll
            /\ \/ pc[b].parser = "find" /\ pc'[b].parser = "look"
               \/ pc[b].parser = "look" /\ pc'[b].parser = "handler"
               \/ pc[b].parser = "handler" /\ pc'[b].parser \in {"find", "none"}
<1> USE DEF MainPcs, PollPcs, ParserPcs
<1>a. TypeOK /\ Threading
  BY DEF TypeInv
<1>b. pc \in [Bots -> Places] /\ pc[b] \in Places
  BY <1>a DEF TypeOK, Places
<1> DEFINE Stays == pc'[b].poll = pc[b].poll /\ pc'[b].parser = pc[b].parser
<1>1. CASE UNCHANGED vars
  BY <1>1 DEF vars
<1>2. PICK c \in Bots :
        \/ UNCHANGED vars
        \/ Boot(c) \/ Die(c)
        \/ MainStep(c) \/ PollStep(c) \/ ParserStep(c) \/ HeapStep(c)
        \/ \E t \in Threads : Interrupt(c, t) \/ CloseStep(c, t)
  BY DEF Next, HeapStep
<1>3. CASE \/ Boot(c) \/ ArmSignal(c) \/ GlobalInit(c) \/ StartRunning(c)
           \/ TestName(c) \/ UnlinkOld(c) \/ CreateMutex(c)
           \/ EasyInit(c) \/ UseHandle(c) \/ HandleUsed(c)
           \/ AddTakes(c) \/ AddReturns(c)
  <2>1. \E from, to \in MainPcs : MainGoes(c, from, to)
    BY <1>3 DEF Boot, ArmSignal, GlobalInit, StartRunning, TestName, UnlinkOld,
       CreateMutex, EasyInit, UseHandle, HandleUsed, AddTakes, AddReturns
  <2>2. \E to \in MainPcs : MovedMain(c, to)
    BY <1>a, <2>1, Moves
  <2>3. Stays
    BY <2>2 DEF MovedMain
  <2> QED
    BY <2>3
<1>4. CASE Gone(c)
  BY <1>b, <1>4 DEF Gone, Nowhere
<1>5. CASE StartPolling(c) /\ ~Gone(c)
  <2>1. pc' = [pc EXCEPT ![c].main = "idle", ![c].poll = "dup"]
        /\ pc[c].main = "polling"
    BY <1>5 DEF StartPolling
  <2>2. pc[c].poll = "none"
    BY <1>a, <2>1 DEF Threading, Serving
  <2> QED
    BY <1>b, <2>1, <2>2 DEF Places
<1>6. CASE PollStep(c) /\ ~SpawnParser(c)
  <2>1. \E from, to \in PollPcs :
          /\ PollGoes(c, from, to)
          /\ \/ /\ from \in {"dup", "test", "transfer"}
                /\ to \in {"test", "transfer", "exiting"}
             \/ from = "exiting" /\ to = "ended"
             \/ from = "wait" /\ pc[c].parser = "none" /\ to = "test"
    BY <1>6 DEF PollStep, Duplicate, PollTest, TransferFails, PollResumes, PollExits
  <2>2. PICK from, to \in PollPcs :
          /\ PollGoes(c, from, to)
          /\ \/ /\ from \in {"dup", "test", "transfer"}
                /\ to \in {"test", "transfer", "exiting"}
             \/ from = "exiting" /\ to = "ended"
             \/ from = "wait" /\ pc[c].parser = "none" /\ to = "test"
    BY <2>1
  <2>3. MovedPoll(c, to) /\ pc[c].poll = from
    BY <1>a, <2>2, Moves DEF PollGoes
  <2> QED
    BY <2>2, <2>3 DEF MovedPoll
<1>7. CASE SpawnParser(c)
  <2>1. /\ pc' = [pc EXCEPT ![c].poll = "wait", ![c].parser = "find"]
        /\ pc[c].poll = "transfer" /\ pc[c].parser = "none"
    BY <1>7 DEF SpawnParser
  <2> QED
    BY <1>b, <2>1 DEF Places
<1>8. CASE ParserStep(c)
  <2>1. \E from, to \in ParserPcs :
          /\ ParserGoes(c, from, to)
          /\ \/ from = "find" /\ to = "look"
             \/ from = "look" /\ to = "handler"
             \/ from = "handler" /\ to \in {"find", "none"}
    BY <1>8 DEF ParserStep, FindTakes, FindReturns, HandlerReturns
  <2>2. PICK from, to \in ParserPcs :
          /\ ParserGoes(c, from, to)
          /\ \/ from = "find" /\ to = "look"
             \/ from = "look" /\ to = "handler"
             \/ from = "handler" /\ to \in {"find", "none"}
    BY <2>1
  <2>3. MovedParser(c, to) /\ pc[c].parser = from
    BY <1>a, <2>2, Moves DEF ParserGoes
  <2> QED
    BY <2>2, <2>3 DEF MovedParser
<1>9. ASSUME NEW t \in Threads, (Interrupt(c, t) \/ CloseStep(c, t)) /\ ~Gone(c)
      PROVE  Stays
  BY <1>9 DEF Interrupt, CloseStep, CloserGoes, Stop, SleepEnds, Unlink,
     EasyCleanup, GlobalCleanup, KillItself
<1>10. CASE HeapStep(c)
  BY <1>10 DEF HeapStep, EnterHeap, LeaveHeap
<1> QED
  BY <1>1, <1>2, <1>3, <1>4, <1>5, <1>6, <1>7, <1>8, <1>9, <1>10
     DEF MainStep, PollStep, Die

\* One step of any bot is, for each bot, a step of its Loan or a stutter.
LEMMA LoanStep ==
  ASSUME TypeInv, TypeInv', [Next]_vars, NEW b \in Bots
  PROVE  Lending(b)!Next \/ UNCHANGED Lending(b)!vars
<1> USE DEF Lending!Next, Lending!vars, Lending!Start, Lending!Use, Lending!Done,
            Lending!Pass, Lending!End
<1>1. /\ pc[b].parser # "none" => pc[b].poll = "wait"
      /\ pc'[b].parser # "none" => pc'[b].poll = "wait"
  BY DEF TypeInv, Threading
<1>2. CASE pc'[b].poll = pc[b].poll /\ pc'[b].parser = pc[b].parser
  BY <1>2 DEF Holder, Using
<1>3. CASE pc'[b].poll = "none" /\ pc'[b].parser = "none"
  BY <1>3 DEF Holder, Using
<1>4. CASE /\ pc'[b].parser = pc[b].parser
           /\ \/ pc[b].poll = "none" /\ pc'[b].poll = "dup"
              \/ pc[b].poll \in {"dup", "test", "transfer"}
                   /\ pc'[b].poll \in {"test", "transfer", "exiting"}
              \/ pc[b].poll = "exiting" /\ pc'[b].poll = "ended"
              \/ pc[b].poll = "wait" /\ pc[b].parser = "none" /\ pc'[b].poll = "test"
  BY <1>1, <1>4 DEF Holder, Using
<1>5. CASE /\ pc[b].poll = "transfer" /\ pc'[b].poll = "wait"
           /\ pc[b].parser = "none" /\ pc'[b].parser = "find"
  BY <1>5 DEF Holder, Using
<1>6. CASE /\ pc'[b].poll = pc[b].poll
           /\ \/ pc[b].parser = "find" /\ pc'[b].parser = "look"
              \/ pc[b].parser = "look" /\ pc'[b].parser = "handler"
              \/ pc[b].parser = "handler" /\ pc'[b].parser \in {"find", "none"}
  BY <1>1, <1>6 DEF Holder, Using
<1> QED
  BY <1>2, <1>3, <1>4, <1>5, <1>6, PlaceStep

\* Every bot keeps to its loan, however many there are, and however they are
\* interrupted, closed and killed.
THEOREM BotsKeepLoan == Spec => LoanPromise
<1>1. Init => \A b \in Bots : Lending(b)!Init
  BY DEF Init, Nowhere, Lending!Init, Holder, Using
<1>2. TypeInv /\ TypeInv' /\ [Next]_vars =>
        [\A b \in Bots : Lending(b)!Next \/ UNCHANGED Lending(b)!vars]_vars
  BY LoanStep
<1> QED
  BY <1>1, <1>2, TypeInit, TypeStep, PTL DEF Spec, LoanPromise

-----------------------------------------------------------------------------
(* A bot that waits for itself *)

\* Who else touches the heap of a bot that waits for itself: nobody.  A
\* telebot_close goes on, but not to its end, for which it needs the heap.
LEMMA HeapStays ==
  ASSUME TypeInv, [Next]_vars, NEW b \in Bots, SelfDeadlock(b)
  PROVE  \/ ~Up(b)'
         \/ /\ heap'[b] = heap[b]
            /\ \/ closing'[b] = closing[b]
               \/ \E t \in Threads, to \in Closings \ {"no", "kill"} :
                    closing'[b] = [closing[b] EXCEPT ![t] = to]
<1> USE DEF SelfDeadlock
<1>a. TypeOK /\ heap[b] # "free" /\ closing[b][heap[b]] # "no"
  BY DEF TypeInv, Threads
<1>1. CASE UNCHANGED vars
  BY <1>1 DEF vars
<1>2. ASSUME NEW c \in Bots, Gone(c)
      PROVE  IF c = b THEN ~Up(b)' ELSE UNCHANGED <<heap[b], closing[b]>>
  BY <1>a, <1>2 DEF Gone, Up, Nowhere, TypeOK
<1>3. ASSUME NEW c \in Bots, Boot(c) \/ MainStep(c) \/ PollStep(c) \/ ParserStep(c),
             ~Gone(c)
      PROVE  UNCHANGED <<heap, closing>>
  BY <1>3
     DEF Boot, MainStep, ArmSignal, GlobalInit, StartRunning, TestName, UnlinkOld,
         CreateMutex, EasyInit, StartPolling, UseHandle, HandleUsed, AddTakes,
         AddReturns, PollStep, Duplicate, PollTest, TransferFails, SpawnParser,
         PollResumes, PollExits, ParserStep, FindTakes, FindReturns, HandlerReturns,
         MainGoes, PollGoes, ParserGoes
<1>4. ASSUME NEW c \in Bots, HeapStep(c)
      PROVE  heap'[b] = heap[b] /\ closing' = closing
  BY <1>a, <1>4 DEF HeapStep, EnterHeap, LeaveHeap, TypeOK
<1>5. ASSUME NEW c \in Bots, NEW t \in Threads, Interrupt(c, t) \/ CloseStep(c, t),
             ~Gone(c)
      PROVE  /\ heap' = heap
             /\ \/ closing'[b] = closing[b]
                \/ \E to \in Closings \ {"no", "kill"} :
                     closing'[b] = [closing[b] EXCEPT ![t] = to]
  <2>1. /\ heap' = heap
        /\ \E to \in Closings \ {"no"} :
             /\ closing' = [closing EXCEPT ![c][t] = to]
             /\ to = "kill" => heap[c] = "free"
    <3> USE DEF Closings
    <3>1. CASE Interrupt(c, t)
      <4>1. heap' = heap /\ closing' = [closing EXCEPT ![c][t] = "stop"]
        BY <3>1 DEF Interrupt
      <4>2. "stop" \in Closings \ {"no"} /\ "stop" # "kill"
        OBVIOUS
      <4> HIDE DEF Closings
      <4> QED
        BY <4>1, <4>2
    <3>2. ASSUME NEW from, NEW to \in {"sleep", "unlink", "easy", "global"},
                 CloserGoes(c, t, from, to)
          PROVE  /\ heap' = heap
                 /\ \E new \in Closings \ {"no"} :
                      closing' = [closing EXCEPT ![c][t] = new] /\ new # "kill"
      <4>1. heap' = heap /\ closing' = [closing EXCEPT ![c][t] = to]
        BY <3>2 DEF CloserGoes
      <4> QED
        BY <4>1
    <3>3. CASE Stop(c, t) \/ SleepEnds(c, t) \/ Unlink(c, t) \/ EasyCleanup(c, t)
      BY <3>2, <3>3 DEF Stop, SleepEnds, Unlink, EasyCleanup
    <3>4. CASE GlobalCleanup(c, t)
      <4>1. /\ heap' = heap /\ closing' = [closing EXCEPT ![c][t] = "kill"]
            /\ heap[c] = "free"
        BY <3>4 DEF GlobalCleanup, CloserGoes
      <4> QED
        BY <4>1
    <3> QED
      BY <1>5, <3>1, <3>3, <3>4 DEF CloseStep, KillItself
  <2>2. PICK to \in Closings \ {"no"} :
          /\ closing' = [closing EXCEPT ![c][t] = to]
          /\ to = "kill" => heap[c] = "free"
    BY <2>1
  <2>3. CASE c = b
    BY <1>a, <2>1, <2>2, <2>3 DEF TypeOK
  <2>4. CASE c # b
    BY <1>a, <2>1, <2>2, <2>4 DEF TypeOK
  <2> QED
    BY <2>3, <2>4
<1> QED
  BY <1>1, <1>2, <1>3, <1>4, <1>5 DEF Next, HeapStep, Die

\* Once telebot_close waits for the thread it runs on, the bot never closes:
\* for any number of bots, lives and SIGINTs.
THEOREM WaitsForItself == Spec => DeadlockLasts
<1>1. ASSUME TypeInv, [Next]_vars, NEW b \in Bots, SelfDeadlock(b)
      PROVE  SelfDeadlock(b)' \/ ~Up(b)'
  <2>1. PICK t \in Threads : heap[b] = t /\ closing[b][t] # "no"
    BY <1>1 DEF SelfDeadlock
  <2>2. closing[b] \in [Threads -> Closings] /\ \A u \in Threads : closing[b][u] # "kill"
    BY <1>1 DEF TypeInv, TypeOK, SelfDeadlock
  <2>3. ASSUME heap'[b] = heap[b],
               \/ closing'[b] = closing[b]
               \/ \E u \in Threads, to \in Closings \ {"no", "kill"} :
                    closing'[b] = [closing[b] EXCEPT ![u] = to]
        PROVE  SelfDeadlock(b)'
    <3>1. \A u \in Threads : closing'[b][u] # "kill"
      BY <2>2, <2>3
    <3>2. closing'[b][t] # "no"
      BY <2>1, <2>2, <2>3
    <3> QED
      BY <2>1, <2>3, <3>1, <3>2 DEF SelfDeadlock
  <2> QED
    BY <1>1, <2>3, HeapStays
<1>2. TypeInv /\ [Next]_vars =>
        [\A b \in Bots : SelfDeadlock(b) => SelfDeadlock(b)' \/ ~Up(b)']_vars
  BY <1>1
<1> QED
  BY <1>2, TypeInit, TypeStep, PTL DEF Spec, DeadlockLasts

=============================================================================
