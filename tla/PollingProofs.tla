---------------------------- MODULE PollingProofs ---------------------------
(***************************************************************************)
(* Theorems about Polling.tla, for any number of parsers, updates, updates *)
(* per answer and restarts.                                                *)
(*                                                                         *)
(* Types are correct under every fault.  ConfirmedHandled, LoanExclusive   *)
(* and the refinement of Delivery hold under every fault but "queue": all  *)
(* three rest on the hand-over through the queue, which is gone when the   *)
(* queue cannot be opened.                                                 *)
(***************************************************************************)
EXTENDS Polling, TLAPS, FiniteSetTheorems, SequenceTheorems

-----------------------------------------------------------------------------
(* The inductive invariant *)

\* A parser that runs a handler has taken up an update.
HandlesSomething == \A p \in Parsers : ppc[p] = "handle" => update_id[p] # 0

\* Nothing is recorded of an update that was never sent.
Counts ==
  /\ confirmed <= arrived
  /\ handled \subseteq 1..arrived
  /\ cursor <= arrived

\* The queue tbc_poll works with is there from its msgget to its msgctl.
QueueOpen ==
  /\ ~exists => queue = <<>>
  /\ pollPc \in {"drain", "test", "request", "spawn", "wait", "exiting"}
       => exists /\ msgqueue_id = "ok"

\* It is empty but for the one message that ends a wait (and for what an
\* earlier life left in it, which is drained before the first request).
QueueUse ==
  /\ pollPc \in {"test", "request", "spawn", "exiting", "exited"}
       => queue = <<>>
  /\ pollPc = "wait" => Len(queue) <= 1
  /\ Borrowers # {} => queue = <<>>

\* Everything below an offset, wherever it is, has been handled: the one of
\* the next request, the one in the queue, and the start of an answer.
OffsetHandled  == 1..(offset - 1) \subseteq handled
MessageHandled ==
  pollPc = "wait" /\ queue # <<>> => 1..(Head(queue) - 1) \subseteq handled
AnswerHandled(answer) ==
  /\ 1..(answer.first - 1) \subseteq handled
  /\ answer.last <= arrived
AnswersHandled ==
  /\ AnswerHandled(resp)
  /\ \A p \in Parsers : AnswerHandled(batch[p])

\* A parser goes through its answer from the first update to the last.
Progress ==
  \A p \in Parsers :
    /\ ppc[p] \in {"open", "parse"} => update_id[p] = 0
    /\ update_id[p] # 0 =>
         /\ update_id[p] \in batch[p].first..batch[p].last
         /\ 1..(update_id[p] - 1) \subseteq handled
         /\ ppc[p] # "handle" => update_id[p] \in handled

TypeInv == TypeOK /\ HandlesSomething

SafeInv ==
  /\ TypeInv
  /\ Counts /\ QueueOpen /\ QueueUse
  /\ OffsetHandled /\ MessageHandled /\ AnswersHandled /\ Progress
  /\ ConfirmedHandled /\ LoanExclusive

\* The offset that asks for what follows the update n; 0 for no update.
OffsetAfter(n) == IF n = 0 THEN 0 ELSE n + 1

\* Where this life stands, for the refinement: the next update that any
\* thread will hand over is the one after the cursor that is not forgotten.
NextFirst == Larger(cursor, confirmed) + 1

CursorInv ==
  /\ pollPc \in {"down", "open", "drain"} => cursor = 0 /\ offset = 0
  /\ pollPc \in {"test", "request", "spawn"} => offset = OffsetAfter(cursor)
  /\ pollPc = "spawn" /\ resp.first <= resp.last => resp.first = NextFirst
  /\ pollPc = "wait" /\ queue # <<>> =>
       IF Head(queue) = 0 THEN offset = OffsetAfter(cursor)
                          ELSE Head(queue) = OffsetAfter(cursor)
  /\ \A p \in Borrowers :
       IF update_id[p] = 0
       THEN /\ offset = OffsetAfter(cursor)
            /\ batch[p].first <= batch[p].last => batch[p].first = NextFirst
       ELSE /\ cursor = update_id[p]
            /\ confirmed < batch[p].first
  /\ (\A p \in Parsers : ppc[p] # "handle") => cursor = 0 \/ cursor \in handled

-----------------------------------------------------------------------------
(* Types *)

\* What the queue operations return.
LEMMA QueueFacts ==
  ASSUME NEW S, NEW q \in Seq(S)
  PROVE  /\ q # <<>> => Head(q) \in S /\ Tail(q) \in Seq(S)
         /\ q # <<>> /\ Len(q) <= 1 => Tail(q) = <<>>
         /\ \A m \in S : Append(q, m) \in Seq(S)
<1>1. q # <<>> => Head(q) \in S /\ Tail(q) \in Seq(S)
  OBVIOUS
<1>2. ASSUME q # <<>>, Len(q) <= 1 PROVE Tail(q) = <<>>
  BY <1>2
<1>3. \A m \in S : Append(q, m) \in Seq(S)
  OBVIOUS
<1> QED BY <1>1, <1>2, <1>3

\* A queue with no message.
LEMMA EmptyQueue == <<>> \in Seq(Offsets)
OBVIOUS

\* The counters may be zero.
LEMMA ZeroOffset == 0 \in Offsets /\ 0 \in 0..MaxUpdate /\ 0 \in 0..MaxBoots
BY BoundsAssumption DEF Offsets

\* The answer of a parser that has none.
LEMMA NoAnswerType == NoAnswer \in Answers
BY BoundsAssumption DEF NoAnswer, Answer, Answers

\* One step of any thread, of the server or of the environment keeps the
\* types, under every fault.
LEMMA TypeStep == ASSUME TypeInv, [Next]_vars PROVE TypeInv'
<1> USE BoundsAssumption DEF TypeInv, TypeOK, HandlesSomething, PollPcs,
      ParserPcs, server, kernel, pollVars, parserVars, history, vars
<1>1. CASE Arrive
  BY <1>1 DEF Arrive
<1>2. CASE Boot
  BY <1>2 DEF Boot
<1>3. CASE Close
  BY <1>3 DEF Close
<1>4. CASE Kill
  BY <1>4, NoAnswerType, ZeroOffset DEF Kill
<1>5. CASE OpenQueue
  BY <1>5 DEF OpenQueue, OpenQueueFails
<1>6. CASE Drain
  BY <1>6, QueueFacts DEF Drain
<1>7. CASE TestRunning
  BY <1>7 DEF TestRunning
<1>8. CASE RequestOk
  BY <1>8 DEF RequestOk, Forget, UpdatesLeft, Answered, Answer, Answers,
     Offsets, Larger, Smaller
<1>9. CASE RequestNotOk
  BY <1>9 DEF RequestNotOk, Answered, Answer, Answers
<1>10. CASE RequestGarbage
  BY <1>10 DEF RequestGarbage, Answered, Answer, Answers
<1>11. CASE RequestFails
  BY <1>11 DEF RequestFails, Forget, Offsets, Larger, Smaller
<1>12. CASE Spawn
  BY <1>12, NoAnswerType, ZeroOffset DEF Spawn
<1>13. CASE SpawnFails
  BY <1>13, NoAnswerType DEF SpawnFails
<1>14. CASE WaitOffset
  BY <1>14, QueueFacts DEF WaitOffset, Receive
<1>15. CASE PollExit
  BY <1>15, EmptyQueue DEF PollExit
<1>16. ASSUME NEW p \in Parsers, Parse(p) PROVE TypeInv'
  <2>1. CASE ParserOpen(p)
    BY <2>1 DEF ParserOpen, ParserStep
  <2>2. CASE ParserCheck(p)
    BY <2>2 DEF ParserCheck, ParserStep
  <2>3. CASE Dispatch(p)
    BY <2>3 DEF Dispatch, ParserStep, NextUpdate, Answers
  <2>4. CASE HandlerReturns(p)
    <3>1. update_id[p] \in 1..MaxUpdate
      BY <2>4 DEF HandlerReturns, ParserStep
    <3> QED BY <2>4, <3>1 DEF HandlerReturns, ParserStep
  <2>5. CASE SendOffset(p)
    <3>1. queue' \in Seq(Offsets)
      <4>1. update_id[p] + 1 \in Offsets
        BY DEF Offsets
      <4> QED BY <2>5, <4>1, QueueFacts, ZeroOffset DEF SendOffset, NextOffset
    <3> QED BY <2>5, <3>1 DEF SendOffset, NextOffset, ParserStep
  <2>6. CASE ParserExit(p)
    BY <2>6, NoAnswerType DEF ParserExit, ParserStep
  <2> QED BY <1>16, <2>1, <2>2, <2>3, <2>4, <2>5, <2>6 DEF Parse
<1>17. CASE UNCHANGED vars
  BY <1>17
<1> QED
  BY <1>1, <1>2, <1>3, <1>4, <1>5, <1>6, <1>7, <1>8, <1>9, <1>10, <1>11,
     <1>12, <1>13, <1>14, <1>15, <1>16, <1>17 DEF Next, Poll

\* Type correctness, whatever goes wrong.
THEOREM Typing == Spec => []TypeOK
<1>1. Init => TypeInv
  BY NoAnswerType, EmptyQueue, ZeroOffset
  DEF Init, TypeInv, TypeOK, HandlesSomething, PollPcs, ParserPcs
<1>2. TypeInv /\ [Next]_vars => TypeInv'
  BY TypeStep
<1>3. TypeInv => TypeOK
  BY DEF TypeInv
<1> QED BY <1>1, <1>2, <1>3, PTL DEF Spec

-----------------------------------------------------------------------------
(* Safety of the hand-over *)

\* One step keeps SafeInv, as long as the queue can be opened.
LEMMA SafeStep ==
  ASSUME "queue" \notin Faults, SafeInv, [Next]_vars
  PROVE  SafeInv'
<1>0. TypeInv'
  BY TypeStep DEF SafeInv
<1>a. TypeOK /\ TypeOK'
  BY <1>0 DEF SafeInv, TypeInv
<1> USE BoundsAssumption DEF SafeInv, Counts, QueueOpen, QueueUse,
      OffsetHandled, MessageHandled, AnswersHandled, AnswerHandled, Progress,
      ConfirmedHandled, LoanExclusive, Borrowers, server, kernel, pollVars,
      parserVars, history
<1>1. CASE Arrive
  BY <1>0, <1>1 DEF Arrive, TypeInv, TypeOK, Answers
<1>2. CASE Boot
  BY <1>0, <1>2 DEF Boot
<1>3. CASE Close
  BY <1>0, <1>3 DEF Close
<1>4. CASE Kill
  BY <1>0, <1>4 DEF Kill, NoAnswer, Answer, TypeInv, TypeOK
<1>5. CASE OpenQueue
  BY <1>0, <1>5 DEF OpenQueue, OpenQueueFails
<1>6. CASE Drain
  BY <1>0, <1>6 DEF Drain
<1>7. CASE TestRunning
  BY <1>0, <1>7 DEF TestRunning
<1>8. CASE RequestOk
  BY <1>0, <1>8 DEF RequestOk, Forget, UpdatesLeft, Answered, Answer, Larger,
     Smaller, TypeInv, TypeOK, Offsets
<1>9. CASE RequestNotOk
  BY <1>0, <1>9 DEF RequestNotOk, Answered, Answer, TypeInv, TypeOK
<1>10. CASE RequestGarbage
  BY <1>0, <1>10 DEF RequestGarbage, Answered, Answer, TypeInv, TypeOK
<1>11. CASE RequestFails
  BY <1>0, <1>11 DEF RequestFails, Forget, Larger, Smaller, TypeInv, TypeOK,
     Offsets
<1>12. CASE Spawn
  BY <1>0, <1>12 DEF Spawn, NoAnswer, Answer, TypeInv, TypeOK
<1>13. CASE SpawnFails
  BY <1>0, <1>13 DEF SpawnFails, NoAnswer, Answer, TypeInv, TypeOK
<1>14. CASE WaitOffset
  BY <1>0, <1>14, QueueFacts DEF WaitOffset, Receive, TypeInv, TypeOK
<1>15. CASE PollExit
  BY <1>0, <1>15 DEF PollExit
<1>16. ASSUME NEW p \in Parsers, Parse(p) PROVE SafeInv'
  <2>1. CASE ParserOpen(p)
    BY <1>0, <2>1 DEF ParserOpen, ParserStep, TypeInv, TypeOK
  <2>2. CASE ParserCheck(p)
    BY <1>0, <2>2 DEF ParserCheck, ParserStep, TypeInv, TypeOK
  <2>3. CASE Dispatch(p)
    <3> DEFINE n == NextUpdate(p)
    <3>1. /\ n \in batch[p].first..batch[p].last
          /\ 1..(n - 1) \subseteq handled
          /\ n <= arrived
      <4>1. /\ update_id[p] \in 0..MaxUpdate
            /\ batch[p].first \in Int /\ batch[p].last \in Int
            /\ arrived \in Int
        <5>1. update_id[p] \in 0..MaxUpdate /\ batch[p] \in Answers /\ arrived \in Int
          BY <1>a DEF TypeOK
        <5> QED
          BY <5>1 DEF Answers
      <4>2. CASE update_id[p] = 0
        BY <2>3, <4>1, <4>2 DEF Dispatch, ParserStep, NextUpdate
      <4>3. CASE update_id[p] # 0
        <5>1. /\ update_id[p] \in handled
              /\ 1..(update_id[p] - 1) \subseteq handled
          BY <2>3, <4>3 DEF Dispatch, ParserStep
        <5>2. 1..update_id[p] \subseteq handled
          BY <4>1, <5>1
        <5> QED BY <2>3, <4>1, <4>3, <5>2 DEF Dispatch, ParserStep, NextUpdate
      <4> QED BY <4>2, <4>3
    <3> HIDE DEF n
    <3>2. /\ ppc[p] = "loop" /\ ppc' = [ppc EXCEPT ![p] = "handle"]
          /\ update_id' = [update_id EXCEPT ![p] = n]
          /\ cursor' = n
          /\ UNCHANGED <<server, running, pollVars, boots, kernel, batch,
                         handled>>
      BY <2>3 DEF Dispatch, ParserStep, n
    <3>3. Progress'
      BY <1>a, <3>1, <3>2 DEF TypeOK
    <3>4. Counts' /\ QueueOpen' /\ OffsetHandled' /\ MessageHandled'
          /\ AnswersHandled' /\ ConfirmedHandled'
      BY <3>1, <3>2
    <3>5. QueueUse' /\ LoanExclusive'
      BY <1>a, <3>2 DEF TypeOK
    <3> QED BY <1>0, <3>3, <3>4, <3>5
  <2>4. CASE HandlerReturns(p)
    <3>1. /\ handled' = handled \union {update_id[p]}
          /\ ppc[p] = "handle" /\ ppc' = [ppc EXCEPT ![p] = "loop"]
          /\ UNCHANGED <<server, running, pollVars, boots, kernel, batch,
                         update_id, cursor>>
      BY <2>4 DEF HandlerReturns, ParserStep
    <3>2. update_id[p] \in 1..arrived
      <4>1. /\ update_id[p] \in 1..MaxUpdate
            /\ batch[p].last \in Int /\ arrived \in Int
            /\ batch[p].first \in Int
        BY <1>a, <3>1 DEF TypeInv, HandlesSomething, TypeOK, Answers
      <4> QED BY <4>1
    <3>3. Progress'
      BY <1>a, <3>1 DEF TypeOK
    <3>4. Counts' /\ QueueOpen' /\ OffsetHandled' /\ MessageHandled'
          /\ AnswersHandled' /\ ConfirmedHandled'
      BY <3>1, <3>2
    <3>5. QueueUse' /\ LoanExclusive'
      BY <1>a, <3>1 DEF TypeOK
    <3> QED BY <1>0, <3>3, <3>4, <3>5
  <2>5. CASE SendOffset(p)
    BY <1>0, <2>5 DEF SendOffset, NextOffset, ParserStep, TypeInv, TypeOK
  <2>6. CASE ParserExit(p)
    BY <1>0, <2>6 DEF ParserExit, ParserStep, NoAnswer, Answer, TypeInv, TypeOK
  <2> QED BY <1>16, <2>1, <2>2, <2>3, <2>4, <2>5, <2>6 DEF Parse
<1>17. CASE UNCHANGED vars
  BY <1>0, <1>17 DEF vars
<1> QED
  BY <1>1, <1>2, <1>3, <1>4, <1>5, <1>6, <1>7, <1>8, <1>9, <1>10, <1>11,
     <1>12, <1>13, <1>14, <1>15, <1>16, <1>17 DEF Next, Poll

\* SafeInv holds before the first start.
LEMMA SafeInit == Init => SafeInv
<1>1. Init => TypeInv
  BY NoAnswerType, EmptyQueue, ZeroOffset
  DEF Init, TypeInv, TypeOK, HandlesSomething, PollPcs, ParserPcs
<1>2. Init => /\ Counts /\ QueueOpen /\ QueueUse
              /\ OffsetHandled /\ MessageHandled /\ AnswersHandled /\ Progress
              /\ ConfirmedHandled /\ LoanExclusive
  BY DEF Init, Counts, QueueOpen, QueueUse, OffsetHandled, MessageHandled,
     AnswersHandled, AnswerHandled, Progress, ConfirmedHandled,
     LoanExclusive, Borrowers, NoAnswer, Answer
<1> QED BY <1>1, <1>2 DEF SafeInv

\* As long as the queue can be opened no update is forgotten unhandled,
\* whatever crashes, lost answers and failed threads there are.
THEOREM NothingLost ==
  ASSUME "queue" \notin Faults PROVE Spec => []ConfirmedHandled
<1>1. SafeInv /\ [Next]_vars => SafeInv'
  BY SafeStep
<1>2. SafeInv => ConfirmedHandled
  BY DEF SafeInv
<1> QED BY <1>1, <1>2, SafeInit, PTL DEF Spec

\* Under the same condition the hand-over through the queue is a lock: the
\* curl handle and the stack of tbc_poll have one user at a time.
THEOREM OneBorrower ==
  ASSUME "queue" \notin Faults PROVE Spec => []LoanExclusive
<1>1. SafeInv /\ [Next]_vars => SafeInv'
  BY SafeStep
<1>2. SafeInv => LoanExclusive
  BY DEF SafeInv
<1> QED BY <1>1, <1>2, SafeInit, PTL DEF Spec

-----------------------------------------------------------------------------
(* Refinement of Delivery *)

\* One step keeps CursorInv.
LEMMA CursorStep ==
  ASSUME "queue" \notin Faults, SafeInv, SafeInv', CursorInv, [Next]_vars
  PROVE  CursorInv'
<1>a. TypeOK /\ TypeOK'
  BY DEF SafeInv, TypeInv
<1> USE BoundsAssumption DEF CursorInv, NextFirst, OffsetAfter, Borrowers,
      server, kernel, pollVars, parserVars, history
<1>1. CASE Arrive
  BY <1>a, <1>1 DEF Arrive
<1>2. CASE Boot
  BY <1>a, <1>2 DEF Boot, SafeInv, LoanExclusive
<1>3. CASE Close
  BY <1>a, <1>3 DEF Close
<1>4. CASE Kill
  BY <1>a, <1>4 DEF Kill, TypeOK
<1>5. CASE OpenQueue
  BY <1>a, <1>5 DEF OpenQueue, OpenQueueFails
<1>6. CASE Drain
  BY <1>a, <1>6 DEF Drain
<1>7. CASE TestRunning
  BY <1>a, <1>7 DEF TestRunning
<1>8. CASE RequestOk
  BY <1>a, <1>8 DEF RequestOk, Forget, UpdatesLeft, Answered, Answer, Larger,
     Smaller, TypeOK, Offsets, SafeInv, LoanExclusive, Counts
<1>9. CASE RequestNotOk
  BY <1>a, <1>9 DEF RequestNotOk, Answered, Answer, TypeOK
<1>10. CASE RequestGarbage
  BY <1>a, <1>10 DEF RequestGarbage, Answered, Answer, TypeOK
<1>11. CASE RequestFails
  BY <1>a, <1>11 DEF RequestFails, SafeInv, LoanExclusive
<1>12. CASE Spawn
  BY <1>a, <1>12 DEF Spawn, TypeOK, SafeInv, LoanExclusive, QueueUse
<1>13. CASE SpawnFails
  BY <1>a, <1>13 DEF SpawnFails, TypeOK
<1>14. CASE WaitOffset
  BY <1>a, <1>14, QueueFacts DEF WaitOffset, Receive, TypeOK, SafeInv,
     LoanExclusive, QueueUse, QueueOpen
<1>15. CASE PollExit
  BY <1>a, <1>15 DEF PollExit
<1>16. ASSUME NEW p \in Parsers, Parse(p) PROVE CursorInv'
  <2>1. CASE ParserOpen(p)
    BY <1>a, <2>1 DEF ParserOpen, ParserStep, TypeOK
  <2>2. CASE ParserCheck(p)
    BY <1>a, <2>2 DEF ParserCheck, ParserStep, TypeOK
  <2>3. CASE Dispatch(p)
    <3>1. /\ p \in Borrowers
          /\ NextUpdate(p) <= batch[p].last
          /\ ppc' = [ppc EXCEPT ![p] = "handle"]
          /\ update_id' = [update_id EXCEPT ![p] = NextUpdate(p)]
          /\ cursor' = NextUpdate(p)
          /\ UNCHANGED <<server, pollVars, kernel, batch, handled>>
      BY <2>3 DEF Dispatch, ParserStep
    <3>2. NextUpdate(p) # 0 /\ confirmed < batch[p].first
      BY <1>a, <3>1 DEF NextUpdate, Larger, TypeOK, Answers
    <3>3. Borrowers' = {p} /\ pollPc = "wait" /\ queue = <<>>
      BY <1>a, <3>1 DEF SafeInv, LoanExclusive, QueueUse, TypeOK
    <3>4. /\ cursor' = update_id'[p] /\ update_id'[p] # 0
          /\ ppc'[p] = "handle" /\ confirmed' < batch'[p].first
      BY <1>a, <3>1, <3>2 DEF TypeOK
    <3> QED BY <3>1, <3>3, <3>4
  <2>4. CASE HandlerReturns(p)
    BY <1>a, <2>4 DEF HandlerReturns, ParserStep, TypeOK, SafeInv, LoanExclusive
  <2>5. CASE SendOffset(p)
    BY <1>a, <2>5 DEF SendOffset, NextOffset, ParserStep, TypeOK, SafeInv, LoanExclusive
  <2>6. CASE ParserExit(p)
    BY <1>a, <2>6 DEF ParserExit, ParserStep, TypeOK
  <2> QED BY <1>16, <2>1, <2>2, <2>3, <2>4, <2>5, <2>6 DEF Parse
<1>17. CASE UNCHANGED vars
  BY <1>a, <1>17 DEF vars
<1> QED
  BY <1>1, <1>2, <1>3, <1>4, <1>5, <1>6, <1>7, <1>8, <1>9, <1>10, <1>11,
     <1>12, <1>13, <1>14, <1>15, <1>16, <1>17 DEF Next, Poll

\* While a borrower is not in a handler, nobody is.
LEMMA OneActive ==
  ASSUME SafeInv, NEW p \in Parsers, p \in Borrowers
  PROVE  Active <=> ppc[p] = "handle"
BY DEF SafeInv, LoanExclusive, Borrowers, Active

\* A step that takes no parser into or out of a handler keeps Active.
LEMMA SameActive ==
  ASSUME \A p \in Parsers : ppc'[p] = "handle" <=> ppc[p] = "handle"
  PROVE  Active' <=> Active
BY DEF Active

\* One step of Polling is a step of Delivery or a stutter.
LEMMA DeliveryStep ==
  ASSUME SafeInv, CursorInv, [Next]_vars
  PROVE  [Promise!Next]_(Promise!vars)
<1>a. TypeOK
  BY DEF SafeInv, TypeInv
<1> USE DEF server, kernel, pollVars, parserVars, history, Promise!vars
<1>1. CASE Arrive
  <2>1. UNCHANGED Active
    BY <1>1 DEF Arrive, Active
  <2> QED BY <1>1, <2>1 DEF Arrive, Promise!Next, Promise!Arrive
<1>2. CASE Kill
  <2>1. Active' = FALSE
    BY <1>2 DEF Kill, Active
  <2> QED BY <1>2, <2>1 DEF Kill, Promise!Next, Promise!Restart
<1>3. CASE RequestOk \/ RequestFails
  <2>a. UNCHANGED Active
    BY <1>3 DEF RequestOk, RequestFails, Answered, Active
  <2>1. /\ UNCHANGED <<arrived, handled, cursor, Active>>
        /\ Forget \/ UNCHANGED confirmed
    BY <1>3, <2>a DEF RequestOk, RequestFails, Answered
  <2>2. CASE UNCHANGED confirmed
    BY <2>1, <2>2
  <2>3. CASE Forget /\ confirmed' # confirmed
    <3>1. confirmed' \in (confirmed + 1)..arrived /\ confirmed' <= offset - 1
      BY <1>a, <2>3 DEF Forget, Larger, Smaller, TypeOK, Offsets
    <3>a. pollPc = "request"
      BY <1>3 DEF RequestOk, RequestFails, Answered
    <3>b. confirmed' \in (confirmed + 1)..cursor
      BY <1>a, <3>1, <3>a DEF CursorInv, OffsetAfter, TypeOK, Offsets
    <3>c. ~Active
      BY <3>a DEF SafeInv, LoanExclusive, Borrowers, Active
    <3>2. 1..confirmed' \subseteq 1..(offset - 1)
      BY <1>a, <3>1 DEF TypeOK, Offsets
    <3>3. 1..confirmed' \subseteq handled
      BY <3>2 DEF SafeInv, OffsetHandled
    <3>4. Promise!Confirm
      BY <2>1, <3>b, <3>c, <3>3 DEF Promise!Confirm
    <3> QED BY <3>4 DEF Promise!Next
  <2> QED BY <2>1, <2>2, <2>3
<1>4. ASSUME NEW p \in Parsers, Dispatch(p) PROVE Promise!Deliver
  <2>1. /\ p \in Borrowers
        /\ ppc[p] = "loop"
        /\ NextUpdate(p) <= batch[p].last
        /\ cursor' = NextUpdate(p)
        /\ UNCHANGED <<arrived, confirmed, handled>>
    BY <1>4 DEF Dispatch, ParserStep, Borrowers
  <2>2. ~Active
    BY <2>1, OneActive
  <2>4. Active'
    BY <1>a, <1>4 DEF Dispatch, ParserStep, Active, TypeOK
  <2>3. /\ cursor' = Larger(cursor, confirmed) + 1
        /\ cursor' <= arrived
    BY <1>a, <2>1 DEF CursorInv, NextFirst, NextUpdate, Larger, TypeOK, Answers,
       SafeInv, AnswersHandled, AnswerHandled, Progress
  <2> QED BY <2>1, <2>2, <2>3, <2>4 DEF Promise!Deliver, Promise!Larger, Larger
<1>5. ASSUME NEW p \in Parsers, HandlerReturns(p) PROVE Promise!Complete
  <2>1. p \in Borrowers /\ update_id[p] # 0 /\ cursor = update_id[p]
    BY <1>5 DEF HandlerReturns, ParserStep, Borrowers, SafeInv, TypeInv,
       HandlesSomething, CursorInv
  <2>2. Active
    BY <1>5 DEF HandlerReturns, ParserStep, Active
  <2>3. ~Active'
    <3>1. \A q \in Parsers : q # p => ppc[q] # "handle"
      BY <2>1 DEF SafeInv, LoanExclusive, Borrowers
    <3>2. ppc' = [ppc EXCEPT ![p] = "loop"]
      BY <1>5 DEF HandlerReturns, ParserStep
    <3> QED BY <1>a, <3>1, <3>2 DEF Active, TypeOK
  <2> QED BY <1>5, <2>1, <2>2, <2>3 DEF HandlerReturns, ParserStep,
             Promise!Complete
<1>6. ASSUME NEW p \in Parsers, Parse(p) PROVE [Promise!Next]_(Promise!vars)
  <2>1. CASE Dispatch(p) \/ HandlerReturns(p)
    BY <1>4, <1>5, <2>1 DEF Promise!Next
  <2>2. CASE ParserOpen(p) \/ ParserCheck(p) \/ SendOffset(p) \/ ParserExit(p)
    <3>1. /\ ppc[p] # "handle"
          /\ \E to \in ParserPcs \ {"handle"} : ppc' = [ppc EXCEPT ![p] = to]
      BY <2>2 DEF ParserOpen, ParserCheck, SendOffset, ParserExit, ParserStep,
         ParserPcs
    <3>2. Active' <=> Active
      BY <1>a, <3>1, SameActive DEF TypeOK
    <3> QED BY <2>2, <3>2 DEF ParserOpen, ParserCheck, SendOffset, ParserExit,
               ParserStep
  <2> QED BY <1>6, <2>1, <2>2 DEF Parse
<1>7. CASE \/ Boot \/ Close \/ OpenQueue \/ Drain \/ TestRunning
           \/ RequestNotOk \/ RequestGarbage \/ Spawn \/ SpawnFails
           \/ WaitOffset \/ PollExit \/ UNCHANGED vars
  <2>1. \A p \in Parsers : ppc'[p] = "handle" <=> ppc[p] = "handle"
    BY <1>a, <1>7 DEF Boot, Close, OpenQueue, Drain, TestRunning, RequestNotOk,
       RequestGarbage, Answered, Spawn, SpawnFails, WaitOffset, PollExit, vars,
       TypeOK
  <2>2. Active' <=> Active
    BY <2>1, SameActive
  <2> QED
    BY <1>7, <2>2 DEF Boot, Close, OpenQueue, Drain, TestRunning, RequestNotOk,
       RequestGarbage, Answered, Spawn, SpawnFails, WaitOffset, PollExit, vars
<1> QED BY <1>1, <1>2, <1>3, <1>6, <1>7 DEF Next, Poll

\* Polling implements Delivery: in every life the updates are handed over in
\* order, one at a time, without a gap or a repetition.
THEOREM PollingDelivers ==
  ASSUME "queue" \notin Faults PROVE Spec => DeliveryPromise
<1>1. Init => CursorInv /\ Promise!Init
  BY DEF Init, CursorInv, NextFirst, OffsetAfter, Borrowers, Promise!Init, Active
<1>2. SafeInv /\ [Next]_vars => SafeInv'
  BY SafeStep
<1>3. SafeInv /\ SafeInv' /\ CursorInv /\ [Next]_vars => CursorInv'
  BY CursorStep
<1>4. SafeInv /\ CursorInv /\ [Next]_vars => [Promise!Next]_(Promise!vars)
  BY DeliveryStep
<1> QED
  BY <1>1, <1>2, <1>3, <1>4, SafeInit, PTL DEF Spec, DeliveryPromise,
     Promise!Spec

-----------------------------------------------------------------------------
(* NoOrphanWait *)

\* No answer is an error.
NoErrors ==
  /\ resp.kind # "notok"
  /\ \A p \in Parsers : batch[p].kind # "notok"

\* Without error answers every step but a parser's msgsnd leaves a borrower
\* that tbc_poll waits for.
LEMMA WaitStep ==
  ASSUME "notok" \notin Faults, SafeInv, SafeInv', NoErrors, NoOrphanWait,
         [Next]_vars
  PROVE  NoErrors' /\ NoOrphanWait'
<1>a. TypeOK /\ TypeOK'
  BY DEF SafeInv, TypeInv
<1>1. CASE Kill
  BY <1>1 DEF Kill, NoErrors, NoOrphanWait, NoAnswer, Answer
<1>2. CASE Arrive \/ Close \/ UNCHANGED vars
  BY <1>2 DEF Arrive, Close, vars, server, kernel, pollVars, parserVars,
              NoErrors, NoOrphanWait, Borrowers
<1>3. CASE Boot \/ OpenQueue \/ Drain \/ TestRunning \/ PollExit
  <2>1. pollPc' # "wait" /\ UNCHANGED <<resp, parserVars>>
    BY <1>3, <1>a DEF Boot, OpenQueue, OpenQueueFails, Drain, TestRunning, PollExit
  <2> QED
    BY <2>1 DEF NoErrors, NoOrphanWait, parserVars
<1>4. CASE RequestOk \/ RequestNotOk \/ RequestGarbage \/ RequestFails
  <2>1. pollPc' # "wait" /\ UNCHANGED parserVars
    BY <1>4 DEF RequestOk, RequestNotOk, RequestGarbage, RequestFails, Answered
  <2>2. resp'.kind # "notok"
    BY <1>4 DEF RequestOk, RequestNotOk, RequestGarbage, RequestFails, Answered,
                UpdatesLeft, Answer, NoErrors
  <2> QED
    BY <2>1, <2>2 DEF NoErrors, NoOrphanWait, parserVars
<1>5. CASE Spawn
  <2> PICK p \in Parsers : /\ ppc' = [ppc EXCEPT ![p] = "open"]
                           /\ batch' = [batch EXCEPT ![p] = resp]
    BY <1>5 DEF Spawn
  <2>1. p \in Borrowers'
    BY <1>a DEF Borrowers, TypeOK
  <2>2. \A q \in Parsers : batch'[q].kind # "notok"
    BY <1>a DEF NoErrors, TypeOK
  <2>3. resp'.kind # "notok"
    BY <1>5 DEF Spawn, NoAnswer, Answer
  <2> QED
    BY <2>1, <2>2, <2>3 DEF NoErrors, NoOrphanWait
<1>6. CASE SpawnFails \/ WaitOffset
  <2>1. pollPc' # "wait" /\ UNCHANGED parserVars
    BY <1>6 DEF SpawnFails, WaitOffset
  <2>2. resp'.kind # "notok"
    BY <1>6 DEF SpawnFails, WaitOffset, NoErrors, NoAnswer, Answer
  <2> QED
    BY <2>1, <2>2 DEF NoErrors, NoOrphanWait, parserVars
<1>7. ASSUME NEW p \in Parsers, Parse(p) PROVE NoErrors' /\ NoOrphanWait'
  <2>1. UNCHANGED <<pollPc, msgqueue_id, resp>>
    BY <1>7 DEF Parse, ParserOpen, ParserCheck, Dispatch, HandlerReturns,
                SendOffset, ParserExit, ParserStep, pollVars
  <2>2. CASE ParserExit(p)
    <3>1. p \notin Borrowers /\ Borrowers' = Borrowers
      BY <2>2, <1>a DEF ParserExit, ParserStep, Borrowers, TypeOK
    <3>2. \A q \in Parsers : batch'[q].kind # "notok"
      BY <2>2, <1>a DEF ParserExit, NoErrors, NoAnswer, Answer, TypeOK
    <3> QED
      BY <2>1, <2>2, <3>1, <3>2 DEF NoErrors, NoOrphanWait, ParserExit, kernel
  <2>3. CASE SendOffset(p)
    <3>1. p \in Borrowers /\ pollPc = "wait"
      BY <2>3 DEF SendOffset, ParserStep, Borrowers, SafeInv, LoanExclusive
    <3>2. exists
      BY <3>1 DEF SafeInv, QueueOpen
    <3>3. queue' # <<>>
      BY <2>3, <3>2, <1>a DEF SendOffset, TypeOK
    <3> QED
      BY <2>1, <2>3, <3>3 DEF SendOffset, NoErrors, NoOrphanWait
  <2>4. CASE ParserOpen(p) \/ ParserCheck(p) \/ Dispatch(p) \/ HandlerReturns(p)
    <3>1. p \in Borrowers /\ UNCHANGED batch
      BY <2>4 DEF ParserOpen, ParserCheck, Dispatch, HandlerReturns, ParserStep,
                  Borrowers
    <3>2. exists
      BY <3>1 DEF SafeInv, LoanExclusive, QueueOpen
    <3>3. ppc'[p] \in {"parse", "loop", "handle"}
      BY <2>4, <3>2, <1>a DEF ParserOpen, ParserCheck, Dispatch, HandlerReturns,
                              ParserStep, NoErrors, TypeOK
    <3> QED
      BY <2>1, <3>1, <3>3 DEF NoErrors, NoOrphanWait, Borrowers
  <2> QED
    BY <1>7, <2>2, <2>3, <2>4 DEF Parse
<1> QED
  BY <1>1, <1>2, <1>3, <1>4, <1>5, <1>6, <1>7 DEF Next, Poll

\* tbc_poll never waits for an offset that nobody is going to send, whatever
\* else fails, crashes or is lost: only an error answer leaves it waiting.
THEOREM NeverOrphaned ==
  ASSUME "queue" \notin Faults, "notok" \notin Faults
  PROVE  Spec => []NoOrphanWait
<1>1. Init => NoErrors /\ NoOrphanWait
  BY DEF Init, NoErrors, NoOrphanWait, NoAnswer, Answer
<1>2. SafeInv /\ [Next]_vars => SafeInv'
  BY SafeStep
<1>3. SafeInv /\ SafeInv' /\ NoErrors /\ NoOrphanWait /\ [Next]_vars
        => NoErrors' /\ NoOrphanWait'
  BY WaitStep
<1> QED
  BY <1>1, <1>2, <1>3, SafeInit, PTL DEF Spec

-----------------------------------------------------------------------------
(* StopIsFinal *)

\* A stop is taken back by the next start of the process or by the two error
\* paths that call isRunning(1, NULL) for isRunning(0, NULL), and by nothing
\* else.
LEMMA StopStep ==
  ASSUME "create" \notin Faults, "queue" \notin Faults, Next, running', ~running
  PROVE  pollPc = "down"
<1>1. \A p \in Parsers : Parse(p) => running' = running
  BY DEF Parse, ParserOpen, ParserCheck, Dispatch, HandlerReturns, SendOffset,
     ParserExit, ParserStep
<1>2. Poll => running' = running
  BY DEF Poll, OpenQueue, OpenQueueFails, Drain, TestRunning, RequestOk,
     RequestNotOk, RequestGarbage, RequestFails, Answered, Spawn, SpawnFails,
     WaitOffset, PollExit
<1>3. Arrive \/ Close \/ Kill => ~running'
  BY DEF Arrive, Close, Kill
<1> QED
  BY <1>1, <1>2, <1>3 DEF Next, Boot

\* While threads and the queue can be created a stop is final: no other fault,
\* crash or order of the threads makes a stopped bot go on.
THEOREM StopStands ==
  ASSUME "create" \notin Faults, "queue" \notin Faults PROVE Spec => StopIsFinal
<1>1. [Next]_vars => [running' /\ ~running => pollPc = "down"]_vars
  BY StopStep
<1> QED
  BY <1>1, PTL DEF Spec, StopIsFinal

-----------------------------------------------------------------------------
(* Refinement of Loan *)

\* Whose turn it is, by where tbc_poll is.
LEMMA LoanPlaces ==
  ASSUME SafeInv
  PROVE  /\ Active => pollPc = "wait" /\ queue = <<>>
         /\ pollPc \in {"request", "exiting"} => Holder = "poll" /\ Using = "poll"
         /\ pollPc \in {"down", "exited"} => Holder = "nobody" /\ Using = "nobody"
         /\ pollPc \notin {"down", "request", "exiting", "exited", "wait"} =>
              Holder = "poll" /\ Using = "nobody"
         /\ pollPc = "wait" /\ queue # <<>> => Holder = "sent" /\ Using = "nobody"
         /\ pollPc = "wait" /\ queue = <<>> =>
              Holder = "parser" /\ Using = IF Active THEN "parser" ELSE "nobody"
<1>1. Active => Borrowers # {}
  BY DEF Active, Borrowers
<1>2. Active => pollPc = "wait" /\ queue = <<>>
  BY <1>1 DEF SafeInv, LoanExclusive, QueueUse
<1> QED
  BY <1>2 DEF Holder, Using

LEMMA LoanPlacesNext ==
  ASSUME SafeInv'
  PROVE  /\ Active' => pollPc' = "wait" /\ queue' = <<>>
         /\ pollPc' \in {"request", "exiting"} => Holder' = "poll" /\ Using' = "poll"
         /\ pollPc' \in {"down", "exited"} => Holder' = "nobody" /\ Using' = "nobody"
         /\ pollPc' \notin {"down", "request", "exiting", "exited", "wait"} =>
              Holder' = "poll" /\ Using' = "nobody"
         /\ pollPc' = "wait" /\ queue' # <<>> => Holder' = "sent" /\ Using' = "nobody"
         /\ pollPc' = "wait" /\ queue' = <<>> =>
              Holder' = "parser" /\ Using' = IF Active' THEN "parser" ELSE "nobody"
<1>1. Active' => Borrowers' # {}
  BY DEF Active, Borrowers
<1>2. Active' => pollPc' = "wait" /\ queue' = <<>>
  BY <1>1 DEF SafeInv, LoanExclusive, QueueUse
<1> QED
  BY <1>2 DEF Holder, Using

\* One step of Polling is a step of Loan or a stutter.
LEMMA LoanStep ==
  ASSUME SafeInv, SafeInv', [Next]_vars
  PROVE  [Lending!Next]_(Lending!vars)
<1>a. TypeOK /\ TypeOK'
  BY DEF SafeInv, TypeInv
<1> USE DEF Lending!vars, Lending!Next, Lending!Start, Lending!Use, Lending!Done,
            Lending!Pass, Lending!End
<1>1. CASE Arrive \/ Close \/ UNCHANGED vars
  BY <1>1 DEF Arrive, Close, vars, kernel, pollVars, parserVars, Holder, Using, Active
<1>2. CASE Kill \/ Boot \/ PollExit
  BY <1>2, LoanPlaces, LoanPlacesNext DEF Kill, Boot, PollExit
<1>3. CASE \/ OpenQueue \/ Drain \/ TestRunning \/ SpawnFails
           \/ RequestOk \/ RequestNotOk \/ RequestGarbage \/ RequestFails
  <2>1. {pollPc, pollPc'} \subseteq {"open", "drain", "test", "request", "spawn",
                                    "exiting"}
    BY <1>3 DEF OpenQueue, OpenQueueFails, Drain, TestRunning, RequestOk,
       RequestNotOk, RequestGarbage, RequestFails, Answered, SpawnFails
  <2>2. Holder = "poll" /\ Holder' = "poll"
    BY <2>1, LoanPlaces, LoanPlacesNext
  <2>3. Using \in {"poll", "nobody"} /\ Using' \in {"poll", "nobody"}
    BY <2>1, LoanPlaces, LoanPlacesNext
  <2> QED
    BY <2>2, <2>3
<1>4. CASE Spawn
  <2>1. pollPc = "spawn" /\ pollPc' = "wait" /\ queue' = queue
    BY <1>4 DEF Spawn, kernel
  <2>2. queue' = <<>>
    BY <2>1 DEF SafeInv, QueueUse
  <2>3. Holder = "poll" /\ Using = "nobody" /\ Holder' = "parser"
    BY <2>1, <2>2, LoanPlaces, LoanPlacesNext
  <2>4. Using' \in {"nobody", "parser"}
    BY <2>1, <2>2, LoanPlacesNext
  <2> QED
    BY <2>3, <2>4
<1>5. CASE WaitOffset
  <2>1. pollPc = "wait" /\ pollPc' = "test" /\ queue # <<>>
    BY <1>5 DEF WaitOffset, Receive, SafeInv, QueueOpen
  <2> QED
    BY <2>1, LoanPlaces, LoanPlacesNext
<1>6. ASSUME NEW p \in Parsers, Parse(p) PROVE [Lending!Next]_(Lending!vars)
  <2>1. UNCHANGED pollVars
    BY <1>6 DEF Parse, ParserOpen, ParserCheck, Dispatch, HandlerReturns,
                SendOffset, ParserExit, ParserStep
  <2>2. CASE SendOffset(p)
    <3>1. p \in Borrowers /\ ppc[p] = "loop"
      BY <2>2 DEF SendOffset, ParserStep, Borrowers
    <3>2. pollPc = "wait" /\ queue = <<>> /\ exists /\ ~Active
      BY <3>1, OneActive DEF SafeInv, LoanExclusive, QueueUse, QueueOpen
    <3>3. pollPc' = "wait" /\ queue' # <<>>
      BY <1>a, <2>1, <2>2, <3>2 DEF SendOffset, pollVars, TypeOK
    <3> QED
      BY <3>2, <3>3, LoanPlaces, LoanPlacesNext
  <2>3. CASE Dispatch(p) \/ HandlerReturns(p)
    <3>1. p \in Borrowers /\ queue' = queue
      BY <2>3 DEF Dispatch, HandlerReturns, ParserStep, Borrowers, kernel
    <3>2. pollPc = "wait" /\ queue = <<>>
      BY <3>1 DEF SafeInv, LoanExclusive, QueueUse
    <3>3. pollPc' = "wait" /\ queue' = <<>>
      BY <2>1, <3>1, <3>2 DEF pollVars
    <3> QED
      BY <3>2, <3>3, LoanPlaces, LoanPlacesNext
  <2>4. CASE ParserOpen(p) \/ ParserCheck(p) \/ ParserExit(p)
    <3>1. /\ ppc[p] # "handle" /\ queue' = queue
          /\ \E to \in ParserPcs \ {"handle"} : ppc' = [ppc EXCEPT ![p] = to]
      BY <2>4 DEF ParserOpen, ParserCheck, ParserExit, ParserStep, ParserPcs, kernel
    <3>2. Active' <=> Active
      BY <1>a, <3>1, SameActive DEF TypeOK
    <3> QED
      BY <2>1, <3>1, <3>2 DEF pollVars, Holder, Using
  <2> QED
    BY <1>6, <2>2, <2>3, <2>4 DEF Parse
<1> QED
  BY <1>1, <1>2, <1>3, <1>4, <1>5, <1>6 DEF Next, Poll

\* The message queue is a lock: as long as it can be opened Polling implements
\* Loan, whichever threads fail and whatever an earlier life left in the queue.
THEOREM PollingLends ==
  ASSUME "queue" \notin Faults PROVE Spec => LoanPromise
<1>1. Init => Lending!Init
  BY DEF Init, Lending!Init, Holder, Using, Active
<1>2. SafeInv /\ [Next]_vars => SafeInv'
  BY SafeStep
<1>3. SafeInv /\ SafeInv' /\ [Next]_vars => [Lending!Next]_(Lending!vars)
  BY LoanStep
<1> QED
  BY <1>1, <1>2, <1>3, SafeInit, PTL DEF Spec, LoanPromise, Lending!Spec

-----------------------------------------------------------------------------
(* What liveness rests on: WaitShortens and StopRunsDown *)

\* What is left to do is a number.
LEMMA LeftNat ==
  ASSUME TypeOK, NEW p \in Parsers
  PROVE  /\ Left(p) \in Nat
         /\ p \in Borrowers => Left(p) > 0
<1>1. /\ batch[p].first \in Int /\ batch[p].last \in Int /\ update_id[p] \in Int
      /\ ppc[p] \in ParserPcs
  BY BoundsAssumption DEF TypeOK, Answers
<1>2. Larger(0, batch[p].last + 1 - NextUpdate(p)) \in Nat
  BY <1>1 DEF Larger, NextUpdate
<1> DEFINE updates == Larger(0, batch[p].last + 1 - NextUpdate(p))
<1> HIDE DEF updates
<1>3. Left(p) = CASE ppc[p] = "open"   -> 2 * updates + 3
                  [] ppc[p] = "parse"  -> 2 * updates + 2
                  [] ppc[p] = "handle" -> 2 * updates + 2
                  [] ppc[p] = "loop"   -> 2 * updates + 1
                  [] OTHER             -> 0
  BY DEF Left, updates
<1>4. updates \in Nat
  BY <1>2 DEF updates
<1> QED
  BY <1>3, <1>4 DEF Borrowers

\* A parser's own step leaves it less to do.
LEMMA OwnStep ==
  ASSUME TypeOK, TypeOK', NEW p \in Borrowers, Parse(p)
  PROVE  Left(p)' < Left(p)
<1> DEFINE rest == Larger(0, batch[p].last + 1 - NextUpdate(p))
           restNext == Larger(0, batch'[p].last + 1 - NextUpdate(p)')
<1>0. p \in Parsers
  BY DEF Borrowers
<1>1. /\ batch[p].first \in Nat /\ batch[p].last \in Nat /\ update_id[p] \in Nat
      /\ NextUpdate(p) \in Nat /\ NextUpdate(p) # 0
  <2>1. batch[p] \in Answers /\ update_id[p] \in 0..MaxUpdate
    BY <1>0 DEF TypeOK
  <2>2. /\ batch[p].first \in 1..MaxUpdate + 1
        /\ batch[p].last \in 0..MaxUpdate
    BY <2>1 DEF Answers
  <2> QED
    BY <2>1, <2>2, BoundsAssumption DEF NextUpdate
<1>2. rest \in Nat
  BY <1>1 DEF Larger
<1>3. Left(p) = CASE ppc[p] = "open"   -> 2 * rest + 3
                  [] ppc[p] = "parse"  -> 2 * rest + 2
                  [] ppc[p] = "handle" -> 2 * rest + 2
                  [] ppc[p] = "loop"   -> 2 * rest + 1
                  [] OTHER             -> 0
  BY DEF Left
<1>4. Left(p)' = CASE ppc'[p] = "open"   -> 2 * restNext + 3
                   [] ppc'[p] = "parse"  -> 2 * restNext + 2
                   [] ppc'[p] = "handle" -> 2 * restNext + 2
                   [] ppc'[p] = "loop"   -> 2 * restNext + 1
                   [] OTHER              -> 0
  BY DEF Left
<1>5. CASE ParserOpen(p) \/ ParserCheck(p) \/ HandlerReturns(p)
  <2>1. UNCHANGED <<batch, update_id>>
    BY <1>5 DEF ParserOpen, ParserCheck, HandlerReturns
  <2>2. restNext = rest
    BY <2>1 DEF NextUpdate
  <2>3. \/ ppc[p] = "open" /\ ppc'[p] \in {"parse", "free"}
        \/ ppc[p] = "parse" /\ ppc'[p] \in {"loop", "free"}
        \/ ppc[p] = "handle" /\ ppc'[p] = "loop"
    BY <1>0, <1>5 DEF ParserOpen, ParserCheck, HandlerReturns, ParserStep, TypeOK
  <2> HIDE DEF rest, restNext
  <2> QED
    BY <1>2, <1>3, <1>4, <2>2, <2>3
<1>6. CASE Dispatch(p)
  <2>1. /\ NextUpdate(p) <= batch[p].last
        /\ ppc[p] = "loop" /\ ppc'[p] = "handle"
        /\ update_id'[p] = NextUpdate(p) /\ batch' = batch
    BY <1>0, <1>6 DEF Dispatch, ParserStep, TypeOK
  <2>2. NextUpdate(p)' = NextUpdate(p) + 1
    BY <1>1, <2>1 DEF NextUpdate
  <2>3. restNext = rest - 1
    BY <1>1, <2>1, <2>2 DEF Larger
  <2>4. rest > 0
    BY <1>1, <2>1 DEF Larger
  <2> HIDE DEF rest, restNext
  <2> QED
    BY <1>2, <1>3, <1>4, <2>1, <2>3, <2>4
<1>7. CASE SendOffset(p)
  <2>1. ppc[p] = "loop" /\ ppc'[p] = "free"
    BY <1>0, <1>7 DEF SendOffset, ParserStep, TypeOK
  <2> HIDE DEF rest, restNext
  <2> QED
    BY <1>2, <1>3, <1>4, <2>1
<1>8. ~ParserExit(p)
  BY DEF ParserExit, ParserStep, Borrowers
<1> QED
  BY <1>5, <1>6, <1>7, <1>8 DEF Parse

\* Every borrower comes nearer to its message with each of its steps, and no
\* other thread, fault or signal sets it back: whatever the size of its answer.
THEOREM WaitsShorten == Spec => WaitShortens
<1> DEFINE Same(p) == UNCHANGED <<ppc[p], batch[p], update_id[p]>>
<1>1. ASSUME TypeOK, TypeOK', [Next]_vars, NEW p \in Borrowers
      PROVE  Left(p)' < Left(p) \/ Same(p)
  <2>0. p \in Parsers /\ ppc[p] # "idle"
    BY <1>1 DEF Borrowers
  <2>1. CASE Parse(p)
    BY <1>1, <2>1, OwnStep
  <2>2. ASSUME NEW q \in Parsers, q # p, Parse(q) PROVE Same(p)
    BY <1>1, <2>0, <2>2 DEF Parse, ParserOpen, ParserCheck, Dispatch,
       HandlerReturns, SendOffset, ParserExit, ParserStep, TypeOK
  <2>3. CASE Kill
    <3>1. ppc'[p] = "idle"
      BY <2>0, <2>3 DEF Kill
    <3>2. Left(p)' = 0
      BY <3>1 DEF Left
    <3> QED
      BY <1>1, <2>0, <3>2, LeftNat
  <2>4. CASE Spawn
    BY <1>1, <2>0, <2>4 DEF Spawn, TypeOK
  <2>5. CASE \/ Arrive \/ Boot \/ Close \/ OpenQueue \/ Drain \/ TestRunning
             \/ RequestOk \/ RequestNotOk \/ RequestGarbage \/ RequestFails
             \/ SpawnFails \/ WaitOffset \/ PollExit \/ UNCHANGED vars
    <3>1. UNCHANGED parserVars
      BY <2>5 DEF Arrive, Boot, Close, OpenQueue, Drain, TestRunning, RequestOk,
         RequestNotOk, RequestGarbage, RequestFails, Answered, SpawnFails,
         WaitOffset, PollExit, vars
    <3> QED
      BY <3>1 DEF parserVars
  <2> QED
    BY <1>1, <2>1, <2>2, <2>3, <2>4, <2>5 DEF Next, Poll
<1>2. TypeOK /\ TypeOK' /\ [Next]_vars =>
        [\A p \in Borrowers : Left(p)' < Left(p) \/ Same(p)]_vars
  BY <1>1
<1> QED
  BY <1>2, Typing, PTL DEF Spec, WaitShortens

\* A stopped tbc_poll goes towards its end and nowhere else, under every fault.
THEOREM StopsRunDown == Spec => StopRunsDown
<1>1. ASSUME TypeOK, Next, ~running, ~running', pollPc' # pollPc
      PROVE  Ahead[pollPc'] < Ahead[pollPc]
  <2>1. \A p \in Parsers : ~Parse(p)
    BY <1>1 DEF Parse, ParserOpen, ParserCheck, Dispatch, HandlerReturns,
       SendOffset, ParserExit, ParserStep, pollVars
  <2>2. ~(Arrive \/ Boot \/ Close)
    BY <1>1 DEF Arrive, Boot, Close, pollVars
  <2>3. CASE Poll
    BY <1>1, <2>3 DEF Poll, OpenQueue, OpenQueueFails, Drain, TestRunning,
       RequestOk, RequestNotOk, RequestGarbage, RequestFails, Answered, Spawn,
       SpawnFails, WaitOffset, PollExit, Ahead
  <2>4. CASE Kill
    BY <1>1, <2>4 DEF Kill, Ahead, TypeOK, PollPcs
  <2> QED
    BY <1>1, <2>1, <2>2, <2>3, <2>4 DEF Next
<1>2. TypeOK /\ [Next]_vars =>
        [~running /\ ~running' /\ pollPc' # pollPc =>
           Ahead[pollPc'] < Ahead[pollPc]]_vars
  BY <1>1
<1> QED
  BY <1>2, Typing, PTL DEF Spec, StopRunsDown

=============================================================================
