--------------------------- MODULE RequestsProofs ---------------------------
(***************************************************************************)
(* Proofs about Requests.tla: whatever main and the handlers call, and     *)
(* however long the answers are, a call sends its own text and reads its   *)
(* own answer; and a request is of the kind it is meant to be, unless the   *)
(* handle's last send was a poll.                                          *)
(***************************************************************************)
EXTENDS RequestHistory, TLAPS

\* A handler runs only while tbc_poll waits for the offset.
Lent ==
  /\ pc["parser"] # "idle" => pc["poll"] = "wait" /\ ~sent
  /\ sent => pc["poll"] = "wait"
  /\ call["poll"] = "getUpdates"
  /\ pc["poll"] \notin {"postfields", "reset", "return"}

\* What t has set so far is in its handle.
Prepared(t) ==
  /\ pc[t] \in {"writedata", "clear", "perform", "transfer"} =>
       handle[Uses(t)].url = call[t]
  /\ pc[t] \in {"clear", "perform", "transfer"} => handle[Uses(t)].write = t
  /\ pc[t] \in {"url", "writedata", "clear", "perform", "transfer"}
       /\ call[t] \in Sends =>
         handle[Uses(t)].fields = t /\ handle[Uses(t)].method = "POST"

\* What t has sent and received so far is its own.
Own(t) ==
  /\ pc[t] = "transfer" =>
       /\ request[t].url = call[t]
       /\ call[t] \in Sends => request[t].method = "POST"
  /\ pc[t] \in {"perform", "transfer", "performed"} =>
       \A k \in DOMAIN response[t] : response[t][k] = call[t]

RequestInv == TypeOK /\ Lent /\ \A t \in Threads : Prepared(t) /\ Own(t)

-----------------------------------------------------------------------------
\* Burying the pointers to t changes nothing else.
LEMMA BuriedFacts ==
  ASSUME NEW options \in Options, NEW t \in Threads
  PROVE  /\ Buried(options, t) \in Options
         /\ Buried(options, t).method = options.method
         /\ Buried(options, t).url = options.url
         /\ options.fields # t => Buried(options, t).fields = options.fields
         /\ options.write # t => Buried(options, t).write = options.write
<1>1. /\ Bury(options.fields, t) \in Pointers
      /\ Bury(options.write, t) \in Pointers
  BY DEF Options, Bury, Pointers
<1>2. Buried(options, t) \in Options
  BY <1>1 DEF Options, Buried
<1>3. /\ Buried(options, t).method = options.method
      /\ Buried(options, t).url = options.url
      /\ Buried(options, t).fields = Bury(options.fields, t)
      /\ Buried(options, t).write = Bury(options.write, t)
  BY DEF Buried
<1> QED
  BY <1>2, <1>3 DEF Bury

\* Every step keeps the types.
LEMMA TypeStep ==
  ASSUME TypeOK, [Next]_vars
  PROVE  TypeOK'
<1> USE DEF TypeOK, Options, Pointers, Threads, Uses, Calls, Sends, Gets, Pcs,
            Goto, NoOptions
<1>1. ASSUME UNCHANGED vars PROVE TypeOK'
  BY <1>1 DEF vars
<1>2. ASSUME DupStarts PROVE TypeOK'
  BY <1>2 DEF DupStarts
<1>3. ASSUME DupEnds PROVE TypeOK'
  <2> PICK method \in {snapshot.method, handle["main"].method},
           url    \in {snapshot.url,    handle["main"].url},
           fields \in {snapshot.fields, handle["main"].fields},
           write  \in {snapshot.write,  handle["main"].write} :
             handle' = [handle EXCEPT !["poll"] =
                          [method |-> method, url |-> url, fields |-> fields,
                           write |-> write]]
    BY <1>3 DEF DupEnds
  <2>1. handle["main"] \in Options /\ snapshot \in Options
    OBVIOUS
  <2>2. [method |-> method, url |-> url, fields |-> fields, write |-> write]
          \in Options
    BY <2>1
  <2>3. handle' \in [{"main", "poll"} -> Options]
    BY <2>2
  <2> QED
    BY <1>3, <2>3 DEF DupEnds
<1>4. ASSUME StartParser \/ Retry \/ WaitOffset PROVE TypeOK'
  <2>1. CASE StartParser
    BY <2>1 DEF StartParser
  <2>2. CASE Retry
    BY <2>2 DEF Retry
  <2>3. CASE WaitOffset
    BY <2>3 DEF WaitOffset
  <2> QED
    BY <1>4, <2>1, <2>2, <2>3
<1>5. ASSUME EndParser PROVE TypeOK'
  <2>1. \A h \in {"main", "poll"} : Buried(handle[h], "poll") \in Options
    BY BuriedFacts
  <2>2. handle' \in [{"main", "poll"} -> Options]
    BY <1>5, <2>1 DEF EndParser
  <2> QED
    BY <1>5, <2>2 DEF EndParser
<1>6. ASSUME NEW t \in Threads, StartCall(t) PROVE TypeOK'
  BY <1>6, CallsAssumption DEF StartCall, CallsOf
<1>7. ASSUME NEW t \in Threads, SetPostFields(t) \/ SetUrl(t) \/ SetWriteData(t)
                                \/ ResetMethod(t)
      PROVE  TypeOK'
  BY <1>7 DEF SetPostFields, SetUrl, SetWriteData, ResetMethod
<1>8. ASSUME NEW t \in Threads, ClearResponse(t) PROVE TypeOK'
  BY <1>8 DEF ClearResponse
<1>9. ASSUME NEW t \in Threads, Perform(t) \/ TransferEnds(t) \/ AfterPerform(t)
      PROVE  TypeOK'
  BY <1>9 DEF Perform, TransferEnds, AfterPerform
<1>10. ASSUME NEW t \in Threads, Chunk(t) PROVE TypeOK'
  <2> DEFINE to == handle[Uses(t)].write
  <2>1. to \in Threads /\ request[t].url \in Calls \union {"none"}
    BY <1>10 DEF Chunk
  <2>2. response' = [response EXCEPT ![to] = Append(@, request[t].url)]
    BY <1>10 DEF Chunk
  <2>3. response' \in [Threads -> Seq(Calls \union {"none"})]
    <3> HIDE DEF to
    <3> QED
      BY <2>1, <2>2
  <2> QED
    BY <1>10, <2>3 DEF Chunk
<1>11. ASSUME NEW t \in Threads, ReturnCall(t) PROVE TypeOK'
  <2>1. \A h \in {"main", "poll"} : Buried(handle[h], t) \in Options
    BY BuriedFacts
  <2>2. handle' \in [{"main", "poll"} -> Options]
    BY <1>11, <2>1 DEF ReturnCall
  <2>3. snapshot' \in Options
    BY <1>11, BuriedFacts DEF ReturnCall
  <2> QED
    BY <1>11, <2>2, <2>3 DEF ReturnCall
<1> QED
  BY <1>1, <1>2, <1>3, <1>4, <1>5, <1>6, <1>7, <1>8, <1>9, <1>10, <1>11 DEF Next

-----------------------------------------------------------------------------
\* The loan survives every step: a handler's own steps do not end it, and
\* tbc_poll takes none while it lasts.
LEMMA LentStep ==
  ASSUME TypeOK, Lent, [Next]_vars
  PROVE  Lent'
<1> USE DEF TypeOK, Lent, Threads, Goto
<1>1. ASSUME UNCHANGED vars PROVE Lent'
  BY <1>1 DEF vars
<1>2. CASE DupStarts \/ DupEnds \/ Retry
  BY <1>2 DEF DupStarts, DupEnds, Retry
<1>3. CASE StartParser \/ EndParser \/ WaitOffset
  BY <1>3 DEF StartParser, EndParser, WaitOffset
<1>4. ASSUME NEW t \in Threads, StartCall(t) \/ ReturnCall(t)
      PROVE  Lent'
  <2>1. t # "poll" /\ pc[t] # "idle" /\ pc'[t] # "idle" /\ UNCHANGED sent
    BY <1>4 DEF StartCall, ReturnCall
  <2>2. \A u \in Threads \ {t} : pc'[u] = pc[u] /\ call'[u] = call[u]
    BY <1>4 DEF StartCall, ReturnCall
  <2> QED
    BY <2>1, <2>2
<1>5. ASSUME NEW t \in Threads,
             SetPostFields(t) \/ SetUrl(t) \/ SetWriteData(t)
               \/ ClearResponse(t) \/ Perform(t)
      PROVE  Lent'
  BY <1>5 DEF SetPostFields, SetUrl, SetWriteData, ClearResponse, Perform
<1>6. ASSUME NEW t \in Threads,
             Chunk(t) \/ TransferEnds(t) \/ AfterPerform(t) \/ ResetMethod(t)
      PROVE  Lent'
  BY <1>6 DEF Chunk, TransferEnds, AfterPerform, ResetMethod
<1> QED
  BY <1>1, <1>2, <1>3, <1>4, <1>5, <1>6 DEF Next

-----------------------------------------------------------------------------
\* A thread at work on a handle, for which Prepared or Own says something.
AtWork == {"url", "writedata", "clear", "perform", "transfer", "performed"}

\* Of the two threads of a handle only one is in a call.
LEMMA OneAtWork ==
  ASSUME Lent, NEW t \in Threads, NEW u \in Threads, t # u,
         Uses(t) = Uses(u), pc[t] \notin {"idle", "wait"}
  PROVE  pc[u] \notin AtWork
BY DEF Lent, Threads, Uses, AtWork

\* What a thread has prepared and received is not disturbed by a step that
\* changes neither its state nor, while it is at work, what it has set.
LEMMA OthersStep ==
  ASSUME NEW u \in Threads, Prepared(u), Own(u),
         pc'[u] = pc[u], call'[u] = call[u],
         request'[u] = request[u], response'[u] = response[u],
         pc[u] \in AtWork =>
           /\ handle'[Uses(u)].url = handle[Uses(u)].url
           /\ handle'[Uses(u)].method = handle[Uses(u)].method
           /\ handle[Uses(u)].write = u => handle'[Uses(u)].write = u
           /\ handle[Uses(u)].fields = u => handle'[Uses(u)].fields = u
  PROVE  (Prepared(u) /\ Own(u))'
BY DEF Prepared, Own, AtWork

\* What each thread has prepared, sent and received stays its own in every step.
LEMMA RequestStep ==
  ASSUME RequestInv, [Next]_vars
  PROVE  (\A u \in Threads : Prepared(u) /\ Own(u))'
<1> SUFFICES ASSUME NEW u \in Threads PROVE (Prepared(u) /\ Own(u))'
  OBVIOUS
<1> USE DEF RequestInv
<1>1. CASE UNCHANGED vars
  BY <1>1, OthersStep DEF vars
<1>2. CASE DupStarts
  <2>1. CASE u = "poll"
    BY <1>2, <2>1 DEF DupStarts, Goto, TypeOK, Threads, Prepared, Own
  <2>2. CASE u # "poll"
    BY <1>2, <2>2, OthersStep DEF DupStarts, Goto, TypeOK, Threads
  <2> QED
    BY <2>1, <2>2
<1>3. CASE DupEnds
  <2>1. CASE u = "poll"
    BY <1>3, <2>1 DEF DupEnds, Goto, TypeOK, Threads, Prepared, Own, Lent, Sends
  <2>2. CASE u = "main"
    <3>1. handle'["main"] = handle["main"]
      BY <1>3 DEF DupEnds, TypeOK
    <3>2. pc'[u] = pc[u] /\ UNCHANGED <<call, request, response>>
      BY <1>3, <2>2 DEF DupEnds, Goto, TypeOK, Threads
    <3> QED
      BY <2>2, <3>1, <3>2, OthersStep DEF Uses
  <2>3. CASE u = "parser"
    <3>1. pc[u] = "idle"
      BY <1>3, <2>3 DEF DupEnds, Goto, Lent
    <3>2. pc'[u] = pc[u] /\ UNCHANGED <<call, request, response>>
      BY <1>3, <2>3 DEF DupEnds, Goto, TypeOK, Threads
    <3> QED
      BY <3>1, <3>2, OthersStep DEF AtWork
  <2> QED
    BY <2>1, <2>2, <2>3 DEF Threads
<1>4. CASE StartParser
  <2>1. UNCHANGED <<handle, call, request, response>>
    BY <1>4 DEF StartParser
  <2>2. pc'[u] \in {"wait", "ready", pc[u]}
    BY <1>4 DEF StartParser, TypeOK, Threads
  <2>3. CASE pc'[u] = pc[u]
    BY <2>1, <2>3, OthersStep
  <2>4. CASE pc'[u] \in {"wait", "ready"}
    BY <2>4 DEF Prepared, Own
  <2> QED
    BY <2>2, <2>3, <2>4
<1>5. CASE Retry \/ WaitOffset
  <2>1. UNCHANGED <<handle, call, request, response>>
    BY <1>5 DEF Retry, WaitOffset
  <2>2. CASE u = "poll"
    BY <1>5, <2>1, <2>2 DEF Retry, WaitOffset, Goto, TypeOK, Threads, Lent,
                            Prepared, Own, Sends
  <2>3. CASE u # "poll"
    BY <1>5, <2>1, <2>3, OthersStep DEF Retry, WaitOffset, Goto, TypeOK, Threads
  <2> QED
    BY <2>2, <2>3
<1>6. CASE EndParser
  <2>1. /\ UNCHANGED <<call, request, response>>
        /\ \A h \in {"main", "poll"} : handle'[h] = Buried(handle[h], "poll")
    BY <1>6 DEF EndParser
  <2>2. CASE u = "parser"
    BY <1>6, <2>2 DEF EndParser, Goto, TypeOK, Threads, Prepared, Own
  <2>3. CASE u # "parser"
    <3>1. pc'[u] = pc[u]
      BY <1>6, <2>3 DEF EndParser, Goto, TypeOK, Threads
    <3>2. u = "poll" => pc[u] \notin AtWork
      BY <1>6 DEF EndParser, Goto, Lent, AtWork
    <3>3. handle[Uses(u)] \in Options /\ Uses(u) \in {"main", "poll"}
      BY DEF TypeOK, Uses
    <3> QED
      BY <2>1, <3>1, <3>2, <3>3, OthersStep, BuriedFacts DEF Threads
  <2> QED
    BY <2>2, <2>3
<1>7. ASSUME NEW t \in Threads,
             StartCall(t) \/ Perform(t) \/ TransferEnds(t) \/ AfterPerform(t)
               \/ ClearResponse(t) \/ Chunk(t)
      PROVE  (Prepared(u) /\ Own(u))'
  <2>1. UNCHANGED handle
    BY <1>7 DEF StartCall, Perform, TransferEnds, AfterPerform, ClearResponse,
                Chunk
  <2>2. Chunk(t) => handle[Uses(t)].write = t /\ request[t].url = call[t]
    BY DEF Chunk, Prepared, Own
  <2>3. CASE u # t
    <3>1. pc'[u] = pc[u] /\ call'[u] = call[u] /\ request'[u] = request[u]
      BY <1>7, <2>3 DEF StartCall, Perform, TransferEnds, AfterPerform,
                        ClearResponse, Chunk, Goto, TypeOK
    <3>2. response'[u] = response[u]
      BY <1>7, <2>2, <2>3 DEF StartCall, Perform, TransferEnds, AfterPerform,
                              ClearResponse, Chunk, TypeOK
    <3> QED
      BY <2>1, <3>1, <3>2, OthersStep
  <2>4. CASE u = t
    <3>1. CASE StartCall(t)
      BY <2>4, <3>1 DEF StartCall, Goto, TypeOK, Prepared, Own
    <3>2. CASE Perform(t)
      BY <2>1, <2>4, <3>2 DEF Perform, Goto, TypeOK, Prepared, Own
    <3>3. CASE TransferEnds(t) \/ AfterPerform(t)
      BY <2>1, <2>4, <3>3 DEF TransferEnds, AfterPerform, Goto, TypeOK, Prepared,
                              Own
    <3>4. CASE ClearResponse(t)
      BY <2>1, <2>4, <3>4 DEF ClearResponse, Goto, TypeOK, Prepared, Own
    <3>5. CASE Chunk(t)
      <4>1. /\ UNCHANGED <<pc, call, request>>
            /\ pc[t] = "transfer"
            /\ response'[t] = Append(response[t], call[t])
        BY <2>2, <3>5 DEF Chunk, TypeOK
      <4>2. response[t] \in Seq(Calls \union {"none"})
        BY DEF TypeOK
      <4>3. \A k \in DOMAIN response'[t] : response'[t][k] = call[t]
        BY <4>1, <4>2 DEF Own
      <4> QED
        BY <2>1, <2>4, <4>1, <4>3 DEF Prepared, Own
    <3> QED
      BY <1>7, <3>1, <3>2, <3>3, <3>4, <3>5
  <2> QED
    BY <2>3, <2>4
<1>8. ASSUME NEW t \in Threads,
             SetPostFields(t) \/ SetUrl(t) \/ SetWriteData(t) \/ ResetMethod(t)
      PROVE  (Prepared(u) /\ Own(u))'
  <2>1. UNCHANGED <<call, request, response>>
    BY <1>8 DEF SetPostFields, SetUrl, SetWriteData, ResetMethod
  <2>2. handle[Uses(t)] \in Options /\ Uses(t) \in {"main", "poll"}
    BY DEF TypeOK, Uses
  <2>3. CASE u # t
    <3>1. pc'[u] = pc[u] /\ pc[t] \notin {"idle", "wait"}
      BY <1>8, <2>3 DEF SetPostFields, SetUrl, SetWriteData, ResetMethod, Goto,
                        TypeOK
    <3>2. Uses(u) # Uses(t) => handle'[Uses(u)] = handle[Uses(u)]
      BY <1>8, <2>3 DEF SetPostFields, SetUrl, SetWriteData, ResetMethod, Uses,
                        TypeOK
    <3> QED
      BY <2>1, <2>3, <3>1, <3>2, OneAtWork, OthersStep
  <2>4. CASE u = t
    <3>1. CASE SetPostFields(t)
      BY <2>1, <2>2, <2>4, <3>1 DEF SetPostFields, Goto, TypeOK, Options,
                                    Prepared, Own
    <3>2. CASE SetUrl(t)
      BY <2>1, <2>2, <2>4, <3>2 DEF SetUrl, Goto, TypeOK, Options, Prepared, Own
    <3>3. CASE SetWriteData(t)
      BY <2>1, <2>2, <2>4, <3>3 DEF SetWriteData, Goto, TypeOK, Options,
                                    Prepared, Own
    <3>4. CASE ResetMethod(t)
      BY <2>1, <2>2, <2>4, <3>4 DEF ResetMethod, Goto, TypeOK, Prepared, Own
    <3> QED
      BY <1>8, <3>1, <3>2, <3>3, <3>4
  <2> QED
    BY <2>3, <2>4
<1>9. ASSUME NEW t \in Threads, ReturnCall(t)
      PROVE  (Prepared(u) /\ Own(u))'
  <2>1. CASE u = t
    BY <1>9, <2>1 DEF ReturnCall, Goto, TypeOK, Prepared, Own
  <2>2. CASE u # t
    <3>1. /\ pc'[u] = pc[u] /\ call'[u] = call[u]
          /\ request'[u] = request[u] /\ response'[u] = response[u]
      BY <1>9, <2>2 DEF ReturnCall, Goto, TypeOK
    <3>2. \A h \in {"main", "poll"} : handle'[h] = Buried(handle[h], t)
      BY <1>9 DEF ReturnCall
    <3>3. handle[Uses(u)] \in Options /\ Uses(u) \in {"main", "poll"}
      BY DEF TypeOK, Uses
    <3> QED
      BY <2>2, <3>1, <3>2, <3>3, OthersStep, BuriedFacts
  <2> QED
    BY <2>1, <2>2
<1> QED
  BY <1>1, <1>2, <1>3, <1>4, <1>5, <1>6, <1>7, <1>8, <1>9 DEF Next

\* The invariant holds when telebot_init returns.
LEMMA RequestInit ==
  ASSUME Init
  PROVE  RequestInv
<1>1. NoOptions \in Options
  BY DEF NoOptions, Options, Pointers
<1>2. TypeOK
  <2>1. <<>> \in Seq(Calls \union {"none"})
    OBVIOUS
  <2>2. pc \in [Threads -> Pcs] /\ call \in [Threads -> Calls \union {"none"}]
    BY DEF Init, Threads, Pcs, Calls, Gets
  <2> QED
    BY <1>1, <2>1, <2>2 DEF Init, TypeOK
<1>3. Lent
  BY DEF Init, Lent, Threads
<1>4. ASSUME NEW t \in Threads PROVE Prepared(t) /\ Own(t)
  BY DEF Init, Prepared, Own, Threads
<1> QED
  BY <1>2, <1>3, <1>4 DEF RequestInv

-----------------------------------------------------------------------------
\* The types of the model, for every choice of calls and length of answers.
THEOREM Typing == Spec => []TypeOK
<1>1. Init => TypeOK
  BY RequestInit DEF RequestInv
<1>2. TypeOK /\ [Next]_vars => TypeOK'
  BY TypeStep
<1> QED
  BY <1>1, <1>2, PTL DEF Spec

\* RequestInv is inductive.
LEMMA RequestAlways == Spec => []RequestInv
<1>1. Init => RequestInv
  BY RequestInit
<1>2. RequestInv /\ [Next]_vars => RequestInv'
  BY TypeStep, LentStep, RequestStep DEF RequestInv
<1> QED
  BY <1>1, <1>2, PTL DEF Spec

\* A call of getUpdates, getMe, sendMessage or sendPoll reads the answer to its
\* own request, although two threads take turns on one handle whose options
\* outlive each request.
THEOREM OwnAnswers == Spec => []OwnAnswer
<1>1. RequestInv => OwnAnswer
  BY DEF RequestInv, Prepared, Own, OwnAnswer
<1> QED
  BY <1>1, RequestAlways, PTL

\* A message or a poll is sent as a POST of its sender's text, which is alive.
THEOREM OwnBodies == Spec => []OwnBody
<1>1. RequestInv => OwnBody
  BY DEF RequestInv, Prepared, Own, OwnBody
<1> QED
  BY <1>1, RequestAlways, PTL

\* A handle is used by one thread at a time, also while tbc_poll's is lent.
THEOREM Unshared == Spec => []HandleUnshared
<1>1. RequestInv => HandleUnshared
  BY DEF RequestInv, Lent, HandleUnshared, HandledBy, Handling, Uses, Threads
<1> QED
  BY <1>1, RequestAlways, PTL

-----------------------------------------------------------------------------
(* GetUnlessPolled *)

\* A call of t that sends begins and ends with the call.
SendsInCall(t) ==
  /\ pc[t] \in {"idle", "ready"} => call[t] = "none"
  /\ pc[t] \in {"postfields", "reset"} => call[t] \in Sends

\* What the handle's method is from one step of the call to a later one.
MethodOf(t) ==
  /\ pc[t] = "return" /\ call[t] = "sendMessage" =>
       handle[Uses(t)].method = "GET"
  /\ pc[t] = "transfer" => request[t].method = handle[Uses(t)].method

\* A handle is left a POST by a sendPoll, or it is being sent with.
Settled(h) ==
  handle[h].method = "POST" /\ (h = "poll" => pc["poll"] # "duplicating") =>
    \/ last[h] \in {"sendPoll", "meddled"}
    \/ \E t \in Threads : Uses(t) = h /\ call[t] \in Sends

\* While main does not send, the duplicate will be as main's handle is.
Duplicated ==
  pc["poll"] = "duplicating" =>
    \/ last["poll"] = "meddled"
    \/ /\ call["main"] \notin Sends
       /\ last["poll"] = last["main"]
       /\ snapshot.method = handle["main"].method

HistoryInv ==
  /\ RequestInv
  /\ last \in [{"main", "poll"} -> Lasts]
  /\ \A t \in {"main", "parser"} : SendsInCall(t)
  /\ \A t \in Threads : MethodOf(t)
  /\ \A h \in {"main", "poll"} : Settled(h)
  /\ Duplicated

\* A step that neither ends a send nor begins the duplication leaves last as
\* it is, or finds that main meddles.
LEMMA LastQuiet ==
  ASSUME HNext, NEW h \in {"main", "poll"},
         \A t \in Threads : ~ReturnsNow(t, h),
         ~(pc["poll"] = "dup" /\ pc'["poll"] = "duplicating")
  PROVE  \/ last'[h] = last[h]
         \/ h = "poll" /\ last'[h] = "meddled" /\ pc'["poll"] = "duplicating"
BY DEF HNext, LastNow

\* The types of the history.
LEMMA LastType ==
  ASSUME HNext, last \in [{"main", "poll"} -> Lasts]
  PROVE  last' \in [{"main", "poll"} -> Lasts]
<1>1. ASSUME NEW h \in {"main", "poll"} PROVE LastNow(h) \in Lasts
  <2>1. CASE \E t \in Threads : ReturnsNow(t, h)
    <3> PICK t \in Threads : ReturnsNow(t, h)
      BY <2>1
    <3>1. ReturnsNow(CHOOSE u \in Threads : ReturnsNow(u, h), h)
      BY <2>1
    <3>2. call[CHOOSE u \in Threads : ReturnsNow(u, h)] \in Sends
      BY <3>1 DEF ReturnsNow
    <3> QED
      BY <3>2 DEF LastNow, Lasts
  <2>2. CASE ~\E t \in Threads : ReturnsNow(t, h)
    BY <2>2 DEF LastNow, Lasts
  <2> QED
    BY <2>1, <2>2
<1> QED
  BY <1>1 DEF HNext

\* A step that leaves methods, calls and the poll's place alone, as far as the
\* history looks at them, keeps the history's invariant.
LEMMA HistoryQuiet ==
  ASSUME HistoryInv, HNext, RequestInv',
         pc'["poll"] = "duplicating" <=> pc["poll"] = "duplicating",
         UNCHANGED <<call, snapshot>>,
         \A h \in {"main", "poll"} : handle'[h].method = handle[h].method,
         \A t \in Threads : pc'[t] = "ready" => pc[t] \in {"ready", "idle"},
         \A t \in {"main", "parser"} :
           /\ pc'[t] \in {"idle", "ready"} =>
                pc[t] = pc'[t] \/ call[t] = "none"
           /\ pc'[t] \in {"postfields", "reset"} =>
                pc[t] = pc'[t] \/ call[t] \in Sends,
         \A t \in Threads :
           /\ pc'[t] = "return" => pc[t] = "return" \/ call[t] # "sendMessage"
           /\ pc'[t] = "transfer" =>
                pc[t] = "transfer" /\ request'[t] = request[t]
  PROVE  HistoryInv'
<1> USE DEF HistoryInv
<1>1. \A h \in {"main", "poll"} : \A t \in Threads : ~ReturnsNow(t, h)
  BY DEF ReturnsNow
<1>2. \A h \in {"main", "poll"} :
        \/ last'[h] = last[h]
        \/ h = "poll" /\ last'[h] = "meddled"
  BY <1>1, LastQuiet
<1>3. last' \in [{"main", "poll"} -> Lasts]
  BY LastType
<1>4. (\A t \in {"main", "parser"} : SendsInCall(t))'
  BY DEF SendsInCall, Sends
<1>5. (\A t \in Threads : MethodOf(t))'
  BY DEF MethodOf, Uses
<1>6. (\A h \in {"main", "poll"} : Settled(h))'
  BY <1>2 DEF Settled, Uses
<1>7. Duplicated'
  BY <1>2 DEF Duplicated
<1> QED
  BY <1>3, <1>4, <1>5, <1>6, <1>7

\* A send of another thread of the same handle is not under way.
LEMMA OneSender ==
  ASSUME HistoryInv, NEW t \in Threads, NEW u \in Threads, t # u,
         Uses(t) = Uses(u), pc[t] \notin {"idle", "ready", "wait"}
  PROVE  call[u] \notin Sends
BY DEF HistoryInv, RequestInv, Lent, SendsInCall, Threads, Uses, Sends

\* The kinds of requests go on as they should in every step.
LEMMA HistoryStep ==
  ASSUME HistoryInv, HNext, RequestInv'
  PROVE  HistoryInv'
<1> USE DEF HistoryInv, Goto
<1>0. TypeOK /\ Lent
  BY DEF RequestInv
<1>1. last' \in [{"main", "poll"} -> Lasts]
  BY LastType
<1>2. CASE DupStarts
  <2>1. /\ UNCHANGED <<handle, call, request>>
        /\ snapshot' = handle["main"]
        /\ pc' = [pc EXCEPT !["poll"] = "duplicating"]
        /\ pc["poll"] = "dup" /\ pc'["poll"] = "duplicating"
        /\ \A t \in Threads : t # "poll" => pc'[t] = pc[t]
    BY <1>0, <1>2 DEF DupStarts, TypeOK, Threads
  <2>2. \A h \in {"main", "poll"} : \A t \in Threads : ~ReturnsNow(t, h)
    BY <2>1 DEF ReturnsNow
  <2>3. /\ last'["main"] = last["main"]
        /\ \/ last'["poll"] = "meddled"
           \/ last'["poll"] = last["main"] /\ call["main"] \notin Sends
    BY <2>1, <2>2 DEF HNext, LastNow
  <2>4. (\A t \in {"main", "parser"} : SendsInCall(t))'
    BY <2>1 DEF SendsInCall, Threads
  <2>5. (\A t \in Threads : MethodOf(t))'
    BY <2>1 DEF MethodOf, Uses
  <2>6. Settled("main")' /\ Settled("poll")'
    BY <2>1, <2>3 DEF Settled
  <2>7. Duplicated'
    BY <2>1, <2>3 DEF Duplicated
  <2> QED
    BY <1>1, <2>4, <2>5, <2>6, <2>7
<1>3. CASE DupEnds
  <2>1. /\ UNCHANGED <<call, request>>
        /\ pc["poll"] = "duplicating" /\ pc'["poll"] = "url"
        /\ \A t \in Threads : t # "poll" => pc'[t] = pc[t]
        /\ handle'["main"] = handle["main"]
        /\ handle'["poll"].method \in {snapshot.method, handle["main"].method}
    BY <1>0, <1>3 DEF DupEnds, TypeOK, Threads, Options
  <2>2. \A h \in {"main", "poll"} : last'[h] = last[h]
    <3>1. \A h \in {"main", "poll"} : \A t \in Threads : ~ReturnsNow(t, h)
      BY <2>1 DEF ReturnsNow
    <3> QED
      BY <2>1, <3>1 DEF HNext, LastNow
  <2>3. (\A t \in {"main", "parser"} : SendsInCall(t))'
    BY <2>1 DEF SendsInCall, Threads
  <2>4. pc["parser"] = "idle"
    BY <1>0, <2>1 DEF Lent
  <2>5. (\A t \in Threads : MethodOf(t))'
    BY <2>1, <2>4 DEF MethodOf, Uses, Threads
  <2>6. Settled("main")'
    BY <2>1, <2>2 DEF Settled
  <2>7. Settled("poll")'
    <3>1. CASE last["poll"] = "meddled"
      BY <2>2, <3>1 DEF Settled
    <3>2. CASE /\ call["main"] \notin Sends
               /\ last["poll"] = last["main"]
               /\ snapshot.method = handle["main"].method
      <4>1. handle'["poll"].method = handle["main"].method
        BY <2>1, <3>2
      <4>2. handle["main"].method = "POST" =>
              last["main"] \in {"sendPoll", "meddled"}
        BY <3>2 DEF Settled, Uses, Threads
      <4> QED
        BY <2>2, <3>2, <4>1, <4>2 DEF Settled
    <3> QED
      BY <2>1, <3>1, <3>2 DEF Duplicated
  <2>8. Duplicated'
    BY <2>1 DEF Duplicated
  <2> QED
    BY <1>1, <2>3, <2>5, <2>6, <2>7, <2>8
<1>4. CASE StartParser \/ Retry \/ WaitOffset
  <2>1. UNCHANGED <<handle, call, snapshot, request>>
    BY <1>4 DEF StartParser, Retry, WaitOffset
  <2>2. /\ pc["poll"] \in {"performed", "failed", "wait"}
        /\ pc'["poll"] \in {"wait", "url"}
        /\ pc'["main"] = pc["main"]
        /\ \/ pc'["parser"] = pc["parser"]
           \/ pc["parser"] = "idle" /\ pc'["parser"] = "ready"
    BY <1>0, <1>4 DEF StartParser, Retry, WaitOffset, TypeOK, Threads
  <2>3. pc["parser"] = "idle" => call["parser"] = "none"
    BY DEF SendsInCall
  <2> QED
    BY <2>1, <2>2, <2>3, HistoryQuiet DEF Threads
<1>5. CASE EndParser
  <2>1. /\ UNCHANGED <<call, snapshot, request>>
        /\ pc["parser"] = "ready" /\ pc'["parser"] = "idle"
        /\ \A t \in Threads : t # "parser" => pc'[t] = pc[t]
        /\ \A h \in {"main", "poll"} : handle'[h] = Buried(handle[h], "poll")
    BY <1>0, <1>5 DEF EndParser, TypeOK, Threads
  <2>2. \A h \in {"main", "poll"} : handle'[h].method = handle[h].method
    BY <2>1 DEF Buried
  <2>3. call["parser"] = "none"
    BY <2>1 DEF SendsInCall
  <2> QED
    BY <2>1, <2>2, <2>3, HistoryQuiet DEF Threads
<1>6. ASSUME NEW t \in Threads, StartCall(t) PROVE HistoryInv'
  <2>1. /\ UNCHANGED <<handle, snapshot, request>>
        /\ pc[t] = "ready" /\ pc'[t] \in {"postfields", "url"}
        /\ t \in {"main", "parser"}
        /\ pc'[t] = "postfields" => call'[t] \in Sends
        /\ \A u \in Threads : u # t => pc'[u] = pc[u] /\ call'[u] = call[u]
    BY <1>0, <1>6 DEF StartCall, TypeOK, Threads
  <2>2. \A h \in {"main", "poll"} : \A u \in Threads : ~ReturnsNow(u, h)
    BY <2>1 DEF ReturnsNow
  <2>3. \A h \in {"main", "poll"} :
          \/ last'[h] = last[h]
          \/ h = "poll" /\ last'[h] = "meddled"
    BY <2>1, <2>2, LastQuiet DEF Threads
  <2>4. call[t] = "none"
    BY <2>1 DEF SendsInCall
  <2>5. (\A u \in {"main", "parser"} : SendsInCall(u))'
    BY <2>1 DEF SendsInCall, Threads
  <2>6. (\A u \in Threads : MethodOf(u))'
    BY <2>1 DEF MethodOf, Uses
  <2>7. ASSUME NEW h \in {"main", "poll"} PROVE Settled(h)'
    <3>1. \A u \in Threads : call[u] \in Sends => call'[u] = call[u]
      BY <2>1, <2>4 DEF Sends
    <3>2. pc'["poll"] = pc["poll"]
      BY <2>1 DEF Threads
    <3> QED
      BY <2>1, <2>3, <3>1, <3>2 DEF Settled, Uses
  <2>8. Duplicated'
    <3>1. pc'["poll"] = "duplicating" /\ call'["main"] \in Sends =>
            last'["poll"] = "meddled"
      BY DEF HNext, LastNow
    <3> QED
      BY <2>1, <2>3, <3>1 DEF Duplicated, Threads
  <2> QED
    BY <1>1, <2>5, <2>6, <2>7, <2>8
<1>7. ASSUME NEW t \in Threads, SetPostFields(t) \/ ResetMethod(t)
      PROVE  HistoryInv'
  <2>1. /\ UNCHANGED <<call, snapshot, request>>
        /\ pc[t] \in {"postfields", "reset"} /\ pc'[t] \in {"url", "return"}
        /\ \A u \in Threads : u # t => pc'[u] = pc[u]
        /\ \A h \in {"main", "poll"} : h # Uses(t) => handle'[h] = handle[h]
    BY <1>0, <1>7 DEF SetPostFields, ResetMethod, TypeOK
  <2>2. t # "poll"
    BY <1>0, <2>1 DEF Lent
  <2>3. \/ /\ pc[t] = "postfields" /\ pc'[t] = "url"
           /\ handle'[Uses(t)].method = "POST"
        \/ pc'[t] = "return" /\ handle'[Uses(t)].method = "GET"
    <3>1. handle[Uses(t)] \in Options /\ Uses(t) \in {"main", "poll"}
      BY <1>0 DEF TypeOK, Uses
    <3>2. CASE SetPostFields(t)
      BY <1>0, <3>1, <3>2 DEF SetPostFields, TypeOK, Options
    <3>3. CASE ResetMethod(t)
      BY <1>0, <3>1, <3>3 DEF ResetMethod, TypeOK, Options
    <3> QED
      BY <1>7, <3>2, <3>3
  <2>4. \A h \in {"main", "poll"} : \A u \in Threads : ~ReturnsNow(u, h)
    BY <2>1 DEF ReturnsNow
  <2>5. \A h \in {"main", "poll"} :
          \/ last'[h] = last[h]
          \/ h = "poll" /\ last'[h] = "meddled"
    BY <2>1, <2>2, <2>4, LastQuiet DEF Threads
  <2>6. (\A u \in {"main", "parser"} : SendsInCall(u))'
    BY <2>1 DEF SendsInCall, Threads
  <2>7. ASSUME NEW u \in Threads PROVE MethodOf(u)'
    <3>1. CASE u = t
      BY <2>1, <2>3, <3>1 DEF MethodOf
    <3>2. CASE u # t /\ Uses(u) # Uses(t)
      BY <2>1, <3>2 DEF MethodOf, Uses
    <3>3. CASE u # t /\ Uses(u) = Uses(t)
      <4>1. pc[u] \notin {"return", "transfer"}
        BY <1>0, <2>1, <2>2, <3>3 DEF Lent, Uses, Threads
      <4> QED
        BY <2>1, <3>3, <4>1 DEF MethodOf
    <3> QED
      BY <3>1, <3>2, <3>3
  <2>8. ASSUME NEW h \in {"main", "poll"} PROVE Settled(h)'
    <3>1. CASE h = Uses(t)
      <4>1. pc[t] = "postfields" => call[t] \in Sends
        BY <2>2 DEF SendsInCall, Threads
      <4> QED
        BY <2>1, <2>3, <3>1, <4>1 DEF Settled
    <3>2. CASE h # Uses(t)
      <4>1. pc'["poll"] = pc["poll"] /\ handle'[h] = handle[h]
        BY <2>1, <2>2, <3>2 DEF Threads
      <4> QED
        BY <2>1, <2>5, <4>1 DEF Settled
    <3> QED
      BY <3>1, <3>2
  <2>9. Duplicated'
    <3>1. CASE t = "main"
      <4>1. CASE pc'["poll"] = "duplicating" /\ call["main"] \in Sends
        BY <2>1, <4>1 DEF HNext, LastNow, Duplicated
      <4>2. CASE pc'["poll"] = "duplicating" /\ call["main"] \notin Sends
        BY <2>1, <3>1, <4>2 DEF SendsInCall
      <4> QED
        BY <4>1, <4>2 DEF Duplicated
    <3>2. CASE t # "main"
      <4>1. t = "parser" /\ pc["poll"] = "wait"
        BY <1>0, <2>1, <2>2, <3>2 DEF Lent, Threads
      <4> QED
        BY <2>1, <4>1 DEF Duplicated, Threads
    <3> QED
      BY <3>1, <3>2
  <2> QED
    BY <1>1, <2>6, <2>7, <2>8, <2>9
<1>8. ASSUME NEW t \in Threads,
             SetUrl(t) \/ SetWriteData(t) \/ ClearResponse(t) \/ Chunk(t)
               \/ TransferEnds(t)
      PROVE  HistoryInv'
  <2>1. /\ UNCHANGED <<call, snapshot, request>>
        /\ \A u \in Threads : u # t => pc'[u] = pc[u]
        /\ \/ pc'[t] = pc[t]
           \/ /\ pc[t] \in {"url", "writedata", "clear", "transfer"}
              /\ pc'[t] \in {"writedata", "clear", "perform", "performed",
                             "failed"}
    BY <1>0, <1>8 DEF SetUrl, SetWriteData, ClearResponse, Chunk, TransferEnds,
                      TypeOK
  <2>2. \A h \in {"main", "poll"} : handle'[h].method = handle[h].method
    BY <1>0, <1>8 DEF SetUrl, SetWriteData, ClearResponse, Chunk, TransferEnds,
                      TypeOK, Options
  <2> QED
    BY <2>1, <2>2, HistoryQuiet DEF Threads
<1>9. ASSUME NEW t \in Threads, AfterPerform(t) PROVE HistoryInv'
  <2>1. /\ UNCHANGED <<handle, call, snapshot, request>>
        /\ t # "poll"
        /\ \A u \in Threads : u # t => pc'[u] = pc[u]
        /\ \/ pc'[t] = "reset" /\ call[t] = "sendMessage"
           \/ pc'[t] = "return" /\ call[t] # "sendMessage"
    BY <1>0, <1>9 DEF AfterPerform, TypeOK
  <2> QED
    BY <2>1, HistoryQuiet DEF Threads, Sends
<1>10. ASSUME NEW t \in Threads, Perform(t) PROVE HistoryInv'
  <2>1. /\ UNCHANGED <<handle, call, snapshot>>
        /\ pc[t] = "perform" /\ pc'[t] = "transfer"
        /\ request'[t] = handle[Uses(t)]
        /\ \A u \in Threads :
             u # t => pc'[u] = pc[u] /\ request'[u] = request[u]
    BY <1>0, <1>10 DEF Perform, TypeOK
  <2>2. \A h \in {"main", "poll"} : \A u \in Threads : ~ReturnsNow(u, h)
    BY <2>1 DEF ReturnsNow
  <2>3. \A h \in {"main", "poll"} :
          \/ last'[h] = last[h]
          \/ h = "poll" /\ last'[h] = "meddled"
    BY <2>1, <2>2, LastQuiet DEF Threads
  <2>4. (\A u \in {"main", "parser"} : SendsInCall(u))'
    BY <2>1 DEF SendsInCall, Threads
  <2>5. (\A u \in Threads : MethodOf(u))'
    BY <2>1 DEF MethodOf, Uses
  <2>6. pc'["poll"] = "duplicating" <=> pc["poll"] = "duplicating"
    BY <2>1 DEF Threads
  <2>7. (\A h \in {"main", "poll"} : Settled(h))'
    BY <2>1, <2>3, <2>6 DEF Settled, Uses
  <2>8. Duplicated'
    BY <2>1, <2>3, <2>6 DEF Duplicated
  <2> QED
    BY <1>1, <2>4, <2>5, <2>7, <2>8
<1>11. ASSUME NEW t \in Threads, ReturnCall(t) PROVE HistoryInv'
  <2>1. /\ pc[t] = "return" /\ pc'[t] = "ready" /\ call'[t] = "none"
        /\ \A h \in {"main", "poll"} : handle'[h].method = handle[h].method
        /\ snapshot'.method = snapshot.method
        /\ \A u \in Threads : u # t => /\ pc'[u] = pc[u]
                                       /\ call'[u] = call[u]
                                       /\ request'[u] = request[u]
    BY <1>0, <1>11 DEF ReturnCall, TypeOK, Buried
  <2>2. t # "poll"
    BY <1>0, <2>1 DEF Lent
  <2>3. \A u \in Threads, h \in {"main", "poll"} : ReturnsNow(u, h) => u = t
    BY <2>1 DEF ReturnsNow
  <2>4. ASSUME NEW h \in {"main", "poll"}
        PROVE  \/ last'[h] = last[h] /\ ~ReturnsNow(t, h)
               \/ h = "poll" /\ last'[h] = "meddled"
               \/ last'[h] = call[t] /\ ReturnsNow(t, h)
    <3>1. pc'["poll"] = pc["poll"]
      BY <2>1, <2>2 DEF Threads
    <3>2. CASE ReturnsNow(t, h)
      <4>1. (CHOOSE u \in Threads : ReturnsNow(u, h)) = t
        BY <2>3, <3>2
      <4> QED
        BY <3>1, <3>2, <4>1 DEF HNext, LastNow
    <3>3. CASE ~ReturnsNow(t, h)
      BY <2>3, <3>1, <3>3 DEF HNext, LastNow
    <3> QED
      BY <3>2, <3>3
  <2>5. (\A u \in {"main", "parser"} : SendsInCall(u))'
    BY <2>1 DEF SendsInCall, Threads
  <2>6. (\A u \in Threads : MethodOf(u))'
    BY <2>1 DEF MethodOf, Uses
  <2>7. ASSUME NEW h \in {"main", "poll"} PROVE Settled(h)'
    <3>1. CASE ReturnsNow(t, h)
      <4>1. Uses(t) = h /\ call[t] \in Sends
        BY <3>1 DEF ReturnsNow
      <4>2. CASE call[t] = "sendMessage"
        BY <2>1, <4>1, <4>2 DEF MethodOf, Settled
      <4>3. CASE call[t] = "sendPoll"
        BY <2>4, <3>1, <4>3 DEF Settled
      <4> QED
        BY <4>1, <4>2, <4>3 DEF Sends
    <3>2. CASE ~ReturnsNow(t, h)
      <4>1. \A u \in Threads :
              Uses(u) = h /\ call[u] \in Sends => call'[u] = call[u]
        BY <2>1, <3>2 DEF ReturnsNow
      <4>2. pc'["poll"] = pc["poll"]
        BY <2>1, <2>2 DEF Threads
      <4> QED
        BY <2>1, <2>4, <3>2, <4>1, <4>2 DEF Settled, Uses
    <3> QED
      BY <3>1, <3>2
  <2>8. Duplicated'
    <3>1. CASE pc["poll"] = "duplicating"
      <4>1. ~ReturnsNow(t, "poll")
        BY <1>0, <2>1, <2>2, <3>1 DEF ReturnsNow, Lent, Uses, Threads
      <4>2. CASE last["poll"] = "meddled"
        BY <2>4, <4>1, <4>2 DEF Duplicated
      <4>3. CASE /\ call["main"] \notin Sends
                 /\ last["poll"] = last["main"]
                 /\ snapshot.method = handle["main"].method
        <5>1. ~ReturnsNow(t, "main")
          BY <2>1, <4>3 DEF ReturnsNow, Uses, Threads
        <5>2. call'["main"] \notin Sends
          BY <2>1, <4>3 DEF Threads, Sends
        <5> QED
          BY <2>1, <2>4, <4>1, <4>3, <5>1, <5>2 DEF Duplicated
      <4> QED
        BY <3>1, <4>2, <4>3 DEF Duplicated
    <3>2. CASE pc["poll"] # "duplicating"
      BY <2>1, <2>2, <3>2 DEF Duplicated, Threads
    <3> QED
      BY <3>1, <3>2
  <2> QED
    BY <1>1, <2>5, <2>6, <2>7, <2>8
<1> QED
  BY <1>2, <1>3, <1>4, <1>5, <1>6, <1>7, <1>8, <1>9, <1>10, <1>11
     DEF HNext, Next

\* HistoryInv holds when telebot_init returns.
LEMMA HistoryInit ==
  ASSUME HInit
  PROVE  HistoryInv
<1>1. RequestInv
  BY RequestInit DEF HInit
<1>2. last \in [{"main", "poll"} -> Lasts]
  BY DEF HInit, Lasts
<1>3. \A h \in {"main", "poll"} : Settled(h)
  BY DEF HInit, Init, NoOptions, Settled
<1>4. \A t \in {"main", "parser"} : SendsInCall(t)
  BY DEF HInit, Init, SendsInCall, Threads
<1>5. \A t \in Threads : MethodOf(t)
  BY DEF HInit, Init, MethodOf, Threads
<1>6. Duplicated
  BY DEF HInit, Init, Duplicated, Threads
<1> QED
  BY <1>1, <1>2, <1>3, <1>4, <1>5, <1>6 DEF HistoryInv

\* getMe and getUpdates are GETs unless the last send on their handle was a
\* sendPoll or tbc_poll's handle was duplicated while main was sending.
THEOREM GetsAreGets == HSpec => []GetUnlessPolled
<1>1. HInit => HistoryInv
  BY HistoryInit
<1>2. HistoryInv /\ [HNext]_<<vars, last>> => HistoryInv'
  <2>1. ASSUME HistoryInv, HNext PROVE HistoryInv'
    <3>1. RequestInv'
      BY <2>1, TypeStep, LentStep, RequestStep DEF HistoryInv, RequestInv, HNext
    <3> QED
      BY <2>1, <3>1, HistoryStep
  <2>2. ASSUME HistoryInv, UNCHANGED <<vars, last>> PROVE HistoryInv'
    <3>1. RequestInv'
      BY <2>2, TypeStep, LentStep, RequestStep DEF HistoryInv, RequestInv
    <3> QED
      BY <2>2, <3>1 DEF HistoryInv, vars, SendsInCall, MethodOf, Settled,
                        Duplicated
  <2> QED
    BY <2>1, <2>2
<1>3. HistoryInv => GetUnlessPolled
  <2> SUFFICES ASSUME HistoryInv, NEW t \in Threads, pc[t] = "transfer",
                      call[t] \in Gets, request[t].method = "POST"
               PROVE  last[Uses(t)] \in {"sendPoll", "meddled"}
    BY DEF GetUnlessPolled
  <2>1. handle[Uses(t)].method = "POST" /\ Uses(t) \in {"main", "poll"}
    BY DEF HistoryInv, MethodOf, Uses
  <2>2. Uses(t) = "poll" => pc["poll"] # "duplicating"
    BY DEF HistoryInv, RequestInv, Lent, Uses, Threads
  <2>3. \A u \in Threads : Uses(u) = Uses(t) => call[u] \notin Sends
    BY OneSender DEF Sends, Gets
  <2> QED
    BY <2>1, <2>2, <2>3 DEF HistoryInv, Settled
<1> QED
  BY <1>1, <1>2, <1>3, PTL DEF HSpec

-----------------------------------------------------------------------------
(* GetIsGet *)

\* The bots that GetIsGet is true of: no handler sends a poll, and main, whose
\* handle may be duplicated at any moment, sends nothing.
NoPolls  == "sendPoll" \notin HandlerCalls
MainAsks == MainCalls \intersect Sends = {}

\* main's handle stays as telebot_init left it; tbc_poll's is a POST only from
\* the POSTFIELDS of a handler's sendMessage to its HTTPGET.
GetInv ==
  /\ RequestInv
  /\ handle["main"].method = "GET" /\ snapshot.method = "GET"
  /\ call["main"] \notin Sends /\ pc["main"] \notin {"postfields", "reset"}
  /\ call["parser"] # "sendPoll"
  /\ pc["parser"] = "postfields" => call["parser"] = "sendMessage"
  /\ handle["poll"].method = "POST" =>
       call["parser"] = "sendMessage" /\ pc["parser"] \notin {"idle", "ready", "return"}
  /\ \A t \in Threads :
       pc[t] = "transfer" /\ call[t] \in Gets => request[t].method = "GET"

\* While some thread other than a sending handler is at work, tbc_poll's handle
\* is a GET.
LEMMA GetHandle ==
  ASSUME GetInv, NEW t \in Threads, call[t] \in Gets, pc[t] \notin {"idle", "wait"}
  PROVE  handle[Uses(t)].method = "GET"
<1>1. handle["poll"].method \in {"GET", "POST"}
  BY DEF GetInv, RequestInv, TypeOK, Options
<1>2. CASE t = "main"
  BY <1>2 DEF GetInv, Uses
<1>3. CASE t = "parser"
  BY <1>1, <1>3 DEF GetInv, Uses, Gets
<1>4. CASE t = "poll"
  BY <1>1, <1>4 DEF GetInv, RequestInv, Lent, Uses
<1> QED
  BY <1>2, <1>3, <1>4 DEF Threads

\* Only a sendMessage makes a handle POST, and it makes it GET again.
LEMMA GetStep == ASSUME NoPolls, MainAsks, GetInv, [Next]_vars PROVE GetInv'
<1>0. RequestInv'
  BY TypeStep, LentStep, RequestStep DEF GetInv, RequestInv
<1> USE <1>0 DEF GetInv, RequestInv, TypeOK, Lent, Threads, Uses, Goto
<1>1. ASSUME UNCHANGED vars PROVE GetInv'
  BY <1>1 DEF vars
<1>2. ASSUME DupStarts PROVE GetInv'
  BY <1>2 DEF DupStarts
<1>3. ASSUME DupEnds PROVE GetInv'
  <2>1. handle'["poll"].method = "GET" /\ handle'["main"] = handle["main"]
    BY <1>3 DEF DupEnds
  <2> QED
    BY <1>3, <2>1 DEF DupEnds, NoOptions
<1>4. ASSUME StartParser \/ Retry \/ WaitOffset PROVE GetInv'
  BY <1>4 DEF StartParser, Retry, WaitOffset
<1>5. ASSUME EndParser PROVE GetInv'
  <2>1. \A h \in {"main", "poll"} : handle'[h].method = handle[h].method
    BY <1>5, BuriedFacts DEF EndParser
  <2> QED
    BY <1>5, <2>1 DEF EndParser
<1>6. ASSUME NEW t \in Threads, StartCall(t) PROVE GetInv'
  BY <1>6, CallsAssumption DEF StartCall, CallsOf, NoPolls, MainAsks, Sends
<1>7. ASSUME NEW t \in Threads, SetPostFields(t) PROVE GetInv'
  BY <1>7 DEF SetPostFields
<1>8. ASSUME NEW t \in Threads,
             SetUrl(t) \/ SetWriteData(t) \/ ClearResponse(t) \/ Chunk(t)
               \/ TransferEnds(t)
      PROVE  GetInv'
  <2>1. /\ \A h \in {"main", "poll"} : handle'[h].method = handle[h].method
        /\ UNCHANGED <<snapshot, call, request>>
    <3>1. CASE SetUrl(t)
      BY <3>1 DEF SetUrl
    <3>2. CASE SetWriteData(t)
      BY <3>2 DEF SetWriteData
    <3>3. CASE ClearResponse(t) \/ Chunk(t) \/ TransferEnds(t)
      BY <3>3 DEF ClearResponse, Chunk, TransferEnds
    <3> QED
      BY <1>8, <3>1, <3>2, <3>3
  <2>2. \A u \in Threads :
          \/ pc'[u] = pc[u]
          \/ /\ pc[u] \in {"url", "writedata", "clear", "transfer"}
             /\ pc'[u] \in {"writedata", "clear", "perform", "performed", "failed"}
    BY <1>8 DEF SetUrl, SetWriteData, ClearResponse, Chunk, TransferEnds
  <2> QED
    BY <2>1, <2>2
<1>9. ASSUME NEW t \in Threads, Perform(t) PROVE GetInv'
  <2>1. call[t] \in Gets => handle[Uses(t)].method = "GET"
    BY <1>9, GetHandle DEF Perform
  <2> QED
    BY <1>9, <2>1 DEF Perform
<1>10. ASSUME NEW t \in Threads, AfterPerform(t) PROVE GetInv'
  BY <1>10 DEF AfterPerform, Sends
<1>11. ASSUME NEW t \in Threads, ResetMethod(t) PROVE GetInv'
  BY <1>11 DEF ResetMethod
<1>12. ASSUME NEW t \in Threads, ReturnCall(t) PROVE GetInv'
  <2>1. /\ \A h \in {"main", "poll"} : handle'[h].method = handle[h].method
        /\ snapshot'.method = snapshot.method
    BY <1>12, BuriedFacts DEF ReturnCall
  <2> QED
    BY <1>12, <2>1 DEF ReturnCall, Sends, Gets
<1> QED
  BY <1>1, <1>2, <1>3, <1>4, <1>5, <1>6, <1>7, <1>8, <1>9, <1>10, <1>11, <1>12 DEF Next

\* The requests that are meant to be GETs are, when no handler sends a poll and
\* main sends nothing: it takes a poll to leave a handle a POST, or a send of
\* main's in the middle of the duplication.
THEOREM GetsWithoutPolls ==
  ASSUME NoPolls, MainAsks PROVE Spec => []GetIsGet
<1>1. Init => GetInv
  <2>1. ASSUME Init PROVE GetInv
    BY <2>1, RequestInit DEF Init, GetInv, NoOptions, Sends, Threads
  <2> QED
    BY <2>1
<1>2. GetInv /\ [Next]_vars => GetInv'
  BY GetStep
<1>3. GetInv => GetIsGet
  BY DEF GetInv, GetIsGet
<1> QED
  BY <1>1, <1>2, <1>3, PTL DEF Spec

-----------------------------------------------------------------------------
(* Refinement of Loan *)

\* Once lent the handle is with the parser or on its way back, and only its
\* holder can be at work on it.
LEMMA LoanPlaces ==
  ASSUME Lent
  PROVE  /\ pc["poll"] \in Handling => Holder = "poll"
         /\ pc["parser"] \in Handling => Holder = "parser"
         /\ Holder # "poll" => pc["poll"] = "wait"
         /\ ~(pc["poll"] \in Handling /\ pc["parser"] \in Handling)
BY DEF Lent, Holder, Handling

\* A step that moves one thread, and keeps the loan where it is, uses the
\* handle, leaves it or goes on.
LEMMA LoanKept ==
  ASSUME Lent, Lent', Holder' = Holder,
         pc'["poll"] = pc["poll"] \/ pc'["parser"] = pc["parser"]
  PROVE  [Lending!Next]_(Lending!vars)
<1> USE DEF Lending!vars, Lending!Next
<1>1. /\ Holder \in {"poll", "parser", "sent"}
      /\ Using = "nobody" \/ (Using = Holder /\ Using # "sent")
  BY LoanPlaces DEF Holder, Using
<1>2. /\ pc'["poll"] \in Handling => Holder' = "poll"
      /\ pc'["parser"] \in Handling => Holder' = "parser"
  BY DEF Lent, Holder, Handling
<1>3. Using' = "nobody" \/ (Using' = Holder' /\ Using' # "sent")
  BY <1>2 DEF Using
<1>4. CASE Using' = Using
  BY <1>4
<1>5. CASE Using' # Using /\ Using = "nobody"
  BY <1>1, <1>3, <1>5 DEF Lending!Use
<1>6. CASE Using' # Using /\ Using # "nobody"
  BY <1>1, <1>3, <1>6 DEF Lending!Done
<1> QED
  BY <1>4, <1>5, <1>6

\* One step of Requests is a step of Loan or a stutter.
LEMMA LoanStep ==
  ASSUME TypeOK, Lent, Lent', [Next]_vars
  PROVE  [Lending!Next]_(Lending!vars)
<1> USE DEF Goto
<1>1. CASE UNCHANGED vars
  BY <1>1 DEF vars, Lending!vars, Holder, Using
<1>2. CASE DupStarts \/ DupEnds \/ Retry
  <2>1. pc'["parser"] = pc["parser"] /\ sent' = sent
    BY <1>2 DEF DupStarts, DupEnds, Retry, TypeOK, Threads
  <2> QED
    BY <2>1, LoanKept DEF Holder
<1>3. CASE StartParser
  <2>1. /\ pc["poll"] = "performed" /\ pc["parser"] = "idle" /\ ~sent /\ ~sent'
        /\ pc'["poll"] = "wait" /\ pc'["parser"] = "ready"
    BY <1>3 DEF StartParser, TypeOK, Threads, Lent
  <2>2. Holder = "poll" /\ Using = "nobody" /\ Holder' = "parser" /\ Using' = "nobody"
    BY <2>1 DEF Holder, Using, Handling
  <2> QED
    BY <2>2 DEF Lending!Next, Lending!Pass
<1>4. CASE EndParser
  <2>1. /\ pc["parser"] = "ready" /\ pc["poll"] = "wait" /\ ~sent /\ sent'
        /\ pc'["poll"] = "wait" /\ pc'["parser"] = "idle"
    BY <1>4 DEF EndParser, TypeOK, Threads, Lent
  <2>2. Holder = "parser" /\ Using = "nobody" /\ Holder' = "sent" /\ Using' = "nobody"
    BY <2>1 DEF Holder, Using, Handling
  <2> QED
    BY <2>2 DEF Lending!Next, Lending!Pass
<1>5. CASE WaitOffset
  <2>1. /\ pc["parser"] = "idle" /\ pc["poll"] = "wait" /\ sent /\ ~sent'
        /\ pc'["poll"] = "url" /\ pc'["parser"] = "idle"
    BY <1>5 DEF WaitOffset, TypeOK, Threads, Lent
  <2>2. Holder = "sent" /\ Using = "nobody" /\ Holder' = "poll" /\ Using' = "poll"
    BY <2>1 DEF Holder, Using, Handling
  <2> QED
    BY <2>2 DEF Lending!Next, Lending!Pass
<1>6. ASSUME NEW t \in Threads,
             \/ StartCall(t) \/ SetPostFields(t) \/ SetUrl(t) \/ SetWriteData(t)
             \/ ClearResponse(t) \/ Perform(t) \/ Chunk(t) \/ TransferEnds(t)
             \/ AfterPerform(t) \/ ResetMethod(t) \/ ReturnCall(t)
      PROVE  [Lending!Next]_(Lending!vars)
  <2>1. /\ sent' = sent
        /\ \/ pc' = pc
           \/ /\ pc[t] # "idle"
              /\ \E to \in Pcs \ {"idle"} : pc' = [pc EXCEPT ![t] = to]
    BY <1>6 DEF StartCall, SetPostFields, SetUrl, SetWriteData, ClearResponse,
       Perform, Chunk, TransferEnds, AfterPerform, ResetMethod, ReturnCall, Pcs
  <2>2. /\ pc'["parser"] = "idle" <=> pc["parser"] = "idle"
        /\ pc'["poll"] = pc["poll"] \/ pc'["parser"] = pc["parser"]
    BY <2>1 DEF TypeOK, Threads
  <2> QED
    BY <2>1, <2>2, LoanKept DEF Holder
<1> QED
  BY <1>1, <1>2, <1>3, <1>4, <1>5, <1>6 DEF Next

\* The calls of tbc_poll and of the handlers keep to the loan: between the first
\* option of a request and the last of its clean-up the handle changes hands in
\* no order of the threads.
THEOREM CallsKeepLoan == Spec => LoanPromise
<1>1. Init => TypeOK /\ Lent /\ Lending!Init
  <2>1. ASSUME Init PROVE Holder = "poll" /\ Using = "nobody"
    BY <2>1 DEF Init, Holder, Using, Handling, Threads
  <2> QED
    BY <2>1, RequestInit DEF RequestInv, Lending!Init
<1>2. TypeOK /\ Lent /\ [Next]_vars => TypeOK' /\ Lent'
  BY TypeStep, LentStep
<1>3. TypeOK /\ Lent /\ Lent' /\ [Next]_vars => [Lending!Next]_(Lending!vars)
  BY LoanStep
<1> QED
  BY <1>1, <1>2, <1>3, PTL DEF Spec, LoanPromise, Lending!Spec

=============================================================================
