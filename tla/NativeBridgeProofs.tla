------------------------ MODULE NativeBridgeProofs -------------------------
(***************************************************************************)
(* Proofs about NativeBridge, for any number of calls of any methods and   *)
(* any sizes of context, prompt and answer.                                *)
(*                                                                         *)
(* The invariants of NativeBridge are not inductive.  What makes them true *)
(* is that a call is in one place at a time: calls leave the looper, enter *)
(* the executor's queue and are taken from it in the order they were made, *)
(* so that a call still waiting has loaded, generated and streamed nothing.*)
(* OrderInv, FreshInv and OnceInv say so; MutexInv says which native       *)
(* functions hold g_mutex, and the others what holds while they do.        *)
(***************************************************************************)
EXTENDS NativeBridge, SequenceTheorems, TLAPS

PlatformPCs == {"idle", "free", "freed", "info", "stop", "dim"}
ExecPCs == {"idle", "initializing", "initFailed", "initDone", "backend",
            "generating", "generated", "next", "streamEnd", "embedding"}
           \cup OnExecutor
CallMessages == [type : {"call"}, call : Calls]
Messages == CallMessages \cup [type : {"reply"}, call : Calls, result : Replies]

(* What a thread does and what the looper holds have a shape, and a thread *)
(* that is not idle works for a call.                                      *)
ShapeInv ==
    /\ platform \in [pc : PlatformPCs, call : Calls \cup {NoCall}]
    /\ platform.pc # "idle" => platform.call \in Calls
    /\ exec \in [pc : ExecPCs, call : Calls \cup {NoCall}]
    /\ exec.pc = "idle" <=> exec.call = NoCall
    /\ looper \in Seq(Messages)

(* The jth message of the looper is the call c.                            *)
At(j, c) ==
    j \in 1 .. Len(looper) /\ looper[j].type = "call" /\ looper[j].call = c

(* The executor's call was made before the ones in its queue, and they     *)
(* before the ones in the looper.                                          *)
OrderInv ==
    /\ exec.call <= calls
    /\ \A i \in 1 .. Len(queue) : exec.call < queue[i] /\ queue[i] <= calls
    /\ \A i, j \in 1 .. Len(queue) : i < j => queue[i] < queue[j]
    /\ \A j \in 1 .. Len(looper), c \in Calls : At(j, c) =>
          /\ exec.call < c /\ c <= calls
          /\ \A i \in 1 .. Len(queue) : queue[i] < c
    /\ \A i, j \in 1 .. Len(looper), c, d \in Calls :
          At(i, c) /\ At(j, d) /\ i < j => c < d

Waits(c) ==
    \/ c > calls
    \/ \E i \in 1 .. Len(queue) : queue[i] = c
    \/ \E j \in 1 .. Len(looper) : At(j, c)

(* The executor runs the tasks of the methods that are sent to it.         *)
TaskInv ==
    /\ \A i \in 1 .. Len(queue) : method[queue[i]] \in OnExecutor
    /\ exec.pc \in {"loadModel", "initializing", "initFailed", "initDone",
                    "backend"} => method[exec.call] = "loadModel"
    /\ exec.pc \in {"next", "streamEnd", "generateStream"} =>
           method[exec.call] = "generateStream"
    /\ exec.pc = "generate" => method[exec.call] = "generate"
    /\ exec.pc \in {"generating", "generated"} =>
           method[exec.call] \in {"generate", "generateStream"}

(* A call that waits has loaded, generated and streamed nothing.           *)
FreshInv ==
    /\ loads <= calls
    /\ \A c \in Calls : Waits(c) =>
           loads < c /\ answer[c] = 0 /\ streamed[c] = <<>>

(* The executor's call has done no more than its pc says.                  *)
OnceInv ==
    /\ exec.pc # "idle" => loads <= exec.call
    /\ exec.pc \in OnExecutor \cup {"initializing"} =>
           /\ loads < exec.call
           /\ answer[exec.call] = 0 /\ streamed[exec.call] = <<>>
    /\ exec.pc \in {"generating", "generated"} =>
           answer[exec.call] = n /\ streamed[exec.call] = <<>>

(* The native functions that take more than a step hold the mutex.         *)
MutexInv ==
    g_mutex = "held" <=>
        exec.pc \in {"initializing", "generating", "generated", "embedding"}

(* Model and context come and go together, under the mutex; a vocabulary   *)
(* may survive its model, never the next one.                              *)
ModelInv ==
    /\ g_context = g_model
    /\ g_model # Null => g_vocab = g_model
    /\ exec.pc = "initializing" => g_model = Null
    /\ exec.pc \in {"generating", "generated"} => g_model # Null

InStream ==
    \/ exec.pc \in {"next", "streamEnd"}
    \/ exec.pc \in {"generating", "generated"} /\ Streaming

(* The list of stream tokens belongs to the stream on the executor, and is *)
(* empty when there is none.                                               *)
StreamInv ==
    /\ ~InStream => g_stream_tokens = <<>>
    /\ InStream => /\ \A i \in 1 .. Len(g_stream_tokens) :
                          g_stream_tokens[i] = exec.call
                   /\ Len(g_stream_tokens) <= answer[exec.call]
                   /\ Len(streamed[exec.call]) = g_stream_pos
    /\ exec.pc \in {"generating", "generated"} => g_stream_pos = 0
    /\ \A c \in Calls : /\ \A i \in 1 .. Len(streamed[c]) : streamed[c][i] = c
                        /\ Len(streamed[c]) <= answer[c]

(* Without an overtaking unload, the plugin is wrong about the model only  *)
(* between a native call that changes it and the line behind that call.    *)
KnowInv ==
    ~overtaken =>
        /\ platform.pc \in {"free", "freed"} => ~Loading
        /\ platform.pc = "freed" => g_model = Null
        /\ exec.pc = "initFailed" => g_model = Null
        /\ exec.pc = "initDone" => g_model # Null
        /\ platform.pc # "freed"
           /\ exec.pc \notin {"initializing", "initFailed", "initDone"}
              => (modelLoaded <=> g_model # Null)

IInv == /\ TypeOK /\ ShapeInv /\ OrderInv /\ TaskInv /\ FreshInv /\ OnceInv
        /\ MutexInv /\ ModelInv /\ StreamInv /\ KnowInv

-----------------------------------------------------------------------------
(* How a step moves calls: it keeps them where they are, or ends the task  *)
(* of the executor with a reply, or is one of the three actions that move  *)
(* a call.                                                                 *)
KeepsCalls ==
    exec'.call = exec.call /\ UNCHANGED <<calls, method, queue, looper>>

EndsTask ==
    /\ exec.call \in Calls /\ exec' = Idle
    /\ UNCHANGED <<calls, method, queue>>
    /\ \E r \in Replies : Post(exec.call, r)

(* Every step of the bridge is of one of these kinds.                      *)
LEMMA StepKinds ==
    ASSUME ShapeInv, [Next]_vars
    PROVE  \/ \E m \in Methods : Invoke(m)
           \/ Handle \/ Take \/ KeepsCalls \/ EndsTask
  <1> USE DEF flow, dart, text, native, stream, gen, plugin
  <1>0. /\ exec.pc # "idle" => exec.call \in Calls
        /\ exec \in [pc : ExecPCs, call : Calls \cup {NoCall}]
        /\ {"ok", "error"} \subseteq Replies
    BY DEF ShapeInv, Replies
  <1>1. ASSUME NEW p, Goto(p)
        PROVE  exec'.call = exec.call
    BY <1>1, <1>0 DEF Goto
  <1>2. CASE \E m \in Methods : Invoke(m)
    BY <1>2
  <1>3. CASE NativeFreeModel
    BY <1>3 DEF NativeFreeModel, KeepsCalls
  <1>4. CASE Freed
    BY <1>4 DEF Freed, KeepsCalls
  <1>5. CASE NativeGetModelInfo
    BY <1>5 DEF NativeGetModelInfo, KeepsCalls
  <1>6. CASE NativeStopGeneration
    BY <1>6 DEF NativeStopGeneration, KeepsCalls
  <1>7. CASE NativeGetEmbeddingDim
    BY <1>7 DEF NativeGetEmbeddingDim, KeepsCalls
  <1>8. CASE ModelNotFound
    BY <1>8, <1>0 DEF ModelNotFound, Finish, EndsTask
  <1>9. CASE InitModel
    BY <1>9, <1>1 DEF InitModel, KeepsCalls
  <1>10. CASE ModelInitialized
    BY <1>10, <1>1 DEF ModelInitialized, KeepsCalls
  <1>11. CASE PluginLoaded
    BY <1>11, <1>0, <1>1 DEF PluginLoaded, Finish, EndsTask, KeepsCalls
  <1>12. CASE NativeGetActiveBackend
    BY <1>12, <1>0 DEF NativeGetActiveBackend, Finish, EndsTask
  <1>13. CASE Generate
    BY <1>13, <1>0, <1>1 DEF Generate, Finish, EndsTask, KeepsCalls
  <1>14. CASE GenerateStreamInit
    BY <1>14, <1>1 DEF GenerateStreamInit, KeepsCalls
  <1>15. CASE GenerateToken
    BY <1>15, <1>1 DEF GenerateToken, KeepsCalls
  <1>16. CASE GenerateEnds
    BY <1>16, <1>0, <1>1 DEF GenerateEnds, Finish, EndsTask, KeepsCalls
  <1>17. CASE GenerateStreamNext
    BY <1>17, <1>1 DEF GenerateStreamNext, KeepsCalls
  <1>18. CASE GenerateStreamEnd
    BY <1>18, <1>0 DEF GenerateStreamEnd, Finish, EndsTask
  <1>19. CASE GetEmbedding
    BY <1>19, <1>0, <1>1 DEF GetEmbedding, Finish, EndsTask, KeepsCalls
  <1>20. CASE \E r \in {"ok", "error"} : EmbeddingDone(r)
    BY <1>20, <1>0 DEF EmbeddingDone, Finish, EndsTask
  <1>21. CASE Done \/ UNCHANGED vars
    BY <1>21 DEF Done, vars, KeepsCalls
  <1> QED BY <1>2, <1>3, <1>4, <1>5, <1>6, <1>7, <1>8, <1>9, <1>10, <1>11,
             <1>12, <1>13, <1>14, <1>15, <1>16, <1>17, <1>18, <1>19, <1>20,
             <1>21 DEF Next, Platform, Executor

(* A reply in the looper moves no call.                                    *)
LEMMA ReplyMovesNoCall ==
    ASSUME ShapeInv, NEW c \in Calls, NEW r \in Replies, Post(c, r)
    PROVE  /\ looper' \in Seq(Messages)
           /\ \A j, d : At(j, d)' <=> At(j, d)
  <1> DEFINE m == [type |-> "reply", call |-> c, result |-> r]
  <1>1. m \in Messages /\ m.type # "call" /\ looper \in Seq(Messages)
    BY DEF Messages, ShapeInv
  <1>2. looper' = Append(looper, m)
    BY DEF Post
  <1> HIDE DEF m
  <1>3. /\ looper' \in Seq(Messages) /\ Len(looper') = Len(looper) + 1
        /\ \A j \in 1 .. Len(looper) : looper'[j] = looper[j]
        /\ looper'[Len(looper) + 1] = m /\ Len(looper) \in Nat
    BY <1>1, <1>2, AppendProperties, LenProperties
  <1>4. ASSUME NEW j, NEW d
        PROVE  At(j, d)' <=> At(j, d)
    <2>1. CASE j \in 1 .. Len(looper)
      BY <2>1, <1>3 DEF At
    <2>2. CASE j = Len(looper) + 1
      BY <2>2, <1>1, <1>3 DEF At
    <2>3. CASE j \notin 1 .. Len(looper) /\ j # Len(looper) + 1
      BY <2>3, <1>3 DEF At
    <2> QED BY <2>1, <2>2, <2>3
  <1> QED BY <1>3, <1>4

(* The platform thread takes the first message of the looper, and may put  *)
(* its call in the executor's queue.                                       *)
LEMMA HandleMoves ==
    ASSUME TypeOK, ShapeInv, Handle
    PROVE  /\ looper' \in Seq(Messages) /\ Head(looper) \in Messages
           /\ \A j \in Nat, d \in Calls : At(j, d)' => At(j + 1, d)
           /\ \/ UNCHANGED queue
              \/ \E c \in Calls : /\ At(1, c) /\ method[c] \in OnExecutor
                                  /\ queue' = Append(queue, c)
  <1>1. looper \in Seq(Messages) /\ looper # <<>> /\ looper' = Tail(looper)
    BY DEF ShapeInv, Handle
  <1>2. /\ looper' \in Seq(Messages) /\ Head(looper) \in Messages
        /\ Len(looper') = Len(looper) - 1 /\ Len(looper) \in Nat \ {0}
        /\ \A j \in 1 .. Len(looper') : looper'[j] = looper[j + 1]
        /\ Head(looper) = looper[1]
    BY <1>1, HeadTailProperties, EmptySeq
  <1>3. ASSUME NEW j \in Nat, NEW d \in Calls, At(j, d)'
        PROVE  At(j + 1, d)
    BY <1>2, <1>3 DEF At
  <1>4. \/ UNCHANGED queue
        \/ \E c \in Calls : /\ At(1, c) /\ method[c] \in OnExecutor
                            /\ queue' = Append(queue, c)
    <2>1. CASE /\ Head(looper).type = "call"
               /\ HandleTask(Head(looper).call)
      <3>1. Head(looper).call \in Calls /\ At(1, Head(looper).call)
        BY <1>2, <2>1 DEF At, Messages, CallMessages
      <3> QED BY <2>1, <3>1 DEF HandleTask
    <2>2. CASE UNCHANGED queue
      BY <2>2
    <2>3. \/ /\ Head(looper).type = "call" /\ HandleTask(Head(looper).call)
          \/ UNCHANGED queue
      BY DEF Handle, HandleUnload, HandleInfo, HandleStop, HandleDim,
             HandleListen
    <2> QED BY <2>1, <2>2, <2>3
  <1> QED BY <1>2, <1>3, <1>4

(* A call that waits was made after the executor's call.                   *)
LEMMA WaitsIsLater ==
    ASSUME TypeOK, ShapeInv, OrderInv, NEW c \in Calls, Waits(c)
    PROVE  exec.call < c
  <1>1. exec.call \in Nat /\ calls \in Nat /\ c \in Nat /\ exec.call <= calls
    BY BridgeAssumption DEF ShapeInv, TypeOK, OrderInv, Calls, NoCall
  <1> QED BY <1>1 DEF Waits, OrderInv

(* Calls are made, queued and executed in one order.                       *)
LEMMA OrderStep ==
    ASSUME TypeOK, ShapeInv, OrderInv, [Next]_vars
    PROVE  OrderInv'
  <1>0. /\ exec.call \in Nat /\ calls \in Nat /\ Calls \subseteq Nat
        /\ queue \in Seq(Calls) /\ Len(queue) \in Nat
        /\ looper \in Seq(Messages) /\ Len(looper) \in Nat
        /\ \A i \in 1 .. Len(queue) : queue[i] \in Calls /\ queue[i] \in Nat
    <2>1. /\ exec.call \in Nat /\ calls \in Nat /\ Calls \subseteq Nat
          /\ queue \in Seq(Calls) /\ looper \in Seq(Messages)
      BY SMTT(30), BridgeAssumption DEF ShapeInv, TypeOK, Calls, NoCall
    <2>2. \A i \in 1 .. Len(queue) : queue[i] \in Calls
      BY <2>1, ElementOfSeq
    <2> QED BY <2>1, <2>2, LenProperties
  <1>1. ASSUME NEW m \in Methods, Invoke(m)
        PROVE  OrderInv'
    <2> DEFINE msg == [type |-> "call", call |-> calls + 1]
    <2>1. /\ calls + 1 \in Calls /\ msg \in Messages
          /\ looper' = Append(looper, msg)
          /\ calls' = calls + 1 /\ UNCHANGED <<queue, exec>>
          /\ msg.call = calls + 1
      BY <1>1, <1>0, BridgeAssumption
      DEF Invoke, Calls, Messages, CallMessages
    <2> HIDE DEF msg
    <2>2. /\ Len(looper') = Len(looper) + 1 /\ looper'[Len(looper) + 1] = msg
          /\ \A j \in 1 .. Len(looper) : looper'[j] = looper[j]
      BY <2>1, <1>0, AppendProperties
    <2>3. ASSUME NEW j \in 1 .. Len(looper'), NEW d \in Calls, At(j, d)'
          PROVE  \/ j \in 1 .. Len(looper) /\ At(j, d)
                 \/ j = Len(looper) + 1 /\ d = calls + 1
      BY <2>1, <2>2, <2>3, <1>0 DEF At
    <2>4. \A i \in 1 .. Len(queue) : exec.call < queue[i] /\ queue[i] <= calls
      BY DEF OrderInv
    <2>5. ASSUME NEW i \in 1 .. Len(queue')
          PROVE  exec'.call < queue'[i] /\ queue'[i] <= calls'
      <3>1. queue'[i] = queue[i] /\ i \in 1 .. Len(queue)
        BY <2>1
      <3>2. queue[i] \in Nat /\ exec.call < queue[i] /\ queue[i] <= calls
        BY <2>4, <3>1, <1>0
      <3> QED BY <2>1, <3>1, <3>2, <1>0
    <2>6. ASSUME NEW j \in 1 .. Len(looper'), NEW c \in Calls, At(j, c)'
          PROVE  /\ exec'.call < c /\ c <= calls'
                 /\ \A i \in 1 .. Len(queue') : queue'[i] < c
      <3>1. CASE j \in 1 .. Len(looper) /\ At(j, c)
        <4>1. /\ exec.call < c /\ c <= calls
              /\ \A i \in 1 .. Len(queue) : queue[i] < c
          BY <3>1 DEF OrderInv
        <4> QED BY <4>1, <2>1, <1>0
      <3>2. CASE c = calls + 1
        <4>1. \A i \in 1 .. Len(queue) : queue[i] < calls + 1
          BY <2>4, <1>0
        <4>2. exec.call < calls + 1
          BY <1>0 DEF OrderInv
        <4> QED BY <3>2, <4>1, <4>2, <2>1, <1>0
      <3> QED BY <2>3, <2>6, <3>1, <3>2
    <2>7. ASSUME NEW i \in 1 .. Len(looper'), NEW j \in 1 .. Len(looper'),
                 NEW c \in Calls, NEW d \in Calls, At(i, c)', At(j, d)', i < j
          PROVE  c < d
      <3>1. i \in 1 .. Len(looper) /\ At(i, c)
        BY <2>2, <2>3, <2>7, <1>0
      <3>2. c <= calls
        BY <3>1 DEF OrderInv
      <3> QED BY <2>3, <2>7, <3>1, <3>2, <1>0 DEF OrderInv
    <2> QED BY <2>1, <2>5, <2>6, <2>7, <1>0 DEF OrderInv
  <1>2. CASE Handle
    <2>1. UNCHANGED <<calls, exec>>
      BY <1>2 DEF Handle
    <2>2. looper' \in Seq(Messages) /\ Len(looper') \in Nat
      BY <1>2, HandleMoves, LenProperties
    <2>3. ASSUME NEW j \in 1 .. Len(looper'), NEW d \in Calls, At(j, d)'
          PROVE  j + 1 \in 1 .. Len(looper) /\ At(j + 1, d)
      BY <1>2, <2>2, <2>3, HandleMoves DEF At
    <2>4. ASSUME NEW i \in 1 .. Len(looper'), NEW j \in 1 .. Len(looper'),
                 NEW c \in Calls, NEW d \in Calls, At(i, c)', At(j, d)', i < j
          PROVE  c < d
      BY <2>2, <2>3, <2>4, <1>0 DEF OrderInv
    <2>5. ASSUME NEW j \in 1 .. Len(looper'), NEW c \in Calls, At(j, c)'
          PROVE  /\ exec'.call < c /\ c <= calls'
                 /\ \A i \in 1 .. Len(queue) : queue[i] < c
      BY <2>1, <2>2, <2>3, <2>5, <1>0 DEF OrderInv
    <2>6. CASE UNCHANGED queue
      BY <2>1, <2>4, <2>5, <2>6 DEF OrderInv
    <2>7. ASSUME NEW e \in Calls, At(1, e), queue' = Append(queue, e)
          PROVE  OrderInv'
      <3>1. /\ Len(queue') = Len(queue) + 1 /\ queue'[Len(queue) + 1] = e
            /\ \A i \in 1 .. Len(queue) : queue'[i] = queue[i]
        BY <2>7, <1>0, AppendProperties
      <3>2. 1 \in 1 .. Len(looper)
        BY <2>7 DEF At
      <3>3. /\ exec.call < e /\ e <= calls
            /\ \A i \in 1 .. Len(queue) : queue[i] < e
        BY <2>7, <3>2, <1>0 DEF OrderInv
      <3>4. ASSUME NEW j \in 1 .. Len(looper'), NEW c \in Calls, At(j, c)'
            PROVE  e < c
        BY <2>3, <2>7, <3>2, <3>4, <2>2, <1>0 DEF OrderInv
      <3>5. ASSUME NEW i \in 1 .. Len(queue')
            PROVE  exec'.call < queue'[i] /\ queue'[i] <= calls'
        BY <2>1, <3>1, <3>3, <1>0 DEF OrderInv
      <3>6. ASSUME NEW i \in 1 .. Len(queue'), NEW j \in 1 .. Len(queue'), i < j
            PROVE  queue'[i] < queue'[j]
        <4>1. \A a, b \in 1 .. Len(queue) : a < b => queue[a] < queue[b]
          BY DEF OrderInv
        <4>2. i \in 1 .. Len(queue) /\ queue'[i] = queue[i]
          BY <3>1, <3>6, <1>0
        <4>3. CASE j \in 1 .. Len(queue)
          BY <3>1, <3>6, <4>1, <4>2, <4>3
        <4>4. CASE j = Len(queue) + 1
          BY <3>1, <3>3, <4>2, <4>4
        <4> QED BY <3>1, <4>3, <4>4, <1>0
      <3>7. ASSUME NEW j \in 1 .. Len(looper'), NEW c \in Calls, At(j, c)'
            PROVE  \A i \in 1 .. Len(queue') : queue'[i] < c
        BY SMTT(30), <2>5, <3>1, <3>4, <3>7, <1>0
      <3> QED BY <2>1, <2>4, <2>5, <3>5, <3>6, <3>7 DEF OrderInv
    <2> QED BY <1>2, <2>6, <2>7, HandleMoves
  <1>3. CASE Take
    <2>1. /\ queue # <<>> /\ queue' = Tail(queue) /\ exec'.call = Head(queue)
          /\ UNCHANGED <<calls, looper>> /\ Head(queue) = queue[1]
      BY <1>3 DEF Take
    <2>2. /\ Len(queue) # 0 /\ Len(queue') = Len(queue) - 1
          /\ \A i \in 1 .. Len(queue') : queue'[i] = queue[i + 1]
      BY <2>1, <1>0, HeadTailProperties, EmptySeq
    <2>3. \A j, d : At(j, d)' <=> At(j, d)
      BY <2>1 DEF At
    <2>4. /\ exec'.call <= calls
          /\ \A i \in 1 .. Len(queue') :
                exec'.call < queue'[i] /\ queue'[i] <= calls
      BY <2>1, <2>2, <1>0 DEF OrderInv
    <2>5. ASSUME NEW i \in 1 .. Len(queue'), NEW j \in 1 .. Len(queue'), i < j
          PROVE  queue'[i] < queue'[j]
      <3>1. \A a, b \in 1 .. Len(queue) : a < b => queue[a] < queue[b]
        BY DEF OrderInv
      <3>2. i + 1 \in 1 .. Len(queue) /\ j + 1 \in 1 .. Len(queue) /\ i + 1 < j + 1
        BY <2>2, <2>5, <1>0
      <3> QED BY <2>2, <3>1, <3>2
    <2>6. ASSUME NEW j \in 1 .. Len(looper), NEW c \in Calls, At(j, c)
          PROVE  /\ exec'.call < c /\ c <= calls
                 /\ \A i \in 1 .. Len(queue') : queue'[i] < c
      BY <2>1, <2>2, <2>6, <1>0 DEF OrderInv
    <2> QED BY <2>1, <2>3, <2>4, <2>5, <2>6 DEF OrderInv
  <1>4. CASE KeepsCalls
    BY <1>4 DEF KeepsCalls, OrderInv, At
  <1>5. CASE EndsTask
    <2>1. /\ UNCHANGED <<calls, queue>> /\ exec'.call = 0
      BY <1>5 DEF EndsTask, Idle, NoCall
    <2>2. \A j, d : At(j, d)' <=> At(j, d)
      BY <1>5, ReplyMovesNoCall DEF EndsTask
    <2>3. ASSUME NEW j, NEW d, At(j, d)
          PROVE  j \in 1 .. Len(looper)
      BY <2>3 DEF At
    <2>4. \A c \in Calls : 0 < c
      BY DEF Calls
    <2>5. /\ exec'.call <= calls'
          /\ \A i \in 1 .. Len(queue') : exec'.call < queue'[i] /\ queue'[i] <= calls'
          /\ \A i, j \in 1 .. Len(queue') : i < j => queue'[i] < queue'[j]
      BY <2>1, <2>4, <1>0 DEF OrderInv
    <2>6. ASSUME NEW j \in 1 .. Len(looper'), NEW c \in Calls, At(j, c)'
          PROVE  /\ exec'.call < c /\ c <= calls'
                 /\ \A i \in 1 .. Len(queue') : queue'[i] < c
      BY <2>1, <2>2, <2>3, <2>4, <2>6, <1>0 DEF OrderInv
    <2>7. ASSUME NEW i \in 1 .. Len(looper'), NEW j \in 1 .. Len(looper'),
                 NEW c \in Calls, NEW d \in Calls, At(i, c)', At(j, d)', i < j
          PROVE  c < d
      BY <2>2, <2>3, <2>7 DEF OrderInv
    <2> QED BY <2>5, <2>6, <2>7 DEF OrderInv
  <1> QED BY <1>1, <1>2, <1>3, <1>4, <1>5, StepKinds

(* A step makes no call wait that did not.                                 *)
LEMMA WaitsShrinks ==
    ASSUME TypeOK, ShapeInv, OrderInv, [Next]_vars, NEW c \in Calls, Waits(c)'
    PROVE  Waits(c)
  <1>0. /\ calls \in Nat /\ Calls \subseteq Nat
        /\ queue \in Seq(Calls) /\ Len(queue) \in Nat
        /\ looper \in Seq(Messages) /\ Len(looper) \in Nat
    BY BridgeAssumption, LenProperties DEF ShapeInv, TypeOK, Calls
  <1>1. ASSUME NEW m \in Methods, Invoke(m)
        PROVE  Waits(c)
    <2> DEFINE msg == [type |-> "call", call |-> calls + 1]
    <2>1. /\ calls + 1 \in Calls /\ msg \in Messages
          /\ looper' = Append(looper, msg)
          /\ calls' = calls + 1 /\ UNCHANGED queue /\ msg.call = calls + 1
      BY <1>1, <1>0, BridgeAssumption
      DEF Invoke, Calls, Messages, CallMessages
    <2> HIDE DEF msg
    <2>2. /\ Len(looper') = Len(looper) + 1 /\ looper'[Len(looper) + 1] = msg
          /\ \A j \in 1 .. Len(looper) : looper'[j] = looper[j]
      BY <2>1, <1>0, AppendProperties
    <2> QED BY <2>1, <2>2, <1>0 DEF Waits, At
  <1>2. CASE Handle
    <2>1. UNCHANGED calls
      BY <1>2 DEF Handle
    <2>2. (\E j \in 1 .. Len(looper) : At(j, c))' => Waits(c)
      <3>1. ASSUME NEW j \in 1 .. Len(looper'), At(j, c)'
            PROVE  Waits(c)
        <4>1. j \in Nat
          OBVIOUS
        <4>2. At(j + 1, c)
          BY <1>2, <3>1, <4>1, HandleMoves
        <4> QED BY <4>2 DEF Waits, At
      <3> QED BY <3>1
    <2>3. CASE UNCHANGED queue
      BY <2>1, <2>2, <2>3 DEF Waits
    <2>4. ASSUME NEW e \in Calls, At(1, e), queue' = Append(queue, e)
          PROVE  Waits(c)
      <3>1. /\ Len(queue') = Len(queue) + 1 /\ queue'[Len(queue) + 1] = e
            /\ \A i \in 1 .. Len(queue) : queue'[i] = queue[i]
        BY <2>4, <1>0, AppendProperties
      <3>2. 1 \in 1 .. Len(looper)
        BY <2>4 DEF At
      <3> QED BY <2>1, <2>2, <2>4, <3>1, <3>2, <1>0 DEF Waits
    <2> QED BY <1>2, <2>3, <2>4, HandleMoves
  <1>3. CASE Take
    <2>1. /\ queue # <<>> /\ queue' = Tail(queue) /\ UNCHANGED <<calls, looper>>
      BY <1>3 DEF Take
    <2>2. /\ Len(queue) # 0 /\ Len(queue') = Len(queue) - 1
          /\ \A i \in 1 .. Len(queue') : queue'[i] = queue[i + 1]
      BY <2>1, <1>0, HeadTailProperties, EmptySeq
    <2> QED BY <2>1, <2>2, <1>0 DEF Waits, At
  <1>4. CASE KeepsCalls
    BY <1>4 DEF KeepsCalls, Waits, At
  <1>5. CASE EndsTask
    <2>1. UNCHANGED <<calls, queue>>
      BY <1>5 DEF EndsTask
    <2>2. \A j, d : At(j, d)' <=> At(j, d)
      BY <1>5, ReplyMovesNoCall DEF EndsTask
    <2> QED BY <2>1, <2>2 DEF Waits, At
  <1> QED BY <1>1, <1>2, <1>3, <1>4, <1>5, StepKinds

-----------------------------------------------------------------------------
(* The executor goes on inside its task.                                   *)
LEMMA GotoFacts ==
    ASSUME ShapeInv, NEW p \in ExecPCs \ {"idle"}, Goto(p), exec.pc # "idle"
    PROVE  /\ exec' \in [pc : ExecPCs, call : Calls \cup {NoCall}]
           /\ exec'.pc = p /\ exec'.call = exec.call /\ exec.call \in Calls
           /\ exec'.pc = "idle" <=> exec'.call = NoCall
  BY DEF ShapeInv, Goto

(* The executor ends its task with a reply.                                *)
LEMMA FinishFacts ==
    ASSUME ShapeInv, NEW r \in Replies, Finish(r), exec.pc # "idle"
    PROVE  /\ exec' \in [pc : ExecPCs, call : Calls \cup {NoCall}]
           /\ exec'.pc = "idle" /\ exec'.call = NoCall
           /\ looper' \in Seq(Messages)
  <1>1. exec.call \in Calls /\ Post(exec.call, r) /\ exec' = Idle
    BY DEF ShapeInv, Finish
  <1>2. looper' \in Seq(Messages)
    BY <1>1, ReplyMovesNoCall
  <1> QED BY <1>1, <1>2 DEF Idle, ExecPCs

(* What the platform thread does with a message.                           *)
LEMMA HandleShape ==
    ASSUME TypeOK, ShapeInv, Handle
    PROVE  /\ platform' \in [pc : PlatformPCs, call : Calls \cup {NoCall}]
           /\ platform'.pc # "idle" => platform'.call \in Calls
           /\ platform'.pc # "freed"
           /\ platform'.pc = "free" =>
                 Head(looper).type = "call" /\ HandleUnload(Head(looper).call)
  <1> DEFINE c == Head(looper).call
  <1>1. c \in Calls /\ platform.pc = "idle"
    BY HandleMoves DEF Messages, CallMessages, Handle
  <1>2. ASSUME NEW p \in {"free", "info", "stop", "dim"}, InNative(p, c)
        PROVE  /\ platform' \in [pc : PlatformPCs, call : Calls \cup {NoCall}]
               /\ platform'.pc = p /\ platform'.call \in Calls
    BY <1>1, <1>2 DEF InNative, PlatformPCs
  <1>3. CASE UNCHANGED platform
    BY <1>1, <1>3 DEF ShapeInv
  <1>4. CASE Head(looper).type = "call" /\ HandleUnload(c)
    BY <1>2, <1>3, <1>4 DEF HandleUnload
  <1>5. CASE InNative("info", c) \/ InNative("stop", c) \/ InNative("dim", c)
    BY <1>2, <1>5
  <1> HIDE DEF c
  <1>6. \/ UNCHANGED platform
        \/ Head(looper).type = "call" /\ HandleUnload(c)
        \/ InNative("info", c) \/ InNative("stop", c) \/ InNative("dim", c)
    BY DEF c, Handle, HandleTask, HandleInfo, HandleStop, HandleDim, HandleListen
  <1> USE DEF c
  <1> QED BY <1>3, <1>4, <1>5, <1>6

(* Every step keeps the shapes of the threads and of the looper.           *)
LEMMA ShapeStep ==
    ASSUME TypeOK, ShapeInv, TaskInv, [Next]_vars
    PROVE  ShapeInv'
  <1> USE DEF flow, dart, text, native, stream, gen, plugin, vars
  <1>0. /\ ExecPCs = {"idle", "initializing", "initFailed", "initDone", "backend",
                      "generating", "generated", "next", "streamEnd",
                      "embedding", "loadModel", "generate", "generateStream",
                      "getEmbedding"}
        /\ {"ok", "error"} \subseteq Replies
    BY DEF ExecPCs, OnExecutor, Replies
  <1>1. ASSUME NEW m \in Methods, Invoke(m)
        PROVE  ShapeInv'
    <2> DEFINE msg == [type |-> "call", call |-> calls + 1]
    <2>1. msg \in Messages /\ looper' = Append(looper, msg)
      BY <1>1, BridgeAssumption DEF Invoke, Calls, Messages, CallMessages, TypeOK
    <2>2. looper' \in Seq(Messages)
      BY <2>1, AppendProperties DEF ShapeInv
    <2> QED BY <1>1, <2>2 DEF Invoke, ShapeInv
  <1>2. CASE NativeFreeModel
    BY <1>2 DEF NativeFreeModel, ShapeInv, PlatformPCs
  <1>3. CASE Freed
    BY <1>3 DEF Freed, ShapeInv, PlatformPCs, Idle
  <1>4. CASE NativeGetModelInfo
    BY <1>4 DEF NativeGetModelInfo, ShapeInv, PlatformPCs, Idle
  <1>5. CASE NativeStopGeneration
    BY <1>5 DEF NativeStopGeneration, ShapeInv, PlatformPCs, Idle
  <1>6. CASE NativeGetEmbeddingDim
    BY <1>6 DEF NativeGetEmbeddingDim, ShapeInv, PlatformPCs, Idle
  <1>7. CASE Handle
    BY <1>7, HandleMoves, HandleShape DEF Handle, ShapeInv
  <1>8. CASE Take
    <2>1. queue \in Seq(Calls) /\ queue # <<>>
      BY <1>8 DEF Take, TypeOK
    <2>2. Head(queue) \in Calls /\ Head(queue) = queue[1] /\ Len(queue) \in Nat \ {0}
      BY <2>1, HeadTailProperties, EmptySeq
    <2>3. method[Head(queue)] \in OnExecutor
      BY <2>2 DEF TaskInv
    <2>4. Head(queue) # NoCall /\ method[Head(queue)] # "idle"
      BY <2>2, <2>3 DEF Calls, NoCall, OnExecutor
    <2> QED BY <1>8, <2>2, <2>3, <2>4, <1>0 DEF Take, ShapeInv, ExecPCs
  <1>9. CASE ModelNotFound
    BY <1>9, <1>0, GotoFacts, FinishFacts DEF ModelNotFound, ShapeInv
  <1>10. CASE InitModel
    BY <1>10, <1>0, GotoFacts, FinishFacts DEF InitModel, ShapeInv
  <1>11. CASE ModelInitialized
    BY <1>11, <1>0, GotoFacts, FinishFacts DEF ModelInitialized, ShapeInv
  <1>12. CASE PluginLoaded
    BY <1>12, <1>0, GotoFacts, FinishFacts DEF PluginLoaded, ShapeInv
  <1>13. CASE NativeGetActiveBackend
    BY <1>13, <1>0, GotoFacts, FinishFacts DEF NativeGetActiveBackend, ShapeInv
  <1>14. CASE Generate
    BY <1>14, <1>0, GotoFacts, FinishFacts DEF Generate, ShapeInv
  <1>15. CASE GenerateStreamInit
    BY <1>15, <1>0, GotoFacts, FinishFacts DEF GenerateStreamInit, ShapeInv
  <1>16. CASE GenerateToken
    BY <1>16, <1>0, GotoFacts, FinishFacts DEF GenerateToken, ShapeInv
  <1>17. CASE GenerateEnds
    BY <1>17, <1>0, GotoFacts, FinishFacts DEF GenerateEnds, ShapeInv
  <1>18. CASE GenerateStreamNext
    BY <1>18, <1>0, GotoFacts, FinishFacts DEF GenerateStreamNext, ShapeInv
  <1>19. CASE GenerateStreamEnd
    BY <1>19, <1>0, GotoFacts, FinishFacts DEF GenerateStreamEnd, ShapeInv
  <1>20. CASE GetEmbedding
    BY <1>20, <1>0, GotoFacts, FinishFacts DEF GetEmbedding, ShapeInv
  <1>21. ASSUME NEW r \in {"ok", "error"}, EmbeddingDone(r)
        PROVE  ShapeInv'
    BY <1>21, <1>0, GotoFacts, FinishFacts DEF EmbeddingDone, ShapeInv
  <1>22. CASE Done \/ UNCHANGED vars
    BY <1>22 DEF Done, ShapeInv
  <1> QED BY <1>1, <1>2, <1>3, <1>4, <1>5, <1>6, <1>7, <1>8, <1>9, <1>10,
             <1>11, <1>12, <1>13, <1>14, <1>15, <1>16, <1>17, <1>18, <1>19,
             <1>20, <1>21, <1>22 DEF Next, Platform, Executor

(* The executor takes the first task of its queue.                         *)
LEMMA TakeFacts ==
    ASSUME TypeOK, TaskInv, Take
    PROVE  /\ exec'.call = queue[1] /\ queue[1] \in Calls
           /\ exec'.pc = method[queue[1]] /\ method[queue[1]] \in OnExecutor
           /\ exec.pc = "idle" /\ Len(queue) \in Nat \ {0}
           /\ queue' \in Seq(Calls) /\ Len(queue') = Len(queue) - 1
           /\ \A i \in 1 .. Len(queue') :
                 i + 1 \in 1 .. Len(queue) /\ queue'[i] = queue[i + 1]
  <1>1. queue \in Seq(Calls) /\ queue # <<>> /\ queue' = Tail(queue)
    BY DEF Take, TypeOK
  <1>2. /\ Head(queue) = queue[1] /\ Head(queue) \in Calls
        /\ Len(queue) \in Nat \ {0} /\ queue' \in Seq(Calls)
        /\ Len(queue') = Len(queue) - 1
        /\ \A i \in 1 .. Len(queue') : queue'[i] = queue[i + 1]
    BY <1>1, HeadTailProperties, EmptySeq
  <1>3. method[queue[1]] \in OnExecutor
    BY <1>2 DEF TaskInv
  <1> QED BY <1>2, <1>3 DEF Take

(* The executor only runs tasks of its methods.                            *)
LEMMA TaskStep ==
    ASSUME TypeOK, ShapeInv, OrderInv, TaskInv, [Next]_vars
    PROVE  TaskInv'
  <1> USE DEF flow, dart, text, native, stream, gen, plugin, vars
  <1>0. /\ ExecPCs = {"idle", "initializing", "initFailed", "initDone", "backend",
                      "generating", "generated", "next", "streamEnd",
                      "embedding", "loadModel", "generate", "generateStream",
                      "getEmbedding"}
        /\ OnExecutor = {"loadModel", "generate", "generateStream", "getEmbedding"}
        /\ {"ok", "error"} \subseteq Replies
    BY DEF ExecPCs, OnExecutor, Replies
  <1>1. ASSUME NEW m \in Methods, Invoke(m)
        PROVE  TaskInv'
    <2>1. /\ calls + 1 \in Calls /\ method' = [method EXCEPT ![calls + 1] = m]
          /\ method \in [Calls -> Methods \cup {"none"}]
          /\ UNCHANGED <<queue, exec>> /\ calls \in Nat
      BY <1>1, BridgeAssumption DEF Invoke, Calls, TypeOK
    <2>2. ASSUME NEW c, c <= calls, c \in Calls
          PROVE  method'[c] = method[c]
      <3>1. c # calls + 1
        BY <2>1, <2>2, BridgeAssumption DEF Calls
      <3> QED BY <2>1, <2>2, <3>1
    <2>3. \A i \in 1 .. Len(queue) : queue[i] \in Calls /\ queue[i] <= calls
      BY ElementOfSeq DEF TypeOK, OrderInv
    <2>4. exec.pc # "idle" => exec.call \in Calls /\ exec.call <= calls
      BY DEF ShapeInv, OrderInv
    <2> QED BY <2>1, <2>2, <2>3, <2>4 DEF TaskInv
  <1>2. CASE NativeFreeModel
    BY <1>2 DEF NativeFreeModel, TaskInv
  <1>3. CASE Freed
    BY <1>3 DEF Freed, TaskInv
  <1>4. CASE NativeGetModelInfo
    BY <1>4 DEF NativeGetModelInfo, TaskInv
  <1>5. CASE NativeStopGeneration
    BY <1>5 DEF NativeStopGeneration, TaskInv
  <1>6. CASE NativeGetEmbeddingDim
    BY <1>6 DEF NativeGetEmbeddingDim, TaskInv
  <1>7. CASE Handle
    <2>1. UNCHANGED <<exec, method>> /\ queue \in Seq(Calls)
      BY <1>7 DEF Handle, TypeOK
    <2>2. CASE UNCHANGED queue
      BY <2>1, <2>2 DEF TaskInv
    <2>3. ASSUME NEW c \in Calls, method[c] \in OnExecutor, queue' = Append(queue, c)
          PROVE  \A i \in 1 .. Len(queue') : method'[queue'[i]] \in OnExecutor
      <3>1. /\ Len(queue') = Len(queue) + 1 /\ queue'[Len(queue) + 1] = c
            /\ \A i \in 1 .. Len(queue) : queue'[i] = queue[i]
            /\ Len(queue) \in Nat
        BY <2>1, <2>3, AppendProperties, LenProperties
      <3> QED BY <2>1, <2>3, <3>1 DEF TaskInv
    <2> QED BY <1>7, <2>1, <2>2, <2>3, HandleMoves DEF TaskInv
  <1>8. CASE Take
    <2>1. \A i \in 1 .. Len(queue') : method'[queue'[i]] \in OnExecutor
      BY <1>8, TakeFacts DEF Take, TaskInv
    <2> QED BY <1>8, <2>1, <1>0, TakeFacts DEF Take, TaskInv
  <1>9. CASE ModelNotFound
    BY <1>9, <1>0, GotoFacts, FinishFacts DEF ModelNotFound, TaskInv
  <1>10. CASE InitModel
    BY <1>10, <1>0, GotoFacts, FinishFacts DEF InitModel, TaskInv
  <1>11. CASE ModelInitialized
    BY <1>11, <1>0, GotoFacts, FinishFacts DEF ModelInitialized, TaskInv
  <1>12. CASE PluginLoaded
    BY <1>12, <1>0, GotoFacts, FinishFacts DEF PluginLoaded, TaskInv
  <1>13. CASE NativeGetActiveBackend
    BY <1>13, <1>0, GotoFacts, FinishFacts DEF NativeGetActiveBackend, TaskInv
  <1>14. CASE Generate
    BY <1>14, <1>0, GotoFacts, FinishFacts DEF Generate, TaskInv
  <1>15. CASE GenerateStreamInit
    BY <1>15, <1>0, GotoFacts, FinishFacts DEF GenerateStreamInit, TaskInv
  <1>16. CASE GenerateToken
    BY <1>16, <1>0, GotoFacts, FinishFacts DEF GenerateToken, TaskInv
  <1>17. CASE GenerateEnds
    BY <1>17, <1>0, GotoFacts, FinishFacts DEF GenerateEnds, TaskInv, Streaming
  <1>18. CASE GenerateStreamNext
    BY <1>18, <1>0, GotoFacts, FinishFacts DEF GenerateStreamNext, TaskInv
  <1>19. CASE GenerateStreamEnd
    BY <1>19, <1>0, GotoFacts, FinishFacts DEF GenerateStreamEnd, TaskInv
  <1>20. CASE GetEmbedding
    BY <1>20, <1>0, GotoFacts, FinishFacts DEF GetEmbedding, TaskInv
  <1>21. ASSUME NEW r \in {"ok", "error"}, EmbeddingDone(r)
        PROVE  TaskInv'
    BY <1>21, <1>0, GotoFacts, FinishFacts DEF EmbeddingDone, TaskInv
  <1>22. CASE Done \/ UNCHANGED vars
    BY <1>22 DEF Done, TaskInv
  <1> QED BY <1>1, <1>2, <1>3, <1>4, <1>5, <1>6, <1>7, <1>8, <1>9, <1>10,
             <1>11, <1>12, <1>13, <1>14, <1>15, <1>16, <1>17, <1>18, <1>19,
             <1>20, <1>21, <1>22 DEF Next, Platform, Executor

(* Who holds the mutex is seen from the executor.                          *)
LEMMA MutexStep ==
    ASSUME TypeOK, ShapeInv, TaskInv, MutexInv, [Next]_vars
    PROVE  MutexInv'
  <1> USE DEF flow, dart, text, native, stream, gen, plugin, vars
  <1>0. /\ ExecPCs = {"idle", "initializing", "initFailed", "initDone", "backend",
                      "generating", "generated", "next", "streamEnd",
                      "embedding", "loadModel", "generate", "generateStream",
                      "getEmbedding"}
        /\ OnExecutor = {"loadModel", "generate", "generateStream", "getEmbedding"}
        /\ {"ok", "error"} \subseteq Replies
    BY DEF ExecPCs, OnExecutor, Replies
  <1>1. ASSUME NEW m \in Methods, Invoke(m)
        PROVE  MutexInv'
    BY <1>1 DEF Invoke, MutexInv
  <1>2. CASE NativeFreeModel
    BY <1>2 DEF NativeFreeModel, MutexInv
  <1>3. CASE Freed
    BY <1>3 DEF Freed, MutexInv
  <1>4. CASE NativeGetModelInfo
    BY <1>4 DEF NativeGetModelInfo, MutexInv
  <1>5. CASE NativeStopGeneration
    BY <1>5 DEF NativeStopGeneration, MutexInv
  <1>6. CASE NativeGetEmbeddingDim
    BY <1>6 DEF NativeGetEmbeddingDim, MutexInv
  <1>7. CASE Handle
    BY <1>7 DEF Handle, MutexInv
  <1>8. CASE Take
    BY <1>8, <1>0, TakeFacts DEF Take, MutexInv
  <1>9. CASE ModelNotFound
    BY <1>9, <1>0, GotoFacts, FinishFacts DEF ModelNotFound, MutexInv
  <1>10. CASE InitModel
    BY <1>10, <1>0, GotoFacts, FinishFacts DEF InitModel, MutexInv
  <1>11. CASE ModelInitialized
    BY <1>11, <1>0, GotoFacts, FinishFacts DEF ModelInitialized, MutexInv
  <1>12. CASE PluginLoaded
    BY <1>12, <1>0, GotoFacts, FinishFacts DEF PluginLoaded, MutexInv
  <1>13. CASE NativeGetActiveBackend
    BY <1>13, <1>0, GotoFacts, FinishFacts DEF NativeGetActiveBackend, MutexInv
  <1>14. CASE Generate
    BY <1>14, <1>0, GotoFacts, FinishFacts DEF Generate, MutexInv
  <1>15. CASE GenerateStreamInit
    BY <1>15, <1>0, GotoFacts, FinishFacts DEF GenerateStreamInit, MutexInv
  <1>16. CASE GenerateToken
    BY <1>16, <1>0, GotoFacts, FinishFacts DEF GenerateToken, MutexInv
  <1>17. CASE GenerateEnds
    BY <1>17, <1>0, GotoFacts, FinishFacts DEF GenerateEnds, MutexInv
  <1>18. CASE GenerateStreamNext
    BY <1>18, <1>0, GotoFacts, FinishFacts DEF GenerateStreamNext, MutexInv
  <1>19. CASE GenerateStreamEnd
    BY <1>19, <1>0, GotoFacts, FinishFacts DEF GenerateStreamEnd, MutexInv
  <1>20. CASE GetEmbedding
    BY <1>20, <1>0, GotoFacts, FinishFacts DEF GetEmbedding, MutexInv
  <1>21. ASSUME NEW r \in {"ok", "error"}, EmbeddingDone(r)
        PROVE  MutexInv'
    BY <1>21, <1>0, GotoFacts, FinishFacts DEF EmbeddingDone, MutexInv
  <1>22. CASE Done \/ UNCHANGED vars
    BY <1>22 DEF Done, MutexInv
  <1> QED BY <1>1, <1>2, <1>3, <1>4, <1>5, <1>6, <1>7, <1>8, <1>9, <1>10,
             <1>11, <1>12, <1>13, <1>14, <1>15, <1>16, <1>17, <1>18, <1>19,
             <1>20, <1>21, <1>22 DEF Next, Platform, Executor

(* The model in memory, its context and its vocabulary.                    *)
LEMMA ModelStep ==
    ASSUME TypeOK, ShapeInv, TaskInv, MutexInv, ModelInv, [Next]_vars
    PROVE  ModelInv'
  <1> USE DEF flow, dart, text, native, stream, gen, plugin, vars
  <1>0. /\ ExecPCs = {"idle", "initializing", "initFailed", "initDone", "backend",
                      "generating", "generated", "next", "streamEnd",
                      "embedding", "loadModel", "generate", "generateStream",
                      "getEmbedding"}
        /\ OnExecutor = {"loadModel", "generate", "generateStream", "getEmbedding"}
        /\ {"ok", "error"} \subseteq Replies
    BY DEF ExecPCs, OnExecutor, Replies
  <1>1. ASSUME NEW m \in Methods, Invoke(m)
        PROVE  ModelInv'
    BY <1>1 DEF Invoke, ModelInv
  <1>2. CASE NativeFreeModel
    BY <1>2 DEF NativeFreeModel, ModelInv, MutexInv
  <1>3. CASE Freed
    BY <1>3 DEF Freed, ModelInv
  <1>4. CASE NativeGetModelInfo
    BY <1>4 DEF NativeGetModelInfo, ModelInv
  <1>5. CASE NativeStopGeneration
    BY <1>5 DEF NativeStopGeneration, ModelInv
  <1>6. CASE NativeGetEmbeddingDim
    BY <1>6 DEF NativeGetEmbeddingDim, ModelInv
  <1>7. CASE Handle
    BY <1>7 DEF Handle, ModelInv
  <1>8. CASE Take
    BY <1>8, <1>0, TakeFacts DEF Take, ModelInv
  <1>9. CASE ModelNotFound
    BY <1>9, <1>0, GotoFacts, FinishFacts DEF ModelNotFound, ModelInv
  <1>10. CASE InitModel
    BY <1>10, <1>0, GotoFacts, FinishFacts DEF InitModel, ModelInv
  <1>11. CASE ModelInitialized
    <2>1. loads + 1 # Null
      BY DEF TypeOK, Null
    <2> QED BY <1>11, <2>1, <1>0, GotoFacts DEF ModelInitialized, ModelInv
  <1>12. CASE PluginLoaded
    BY <1>12, <1>0, GotoFacts, FinishFacts DEF PluginLoaded, ModelInv
  <1>13. CASE NativeGetActiveBackend
    BY <1>13, <1>0, GotoFacts, FinishFacts DEF NativeGetActiveBackend, ModelInv
  <1>14. CASE Generate
    BY <1>14, <1>0, GotoFacts, FinishFacts DEF Generate, Ready, ModelInv
  <1>15. CASE GenerateStreamInit
    BY <1>15, <1>0, GotoFacts DEF GenerateStreamInit, Ready, ModelInv
  <1>16. CASE GenerateToken
    BY <1>16, <1>0, GotoFacts, FinishFacts DEF GenerateToken, ModelInv
  <1>17. CASE GenerateEnds
    BY <1>17, <1>0, GotoFacts, FinishFacts DEF GenerateEnds, ModelInv
  <1>18. CASE GenerateStreamNext
    BY <1>18, <1>0, GotoFacts, FinishFacts DEF GenerateStreamNext, ModelInv
  <1>19. CASE GenerateStreamEnd
    BY <1>19, <1>0, GotoFacts, FinishFacts DEF GenerateStreamEnd, ModelInv
  <1>20. CASE GetEmbedding
    BY <1>20, <1>0, GotoFacts, FinishFacts DEF GetEmbedding, ModelInv
  <1>21. ASSUME NEW r \in {"ok", "error"}, EmbeddingDone(r)
        PROVE  ModelInv'
    BY <1>21, <1>0, GotoFacts, FinishFacts DEF EmbeddingDone, ModelInv
  <1>22. CASE Done \/ UNCHANGED vars
    BY <1>22 DEF Done, ModelInv
  <1> QED BY <1>1, <1>2, <1>3, <1>4, <1>5, <1>6, <1>7, <1>8, <1>9, <1>10,
             <1>11, <1>12, <1>13, <1>14, <1>15, <1>16, <1>17, <1>18, <1>19,
             <1>20, <1>21, <1>22 DEF Next, Platform, Executor

(* A call that waits stays fresh.                                          *)
LEMMA FreshStep ==
    ASSUME TypeOK, ShapeInv, OrderInv, FreshInv, OnceInv, [Next]_vars
    PROVE  FreshInv'
  <1> USE DEF flow, dart, text, native, stream, gen, plugin, vars
  <1>1. calls \in Nat /\ calls' \in Nat /\ calls <= calls' /\ loads \in Nat
    <2>1. calls \in Nat /\ loads \in Nat
      BY DEF TypeOK
    <2>2. (\E m \in Methods : Invoke(m)) => calls' = calls + 1
      BY DEF Invoke
    <2>3. Handle \/ Take \/ KeepsCalls \/ EndsTask => calls' = calls
      BY DEF Handle, Take, KeepsCalls, EndsTask
    <2> QED BY <2>1, <2>2, <2>3, StepKinds
  <1>2. ASSUME NEW c \in Calls, Waits(c)'
        PROVE  /\ c # exec.call /\ exec.call < c /\ loads < c
               /\ answer[c] = 0 /\ streamed[c] = <<>>
    <2>1. Waits(c)
      BY <1>2, WaitsShrinks
    <2>2. exec.call < c
      BY <2>1, WaitsIsLater
    <2>3. c # exec.call
      BY <2>2 DEF Calls
    <2> QED BY <2>1, <2>2, <2>3 DEF FreshInv
  <1>3. CASE UNCHANGED <<loads, answer, streamed>>
    BY <1>1, <1>2, <1>3 DEF FreshInv
  <1>4. CASE ModelInitialized
    <2>1. /\ loads' = loads + 1 /\ loads < exec.call /\ exec.call <= calls
          /\ UNCHANGED <<answer, streamed>> /\ exec.call \in Nat
      BY <1>4 DEF ModelInitialized, OnceInv, OrderInv, ShapeInv, Calls, NoCall
    <2>2. \A c \in Calls : c \in Nat
      BY DEF Calls
    <2> QED BY <1>1, <1>2, <2>1, <2>2 DEF FreshInv
  <1>5. CASE GenerateToken
    <2>1. UNCHANGED <<loads, streamed>> /\ exec.call \in Calls
          /\ answer' = [answer EXCEPT ![exec.call] = @ + 1]
      BY <1>5 DEF GenerateToken, ShapeInv
    <2>2. \A c \in Calls : c # exec.call => answer'[c] = answer[c]
      BY <2>1 DEF TypeOK
    <2> QED BY <1>1, <1>2, <2>1, <2>2 DEF FreshInv
  <1>6. CASE GenerateStreamNext
    <2>1. UNCHANGED <<loads, answer>>
      BY <1>6 DEF GenerateStreamNext
    <2>2. \A c \in Calls : c # exec.call => streamed'[c] = streamed[c]
      BY <1>6 DEF GenerateStreamNext, TypeOK
    <2> QED BY <1>1, <1>2, <2>1, <2>2 DEF FreshInv
  <1>7. \/ UNCHANGED <<loads, answer, streamed>>
        \/ ModelInitialized \/ GenerateToken \/ GenerateStreamNext
    <2>1. (\E m \in Methods : Invoke(m)) \/ Handle \/ Take =>
              UNCHANGED <<loads, answer, streamed>>
      BY DEF Invoke, Handle, Take
    <2>2. NativeFreeModel \/ Freed \/ NativeGetModelInfo \/ NativeStopGeneration
          \/ NativeGetEmbeddingDim \/ Done \/ UNCHANGED vars =>
              UNCHANGED <<loads, answer, streamed>>
      BY DEF NativeFreeModel, Freed, NativeGetModelInfo, NativeStopGeneration,
             NativeGetEmbeddingDim, Done
    <2>3. ModelNotFound \/ InitModel \/ PluginLoaded \/ NativeGetActiveBackend
          \/ Generate \/ GenerateStreamInit =>
              UNCHANGED <<loads, answer, streamed>>
      BY DEF ModelNotFound, InitModel, PluginLoaded, NativeGetActiveBackend,
             Generate, GenerateStreamInit
    <2>4. GenerateEnds \/ GenerateStreamEnd \/ GetEmbedding
          \/ (\E r \in {"ok", "error"} : EmbeddingDone(r)) =>
              UNCHANGED <<loads, answer, streamed>>
      BY DEF GenerateEnds, GenerateStreamEnd, GetEmbedding, EmbeddingDone
    <2> QED BY <2>1, <2>2, <2>3, <2>4 DEF Next, Platform, Executor
  <1> QED BY <1>3, <1>4, <1>5, <1>6, <1>7

(* The executor does a task once.                                         *)
LEMMA OnceStep ==
    ASSUME TypeOK, ShapeInv, OrderInv, TaskInv, FreshInv, OnceInv, [Next]_vars
    PROVE  OnceInv'
  <1> USE DEF flow, dart, text, native, stream, gen, plugin, vars
  <1>0. /\ ExecPCs = {"idle", "initializing", "initFailed", "initDone", "backend",
                      "generating", "generated", "next", "streamEnd",
                      "embedding", "loadModel", "generate", "generateStream",
                      "getEmbedding"}
        /\ OnExecutor = {"loadModel", "generate", "generateStream", "getEmbedding"}
        /\ {"ok", "error"} \subseteq Replies
    BY DEF ExecPCs, OnExecutor, Replies
  <1>1. ASSUME NEW m \in Methods, Invoke(m)
        PROVE  OnceInv'
    BY <1>1 DEF Invoke, OnceInv
  <1>2. CASE NativeFreeModel
    BY <1>2 DEF NativeFreeModel, OnceInv
  <1>3. CASE Freed
    BY <1>3 DEF Freed, OnceInv
  <1>4. CASE NativeGetModelInfo
    BY <1>4 DEF NativeGetModelInfo, OnceInv
  <1>5. CASE NativeStopGeneration
    BY <1>5 DEF NativeStopGeneration, OnceInv
  <1>6. CASE NativeGetEmbeddingDim
    BY <1>6 DEF NativeGetEmbeddingDim, OnceInv
  <1>7. CASE Handle
    BY <1>7 DEF Handle, OnceInv
  <1>8. CASE Take
    <2>1. Waits(queue[1])
      BY <1>8, TakeFacts DEF Waits
    <2>2. loads < queue[1] /\ answer[queue[1]] = 0 /\ streamed[queue[1]] = <<>>
      BY <1>8, <2>1, TakeFacts DEF FreshInv
    <2>3. loads <= queue[1]
      BY <1>8, <2>2, TakeFacts DEF TypeOK, Calls
    <2> QED BY <1>8, <2>2, <2>3, <1>0, TakeFacts DEF Take, OnceInv
  <1>9. CASE ModelNotFound
    BY <1>9, <1>0, GotoFacts, FinishFacts DEF ModelNotFound, OnceInv
  <1>10. CASE InitModel
    BY <1>10, <1>0, GotoFacts, FinishFacts DEF InitModel, OnceInv
  <1>11. CASE ModelInitialized
    <2>1. loads + 1 <= exec.call
      BY <1>11 DEF ModelInitialized, OnceInv, ShapeInv, TypeOK, Calls, NoCall
    <2> QED BY <1>11, <2>1, <1>0, GotoFacts DEF ModelInitialized, OnceInv
  <1>12. CASE PluginLoaded
    BY <1>12, <1>0, GotoFacts, FinishFacts DEF PluginLoaded, OnceInv
  <1>13. CASE NativeGetActiveBackend
    BY <1>13, <1>0, GotoFacts, FinishFacts DEF NativeGetActiveBackend, OnceInv
  <1>14. CASE Generate
    BY <1>14, <1>0, GotoFacts, FinishFacts DEF Generate, OnceInv
  <1>15. CASE GenerateStreamInit
    BY <1>15, <1>0, GotoFacts, FinishFacts DEF GenerateStreamInit, OnceInv
  <1>16. CASE GenerateToken
    <2>1. /\ exec.call \in Calls /\ exec'.call = exec.call
          /\ exec'.pc \in {"generating", "generated"} /\ n' = n + 1
          /\ UNCHANGED <<loads, streamed>>
      BY <1>16, <1>0, GotoFacts DEF GenerateToken, ShapeInv
    <2>2. answer'[exec.call] = answer[exec.call] + 1
      BY <1>16, <2>1 DEF GenerateToken, TypeOK
    <2> QED BY <1>16, <2>1, <2>2, <1>0 DEF GenerateToken, OnceInv
  <1>17. CASE GenerateEnds
    BY <1>17, <1>0, GotoFacts, FinishFacts DEF GenerateEnds, OnceInv
  <1>18. CASE GenerateStreamNext
    BY <1>18, <1>0, GotoFacts, FinishFacts DEF GenerateStreamNext, OnceInv
  <1>19. CASE GenerateStreamEnd
    BY <1>19, <1>0, GotoFacts, FinishFacts DEF GenerateStreamEnd, OnceInv
  <1>20. CASE GetEmbedding
    BY <1>20, <1>0, GotoFacts, FinishFacts DEF GetEmbedding, OnceInv
  <1>21. ASSUME NEW r \in {"ok", "error"}, EmbeddingDone(r)
        PROVE  OnceInv'
    BY <1>21, <1>0, GotoFacts, FinishFacts DEF EmbeddingDone, OnceInv
  <1>22. CASE Done \/ UNCHANGED vars
    BY <1>22 DEF Done, OnceInv
  <1> QED BY <1>1, <1>2, <1>3, <1>4, <1>5, <1>6, <1>7, <1>8, <1>9, <1>10,
             <1>11, <1>12, <1>13, <1>14, <1>15, <1>16, <1>17, <1>18, <1>19,
             <1>20, <1>21, <1>22 DEF Next, Platform, Executor

(* The tokens of a stream stay its own.                                    *)
LEMMA StreamStep ==
    ASSUME TypeOK, ShapeInv, OrderInv, TaskInv, FreshInv,
           OnceInv, StreamInv, [Next]_vars
    PROVE  StreamInv'
  <1> USE DEF flow, dart, text, native, stream, gen, plugin, vars
  <1>0. /\ ExecPCs = {"idle", "initializing", "initFailed", "initDone", "backend",
                      "generating", "generated", "next", "streamEnd",
                      "embedding", "loadModel", "generate", "generateStream",
                      "getEmbedding"}
        /\ OnExecutor = {"loadModel", "generate", "generateStream", "getEmbedding"}
        /\ {"ok", "error"} \subseteq Replies
    BY DEF ExecPCs, OnExecutor, Replies
  <1>1. ASSUME NEW m \in Methods, Invoke(m)
        PROVE  StreamInv'
    <2>1. InStream' <=> InStream
      <3>1. exec.pc # "idle" => exec.call \in Calls /\ exec.call <= calls
        BY DEF ShapeInv, OrderInv
      <3>2. exec.pc # "idle" => method'[exec.call] = method[exec.call]
        BY <1>1, <3>1 DEF Invoke, TypeOK, Calls
      <3> QED BY <1>1, <3>2 DEF Invoke, InStream, Streaming
    <2> QED BY <1>1, <2>1 DEF Invoke, StreamInv
  <1>2. CASE NativeFreeModel
    BY <1>2 DEF NativeFreeModel, InStream, Streaming, StreamInv
  <1>3. CASE Freed
    BY <1>3 DEF Freed, InStream, Streaming, StreamInv
  <1>4. CASE NativeGetModelInfo
    BY <1>4 DEF NativeGetModelInfo, InStream, Streaming, StreamInv
  <1>5. CASE NativeStopGeneration
    BY <1>5 DEF NativeStopGeneration, InStream, Streaming, StreamInv
  <1>6. CASE NativeGetEmbeddingDim
    BY <1>6 DEF NativeGetEmbeddingDim, InStream, Streaming, StreamInv
  <1>7. CASE Handle
    BY <1>7 DEF Handle, InStream, Streaming, StreamInv
  <1>8. CASE Take
    BY <1>8, <1>0, TakeFacts DEF Take, InStream, StreamInv
  <1>9. CASE ModelNotFound
    BY <1>9, <1>0, GotoFacts, FinishFacts DEF ModelNotFound, InStream,
        Streaming, StreamInv
  <1>10. CASE InitModel
    BY <1>10, <1>0, GotoFacts, FinishFacts DEF InitModel, InStream, Streaming,
        StreamInv
  <1>11. CASE ModelInitialized
    BY <1>11, <1>0, GotoFacts, FinishFacts DEF ModelInitialized, InStream,
        Streaming, StreamInv
  <1>12. CASE PluginLoaded
    BY <1>12, <1>0, GotoFacts, FinishFacts DEF PluginLoaded, InStream, Streaming,
        StreamInv
  <1>13. CASE NativeGetActiveBackend
    BY <1>13, <1>0, GotoFacts, FinishFacts DEF NativeGetActiveBackend, InStream,
        Streaming, StreamInv
  <1>14. CASE Generate
    <2>1. ~InStream /\ g_stream_tokens = <<>> /\ g_stream_pos = 0
      BY <1>14 DEF Generate, InStream, StreamInv, TypeOK
    <2>2. ~InStream' /\ UNCHANGED <<stream, answer>>
      BY <1>14, <1>0, GotoFacts, FinishFacts
      DEF Generate, TaskInv, InStream, Streaming
    <2> QED BY <2>1, <2>2 DEF StreamInv
  <1>15. CASE GenerateStreamInit
    <2>1. /\ exec'.pc \in {"next", "generating"} /\ exec'.call = exec.call
          /\ exec.call \in Calls /\ InStream' /\ ~InStream
          /\ UNCHANGED <<streamed, answer>>
      BY <1>15, <1>0, GotoFacts
      DEF GenerateStreamInit, TaskInv, InStream, Streaming
    <2>2. answer[exec.call] = 0 /\ streamed[exec.call] = <<>>
      BY <1>15, <1>0 DEF GenerateStreamInit, OnceInv
    <2>3. g_stream_tokens' = <<>> /\ g_stream_pos' = 0
      BY <1>15, <2>1 DEF GenerateStreamInit, StreamInv, TypeOK
    <2> QED BY <2>1, <2>2, <2>3 DEF StreamInv
  <1>16. CASE GenerateToken
    <2>1. /\ exec.call \in Calls /\ exec'.call = exec.call
          /\ exec'.pc \in {"generating", "generated"}
          /\ UNCHANGED <<streamed, g_stream_pos, method>>
          /\ InStream' <=> Streaming
          /\ InStream <=> Streaming
      BY <1>16, <1>0, GotoFacts DEF GenerateToken, ShapeInv, InStream, Streaming
    <2>2. /\ answer'[exec.call] = answer[exec.call] + 1
          /\ \A c \in Calls : answer'[c] \in Nat /\ answer[c] \in Nat
                              /\ answer[c] <= answer'[c]
      <3>1. /\ answer' = [answer EXCEPT ![exec.call] = answer[exec.call] + 1]
            /\ answer \in [Calls -> Nat]
        BY <1>16, BridgeAssumption DEF GenerateToken, TypeOK
      <3> QED BY <2>1, <3>1
    <2>3. CASE ~Streaming
      <3>1. UNCHANGED g_stream_tokens /\ g_stream_pos = 0
        BY <1>16, <2>3 DEF GenerateToken, StreamInv
      <3>2. \A c \in Calls : Len(streamed[c]) \in Nat
        BY LenProperties DEF TypeOK
      <3>3. \A c \in Calls : Len(streamed'[c]) <= answer'[c]
        BY <2>1, <2>2, <3>2 DEF StreamInv
      <3> QED BY <2>1, <2>3, <3>1, <3>3 DEF StreamInv
    <2>4. CASE Streaming
      <3>1. /\ g_stream_tokens' = Append(g_stream_tokens, exec.call)
            /\ g_stream_tokens \in Seq(Calls) /\ Len(g_stream_tokens) \in Nat
        BY <1>16, <2>4, LenProperties DEF GenerateToken, TypeOK
      <3>2. /\ Len(g_stream_tokens') = Len(g_stream_tokens) + 1
            /\ g_stream_tokens'[Len(g_stream_tokens) + 1] = exec.call
            /\ \A i \in 1 .. Len(g_stream_tokens) :
                   g_stream_tokens'[i] = g_stream_tokens[i]
        BY <2>1, <3>1, AppendProperties
      <3>3. \A i \in 1 .. Len(g_stream_tokens') : g_stream_tokens'[i] = exec.call
        BY <2>1, <2>4, <3>1, <3>2 DEF StreamInv
      <3>4. Len(g_stream_tokens') <= answer'[exec.call]
        BY <2>1, <2>2, <2>4, <3>1, <3>2 DEF StreamInv
      <3>5. \A c \in Calls : Len(streamed'[c]) <= answer'[c]
        <4>1. \A c \in Calls : Len(streamed[c]) \in Nat
          BY LenProperties DEF TypeOK
        <4> QED BY <2>1, <2>2, <4>1 DEF StreamInv
      <3> QED BY <1>16, <2>1, <2>4, <3>3, <3>4, <3>5 DEF GenerateToken, StreamInv
    <2> QED BY <2>3, <2>4
  <1>17. CASE GenerateEnds
    BY <1>17, <1>0, GotoFacts, FinishFacts
    DEF GenerateEnds, TaskInv, InStream, Streaming, StreamInv
  <1>18. CASE GenerateStreamNext
    <2>1. /\ exec.call \in Calls /\ exec'.call = exec.call
          /\ exec'.pc \in {"next", "streamEnd"} /\ InStream /\ InStream'
          /\ UNCHANGED <<answer, g_stream_tokens>>
      BY <1>18, <1>0, GotoFacts DEF GenerateStreamNext, ShapeInv, InStream
    <2>2. CASE UNCHANGED <<g_stream_pos, streamed>>
      BY <2>1, <2>2 DEF StreamInv
    <2>3. CASE /\ g_stream_pos < Len(g_stream_tokens)
               /\ g_stream_pos' = g_stream_pos + 1
               /\ streamed' = [streamed EXCEPT ![exec.call] =
                                  Append(@, g_stream_tokens[g_stream_pos + 1])]
      <3> DEFINE s == streamed[exec.call]
      <3>1. /\ s \in Seq(Calls) /\ Len(s) \in Nat /\ g_stream_pos \in Nat
            /\ Len(g_stream_tokens) \in Nat
        BY <2>1, LenProperties DEF TypeOK
      <3>2. /\ g_stream_tokens[g_stream_pos + 1] = exec.call
            /\ Len(s) = g_stream_pos
            /\ Len(g_stream_tokens) <= answer[exec.call]
        BY <2>1, <2>3, <3>1 DEF StreamInv
      <3>3. streamed'[exec.call] = Append(s, exec.call)
        BY <2>1, <2>3, <3>2 DEF TypeOK
      <3>4. /\ Len(streamed'[exec.call]) = g_stream_pos + 1
            /\ \A i \in 1 .. g_stream_pos + 1 : streamed'[exec.call][i] = exec.call
        <4>1. /\ Len(Append(s, exec.call)) = Len(s) + 1
              /\ Append(s, exec.call)[Len(s) + 1] = exec.call
              /\ \A i \in 1 .. Len(s) : Append(s, exec.call)[i] = s[i]
          BY <2>1, <3>1, AppendProperties
        <4>2. \A i \in 1 .. Len(s) : s[i] = exec.call
          BY <2>1 DEF StreamInv
        <4> QED BY <3>1, <3>2, <3>3, <4>1, <4>2
      <3>5. Len(streamed'[exec.call]) <= answer'[exec.call]
        <4>1. answer[exec.call] \in Nat
          BY <2>1, BridgeAssumption DEF TypeOK
        <4> QED BY <2>1, <2>3, <3>1, <3>2, <3>4, <4>1
      <3>6. \A c \in Calls : c # exec.call => streamed'[c] = streamed[c]
        BY <2>3 DEF TypeOK
      <3>7. ASSUME NEW c \in Calls
            PROVE  /\ \A i \in 1 .. Len(streamed'[c]) : streamed'[c][i] = c
                   /\ Len(streamed'[c]) <= answer'[c]
        BY <2>1, <3>4, <3>5, <3>6 DEF StreamInv
      <3> QED BY <2>1, <2>3, <3>2, <3>4, <3>7 DEF StreamInv
    <2> QED BY <1>18, <2>2, <2>3 DEF GenerateStreamNext
  <1>19. CASE GenerateStreamEnd
    BY <1>19, <1>0, FinishFacts DEF GenerateStreamEnd, InStream, StreamInv
  <1>20. CASE GetEmbedding
    BY <1>20, <1>0, GotoFacts, FinishFacts DEF GetEmbedding, InStream, Streaming,
        StreamInv
  <1>21. ASSUME NEW r \in {"ok", "error"}, EmbeddingDone(r)
        PROVE  StreamInv'
    BY <1>21, <1>0, GotoFacts, FinishFacts DEF EmbeddingDone, InStream,
        Streaming, StreamInv
  <1>22. CASE Done \/ UNCHANGED vars
    BY <1>22 DEF Done, InStream, Streaming, StreamInv
  <1> QED BY <1>1, <1>2, <1>3, <1>4, <1>5, <1>6, <1>7, <1>8, <1>9, <1>10,
             <1>11, <1>12, <1>13, <1>14, <1>15, <1>16, <1>17, <1>18, <1>19,
             <1>20, <1>21, <1>22 DEF Next, Platform, Executor

(* Only the platform thread puts a load under way.                         *)
LEMMA LoadingShrinks ==
    ASSUME TypeOK, ShapeInv, OrderInv, TaskInv, [Next]_vars,
           platform.pc # "idle", Loading'
    PROVE  Loading
  <1>1. PICK c \in Calls : /\ method'[c] = "loadModel"
                           /\ \/ \E i \in 1 .. Len(queue') : queue'[i] = c
                              \/ c = exec'.call
    BY DEF Loading, Elements
  <1>2. CASE \E m \in Methods : Invoke(m)
    <2>1. /\ \/ \E i \in 1 .. Len(queue) : queue[i] = c
             \/ c = exec.call
          /\ c <= calls
      BY <1>1, <1>2 DEF Invoke, OrderInv
    <2>2. method'[c] = method[c]
      BY <1>2, <2>1 DEF Invoke, TypeOK, Calls
    <2> QED BY <1>1, <2>1, <2>2 DEF Loading, Elements
  <1>3. CASE Take
    BY <1>1, <1>3, TakeFacts DEF Take, Loading, Elements
  <1>4. CASE KeepsCalls
    BY <1>1, <1>4 DEF KeepsCalls, Loading, Elements
  <1>5. CASE EndsTask
    <2>1. c # exec'.call /\ UNCHANGED <<method, queue>>
      BY <1>5 DEF EndsTask, Idle, NoCall, Calls
    <2> QED BY <1>1, <2>1 DEF Loading, Elements
  <1>6. ~Handle
    BY DEF Handle
  <1> QED BY <1>2, <1>3, <1>4, <1>5, <1>6, StepKinds

(* A load on the executor is under way.                                    *)
LEMMA LoadIsLoading ==
    ASSUME ShapeInv, TaskInv,
           exec.pc \in {"loadModel", "initializing", "initFailed", "initDone",
                        "backend"}
    PROVE  Loading
  BY DEF ShapeInv, TaskInv, Loading

(* The plugin follows the native bridge.                                   *)
LEMMA KnowStep ==
    ASSUME TypeOK, ShapeInv, OrderInv, TaskInv, MutexInv, ModelInv,
           KnowInv, [Next]_vars
    PROVE  KnowInv'
  <1> USE DEF flow, dart, text, native, stream, gen, plugin, vars
  <1>0. /\ ExecPCs = {"idle", "initializing", "initFailed", "initDone", "backend",
                      "generating", "generated", "next", "streamEnd",
                      "embedding", "loadModel", "generate", "generateStream",
                      "getEmbedding"}
        /\ OnExecutor = {"loadModel", "generate", "generateStream", "getEmbedding"}
        /\ {"ok", "error"} \subseteq Replies
    BY DEF ExecPCs, OnExecutor, Replies
  <1>a. ASSUME platform.pc # "idle"
        PROVE  Loading' => Loading
    BY <1>a, LoadingShrinks
  <1>b. exec.pc \in {"loadModel", "initializing", "initFailed", "initDone",
                     "backend"} => Loading
    BY LoadIsLoading
  <1>1. ASSUME NEW m \in Methods, Invoke(m)
        PROVE  KnowInv'
    BY <1>1, <1>a DEF Invoke, KnowInv
  <1>2. CASE NativeFreeModel
    BY <1>2, <1>0, <1>a, <1>b DEF NativeFreeModel, KnowInv, Idle
  <1>3. CASE Freed
    BY <1>3, <1>0, <1>a, <1>b DEF Freed, KnowInv, Idle
  <1>4. CASE NativeGetModelInfo
    BY <1>4, <1>0, <1>a, <1>b DEF NativeGetModelInfo, KnowInv, Idle
  <1>5. CASE NativeStopGeneration
    BY <1>5, <1>0, <1>a, <1>b DEF NativeStopGeneration, KnowInv, Idle
  <1>6. CASE NativeGetEmbeddingDim
    BY <1>6, <1>0, <1>a, <1>b DEF NativeGetEmbeddingDim, KnowInv, Idle
  <1>7. CASE Handle
    <2>1. /\ platform.pc = "idle" /\ platform'.pc # "freed"
          /\ UNCHANGED <<exec, g_model>>
      BY <1>7, HandleShape DEF Handle
    <2>2. modelLoaded' = modelLoaded
      BY <1>7 DEF Handle, HandleTask, HandleUnload, HandleInfo, HandleStop,
              HandleDim, HandleListen
    <2>3. CASE platform'.pc = "free"
      <3>1. /\ overtaken' = (overtaken \/ Loading)
            /\ UNCHANGED <<queue, method>>
        BY <1>7, <2>3, HandleShape DEF HandleUnload, Handle
      <3>2. Loading' <=> Loading
        BY <2>1, <3>1 DEF Loading, Elements
      <3> QED BY <2>1, <2>2, <2>3, <3>1, <3>2 DEF KnowInv
    <2>4. CASE platform'.pc # "free"
      <3>1. ~overtaken' => ~overtaken
        BY <1>7 DEF Handle, HandleTask, HandleUnload, HandleInfo, HandleStop,
                HandleDim, HandleListen
      <3> QED BY <2>1, <2>2, <2>4, <3>1 DEF KnowInv
    <2> QED BY <2>3, <2>4
  <1>8. CASE Take
    BY <1>8, <1>0, <1>a, TakeFacts DEF Take, KnowInv
  <1>9. CASE ModelNotFound
    BY <1>9, <1>0, <1>a, <1>b, GotoFacts, FinishFacts DEF ModelNotFound, KnowInv
  <1>10. CASE InitModel
    BY <1>10, <1>0, <1>a, <1>b, GotoFacts, FinishFacts DEF InitModel, KnowInv
  <1>11. CASE ModelInitialized
    <2>1. loads + 1 # Null /\ g_model = Null
      BY <1>11 DEF ModelInitialized, ModelInv, TypeOK, Null
    <2> QED BY <1>11, <1>0, <1>a, <1>b, <2>1, GotoFacts DEF ModelInitialized, KnowInv
  <1>12. CASE PluginLoaded
    BY <1>12, <1>0, <1>a, <1>b, GotoFacts, FinishFacts DEF PluginLoaded, KnowInv
  <1>13. CASE NativeGetActiveBackend
    BY <1>13, <1>0, <1>a, <1>b, GotoFacts, FinishFacts DEF
        NativeGetActiveBackend, KnowInv
  <1>14. CASE Generate
    BY <1>14, <1>0, <1>a, <1>b, GotoFacts, FinishFacts DEF Generate, KnowInv
  <1>15. CASE GenerateStreamInit
    BY <1>15, <1>0, <1>a, <1>b, GotoFacts, FinishFacts DEF GenerateStreamInit,
        KnowInv
  <1>16. CASE GenerateToken
    BY <1>16, <1>0, <1>a, <1>b, GotoFacts, FinishFacts DEF GenerateToken, KnowInv
  <1>17. CASE GenerateEnds
    BY <1>17, <1>0, <1>a, <1>b, GotoFacts, FinishFacts DEF GenerateEnds, KnowInv
  <1>18. CASE GenerateStreamNext
    BY <1>18, <1>0, <1>a, <1>b, GotoFacts, FinishFacts DEF GenerateStreamNext,
        KnowInv
  <1>19. CASE GenerateStreamEnd
    BY <1>19, <1>0, <1>a, <1>b, GotoFacts, FinishFacts DEF GenerateStreamEnd,
        KnowInv
  <1>20. CASE GetEmbedding
    BY <1>20, <1>0, <1>a, <1>b, GotoFacts, FinishFacts DEF GetEmbedding, KnowInv
  <1>21. ASSUME NEW r \in {"ok", "error"}, EmbeddingDone(r)
        PROVE  KnowInv'
    BY <1>21, <1>0, <1>a, <1>b, GotoFacts, FinishFacts DEF EmbeddingDone, KnowInv
  <1>22. CASE Done \/ UNCHANGED vars
    BY <1>22 DEF Done, KnowInv, Loading, Elements
  <1> QED BY <1>1, <1>2, <1>3, <1>4, <1>5, <1>6, <1>7, <1>8, <1>9, <1>10,
             <1>11, <1>12, <1>13, <1>14, <1>15, <1>16, <1>17, <1>18, <1>19,
             <1>20, <1>21, <1>22 DEF Next, Platform, Executor

(* An answer changes what Dart knows within its types.                     *)
LEMMA AnswerType ==
    ASSUME TypeOK, NEW c \in Calls, NEW r \in Replies, Answer(c, r)
    PROVE  /\ reply' \in [Calls -> Replies \cup {"none"}]
           /\ isModelLoaded' \in BOOLEAN
  BY DEF TypeOK, Answer

(* A prompt that is decoded stays within the context.                      *)
LEMMA DecodedType ==
    ASSUME TypeOK, exec.call \in Calls
    PROVE  Decoded \in Seq(Calls) /\ Len(Decoded) <= NCtx
  <1> DEFINE k == IF PromptFits THEN PromptLen ELSE NCtx - Len(kv)
             s == [i \in 1 .. k |-> exec.call]
  <1>1. kv \in Seq(Calls) /\ Len(kv) \in Nat /\ Len(kv) <= NCtx /\ NCtx \in Nat
    BY BridgeAssumption, LenProperties DEF TypeOK
  <1>2. k \in Nat /\ Len(kv) + k <= NCtx
    BY <1>1, BridgeAssumption DEF PromptFits
  <1> HIDE DEF k
  <1>3. s \in Seq(Calls) /\ Len(s) = k
    BY <1>2
  <1>4. Decoded = kv \o s
    BY DEF Decoded, k
  <1> HIDE DEF s
  <1> QED BY <1>1, <1>2, <1>3, <1>4, ConcatProperties

(* Every step keeps the types.                                             *)
LEMMA TypeStep ==
    ASSUME TypeOK, ShapeInv, TaskInv, OrderInv, OnceInv, ModelInv,
           [Next]_vars
    PROVE  TypeOK'
  <1> USE DEF flow, dart, text, native, stream, gen, plugin, vars
  <1>0. /\ ExecPCs = {"idle", "initializing", "initFailed", "initDone", "backend",
                      "generating", "generated", "next", "streamEnd",
                      "embedding", "loadModel", "generate", "generateStream",
                      "getEmbedding"}
        /\ OnExecutor = {"loadModel", "generate", "generateStream", "getEmbedding"}
        /\ {"ok", "error"} \subseteq Replies
    BY DEF ExecPCs, OnExecutor, Replies
  <1>a. /\ platform'.pc \in {"idle", "free", "freed", "info", "stop", "dim"}
        /\ exec'.pc \in {"idle", "initializing", "initFailed", "initDone",
                         "backend", "generating", "generated", "next",
                         "streamEnd", "embedding"} \cup OnExecutor
        /\ platform'.call \in Calls \cup {NoCall}
        /\ exec'.call \in Calls \cup {NoCall}
    BY ShapeStep DEF ShapeInv, PlatformPCs, ExecPCs
  <1>b. /\ exec.pc # "idle" => exec.call \in Calls
        /\ platform.pc # "idle" => platform.call \in Calls
    BY DEF ShapeInv
  <1>c. "ok" \in Replies /\ "error" \in Replies /\ "null" \in Replies
    BY DEF Replies
  <1>d. /\ loads \in Nat /\ n \in Nat /\ calls \in Nat
        /\ kv \in Seq(Calls) /\ Len(kv) \in Nat /\ Len(kv) <= NCtx
        /\ queue \in Seq(Calls) /\ g_stream_tokens \in Seq(Calls)
        /\ Len(g_stream_tokens) \in Nat /\ g_stream_pos \in Nat
    <2>1. /\ kv \in Seq(Calls) /\ queue \in Seq(Calls)
          /\ g_stream_tokens \in Seq(Calls)
      BY DEF TypeOK
    <2>2. Len(kv) \in Nat /\ Len(g_stream_tokens) \in Nat
      BY <2>1, LenProperties
    <2> QED BY <2>1, <2>2, BridgeAssumption DEF TypeOK
  <1>1. ASSUME NEW m \in Methods, Invoke(m)
        PROVE  TypeOK'
    <2>1. calls' \in 0 .. NCalls /\ calls + 1 \in Calls
      BY <1>1, BridgeAssumption DEF Invoke, TypeOK, Calls
    <2>2. method' \in [Calls -> Methods \cup {"none"}]
      BY <1>1, <2>1 DEF Invoke, TypeOK
    <2> QED BY <1>1, <1>a, <2>1, <2>2 DEF Invoke, TypeOK
  <1>2. CASE NativeFreeModel
    <2>1. {g_model', g_context', g_vocab', g_embed_ctx'} \subseteq 0 .. loads
      BY <1>2, <1>d DEF NativeFreeModel, Null
    <2>2. kv' \in Seq(Calls) /\ Len(kv') <= NCtx
      BY <1>2, BridgeAssumption DEF NativeFreeModel
    <2> QED BY <1>2, <1>a, <2>1, <2>2 DEF NativeFreeModel, TypeOK
  <1>3. CASE Freed
    BY <1>3, <1>a, <1>b, <1>c, AnswerType DEF Freed, TypeOK
  <1>4. CASE NativeGetModelInfo
    BY <1>4, <1>a, <1>b, <1>c, AnswerType DEF NativeGetModelInfo, TypeOK
  <1>5. CASE NativeStopGeneration
    BY <1>5, <1>a, <1>b, <1>c, AnswerType DEF NativeStopGeneration, TypeOK
  <1>6. CASE NativeGetEmbeddingDim
    BY <1>6, <1>a, <1>b, <1>c, AnswerType DEF NativeGetEmbeddingDim, TypeOK
  <1>7. CASE Handle
    <2> DEFINE m == Head(looper)
    <2>1. m \in Messages
      BY <1>7, HandleMoves
    <2>2. m.call \in Calls /\ (m.type = "reply" => m.result \in Replies)
      BY <2>1 DEF Messages, CallMessages
    <2>3. queue' \in Seq(Calls)
      <3>1. \/ UNCHANGED queue
            \/ \E c \in Calls : queue' = Append(queue, c)
        BY <1>7, HandleMoves
      <3> QED BY SMTT(30), <3>1, <1>d, AppendProperties
    <2>4. /\ reply' \in [Calls -> Replies \cup {"none"}]
          /\ isModelLoaded' \in BOOLEAN
      <3>1. \/ UNCHANGED dart
            \/ \E r \in Replies : Answer(m.call, r)
        BY <1>7, <2>2, <1>c DEF Handle, HandleTask, HandleUnload, HandleInfo,
           HandleStop, HandleDim, HandleListen, InNative
      <3> QED BY <2>2, <3>1, AnswerType DEF TypeOK
    <2>5. overtaken' \in BOOLEAN
      BY <1>7 DEF Handle, HandleTask, HandleUnload, HandleInfo, HandleStop,
              HandleDim, HandleListen, TypeOK
    <2>6. /\ modelLoaded' \in BOOLEAN /\ shouldStop' \in BOOLEAN
          /\ eventSink' \in BOOLEAN
      BY <1>7 DEF Handle, HandleTask, HandleUnload, HandleInfo, HandleStop,
              HandleDim, HandleListen, TypeOK
    <2> QED BY <1>7, <1>a, <2>3, <2>4, <2>5, <2>6 DEF Handle, TypeOK
  <1>8. CASE Take
    <2>1. shouldStop' \in BOOLEAN
      BY <1>8 DEF Take, TypeOK
    <2> QED BY <1>8, <1>a, <2>1, TakeFacts DEF Take, TypeOK
  <1>9. CASE ModelNotFound
    BY <1>9, <1>a, <1>b DEF ModelNotFound, TypeOK
  <1>10. CASE InitModel
    BY SMTT(30), <1>10, <1>a, BridgeAssumption DEF InitModel, TypeOK, Null
  <1>11. CASE ModelInitialized
    <2>1. loads + 1 \in 0 .. NCalls
      <3>1. exec.call \in Calls /\ loads < exec.call
        BY <1>11, <1>b DEF ModelInitialized, OnceInv
      <3> QED BY <3>1, <1>d, BridgeAssumption DEF Calls
    <2>2. {g_model', g_context', g_vocab', g_embed_ctx'} \subseteq 0 .. loads'
      <3>1. /\ g_model \in 0 .. loads /\ g_context \in 0 .. loads
            /\ g_vocab \in 0 .. loads /\ g_embed_ctx \in 0 .. loads
        BY DEF TypeOK
      <3>2. /\ g_model' \in {g_model, loads + 1}
            /\ g_context' \in {g_context, loads + 1}
            /\ g_vocab' \in {g_vocab, loads + 1}
            /\ g_embed_ctx' = g_embed_ctx /\ loads' = loads + 1
        BY <1>11 DEF ModelInitialized
      <3>3. 0 .. loads \subseteq 0 .. loads' /\ loads + 1 \in 0 .. loads'
        BY <3>2, <1>d
      <3> QED BY <3>1, <3>2, <3>3
    <2> QED BY <1>11, <1>a, <2>1, <2>2 DEF ModelInitialized, TypeOK
  <1>12. CASE PluginLoaded
    BY <1>12, <1>a, <1>b DEF PluginLoaded, TypeOK
  <1>13. CASE NativeGetActiveBackend
    BY <1>13, <1>a, <1>b DEF NativeGetActiveBackend, TypeOK
  <1>14. CASE Generate
    <2>1. n' \in 0 .. MaxTokens /\ g_mutex' \in {"free", "held"}
      BY <1>14, BridgeAssumption DEF Generate, TypeOK
    <2>2. kv' \in Seq(Calls) /\ Len(kv') <= NCtx
      BY <1>14, <1>b, DecodedType DEF Generate, TypeOK
    <2>3. g_should_stop' \in BOOLEAN
      BY <1>14 DEF Generate, TypeOK
    <2> QED BY <1>14, <1>a, <2>1, <2>2, <2>3 DEF Generate, TypeOK
  <1>15. CASE GenerateStreamInit
    <2>1. n' \in 0 .. MaxTokens /\ g_mutex' \in {"free", "held"}
      BY SMTT(30), <1>15, BridgeAssumption DEF GenerateStreamInit, TypeOK
    <2>2. kv' \in Seq(Calls) /\ Len(kv') <= NCtx
      BY <1>15, <1>b, DecodedType DEF GenerateStreamInit, TypeOK
    <2>3. g_should_stop' \in BOOLEAN
      BY <1>15 DEF GenerateStreamInit, TypeOK
    <2>4. /\ g_stream_tokens' \in Seq(Calls)
          /\ g_stream_pos' \in 0 .. Len(g_stream_tokens')
      <3>1. \/ UNCHANGED <<g_stream_tokens, g_stream_pos>>
            \/ g_stream_tokens' = <<>> /\ g_stream_pos' = 0
        BY <1>15 DEF GenerateStreamInit
      <3>2. g_stream_pos \in 0 .. Len(g_stream_tokens)
        BY DEF TypeOK
      <3>3. <<>> \in Seq(Calls) /\ 0 \in 0 .. Len(<<>>)
        BY EmptySeq
      <3> QED BY <3>1, <3>2, <3>3, <1>d
    <2> QED BY <1>15, <1>a, <2>1, <2>2, <2>3, <2>4 DEF GenerateStreamInit, TypeOK
  <1>16. CASE GenerateToken
    <2>1. exec.call \in Calls /\ answer[exec.call] = n /\ n + 1 \in 0 .. MaxTokens
      <3>1. exec.call \in Calls /\ answer[exec.call] = n /\ n < MaxTokens
        BY <1>16, <1>b DEF GenerateToken, OnceInv
      <3> QED BY <3>1, <1>d, BridgeAssumption
    <2>2. answer' \in [Calls -> 0 .. MaxTokens] /\ n' \in 0 .. MaxTokens
      BY <1>16, <2>1 DEF GenerateToken, TypeOK
    <2>3. kv' \in Seq(Calls) /\ Len(kv') <= NCtx
      <3>1. /\ Append(kv, exec.call) \in Seq(Calls)
            /\ Len(Append(kv, exec.call)) = Len(kv) + 1
        BY <2>1, <1>d, AppendProperties
      <3>2. UNCHANGED kv \/ (kv' = Append(kv, exec.call) /\ Len(kv) < NCtx)
        BY <1>16 DEF GenerateToken
      <3> QED BY SMTT(30), <3>1, <3>2, <1>d, BridgeAssumption
    <2>4. /\ g_stream_tokens' \in Seq(Calls)
          /\ g_stream_pos' \in 0 .. Len(g_stream_tokens')
      <3>1. g_stream_tokens \in Seq(Calls) /\ Len(g_stream_tokens) \in Nat
        BY LenProperties DEF TypeOK
      <3>2. /\ Append(g_stream_tokens, exec.call) \in Seq(Calls)
            /\ Len(Append(g_stream_tokens, exec.call)) = Len(g_stream_tokens) + 1
        BY <2>1, <3>1, AppendProperties
      <3> QED BY <1>16, <3>1, <3>2 DEF GenerateToken, TypeOK
    <2> QED BY <1>16, <1>a, <2>2, <2>3, <2>4 DEF GenerateToken, TypeOK
  <1>17. CASE GenerateEnds
    BY <1>17, <1>a, <1>b DEF GenerateEnds, TypeOK
  <1>18. CASE GenerateStreamNext
    <2>1. exec.call \in Calls
      BY <1>18, <1>b DEF GenerateStreamNext
    <2>2. CASE UNCHANGED <<g_stream_pos, streamed>>
      BY <1>18, <1>a, <2>2 DEF GenerateStreamNext, TypeOK
    <2>3. CASE /\ g_stream_pos < Len(g_stream_tokens)
               /\ g_stream_pos' = g_stream_pos + 1
               /\ streamed' = [streamed EXCEPT ![exec.call] =
                                  Append(@, g_stream_tokens[g_stream_pos + 1])]
      <3>1. /\ g_stream_pos + 1 \in 1 .. Len(g_stream_tokens)
            /\ g_stream_tokens[g_stream_pos + 1] \in Calls
        BY <2>3, <1>d, ElementOfSeq
      <3>2. Append(streamed[exec.call], g_stream_tokens[g_stream_pos + 1]) \in Seq(Calls)
        BY <2>1, <3>1, AppendProperties DEF TypeOK
      <3>3. streamed' \in [Calls -> Seq(Calls)]
        BY <2>1, <2>3, <3>2 DEF TypeOK
      <3>4. g_stream_pos' \in 0 .. Len(g_stream_tokens)
        BY <2>3, <3>1
      <3> QED BY <1>18, <1>a, <3>3, <3>4 DEF GenerateStreamNext, TypeOK
    <2> QED BY <1>18, <2>2, <2>3 DEF GenerateStreamNext
  <1>19. CASE GenerateStreamEnd
    BY SMTT(30), <1>19, <1>a, <1>b DEF GenerateStreamEnd, TypeOK
  <1>20. CASE GetEmbedding
    BY <1>20, <1>a, <1>b DEF GetEmbedding, TypeOK
  <1>21. ASSUME NEW r \in {"ok", "error"}, EmbeddingDone(r)
        PROVE  TypeOK'
    BY <1>21, <1>a, <1>b DEF EmbeddingDone, TypeOK
  <1>22. CASE Done \/ UNCHANGED vars
    BY <1>22 DEF Done, TypeOK
  <1> QED BY <1>1, <1>2, <1>3, <1>4, <1>5, <1>6, <1>7, <1>8, <1>9, <1>10,
             <1>11, <1>12, <1>13, <1>14, <1>15, <1>16, <1>17, <1>18, <1>19,
             <1>20, <1>21, <1>22 DEF Next, Platform, Executor

-----------------------------------------------------------------------------
(* The inductive invariant holds at the start.                             *)
LEMMA InitIInv ==
    ASSUME Init
    PROVE  IInv
  <1> USE DEF Init
  <1>1. TypeOK
    <2>1. <<>> \in Seq(Calls) /\ Len(<<>>) = 0
      BY EmptySeq
    <2>2. /\ calls \in 0 .. NCalls /\ loads \in 0 .. NCalls
          /\ n \in 0 .. MaxTokens /\ answer \in [Calls -> 0 .. MaxTokens]
          /\ Len(kv) <= NCtx /\ g_stream_pos \in 0 .. Len(g_stream_tokens)
          /\ {g_model, g_context, g_vocab, g_embed_ctx} \subseteq 0 .. loads
      BY <2>1, BridgeAssumption DEF Null
    <2>3. {isModelLoaded, modelLoaded, shouldStop, eventSink} \subseteq BOOLEAN
      OBVIOUS
    <2> QED BY <2>1, <2>2, <2>3 DEF TypeOK, Idle, NoCall
  <1>a. ShapeInv
    BY DEF ShapeInv, Idle, NoCall, PlatformPCs, ExecPCs
  <1>2. OrderInv /\ TaskInv
    BY DEF OrderInv, TaskInv, Idle, NoCall, Calls, At
  <1>3. FreshInv /\ OnceInv
    BY DEF FreshInv, OnceInv, Idle, Calls, OnExecutor
  <1>4. MutexInv /\ ModelInv /\ KnowInv
    BY DEF MutexInv, ModelInv, KnowInv, Idle
  <1>5. StreamInv
    BY DEF StreamInv, InStream, Idle
  <1> QED BY <1>1, <1>a, <1>2, <1>3, <1>4, <1>5 DEF IInv

(* Every step keeps it.                                                    *)
LEMMA NextIInv ==
    ASSUME IInv, [Next]_vars
    PROVE  IInv'
  <1> USE DEF IInv
  <1>1. TypeOK' /\ ShapeInv'
    BY TypeStep, ShapeStep
  <1>2. OrderInv' /\ TaskInv'
    BY OrderStep, TaskStep
  <1>3. FreshInv' /\ OnceInv'
    BY FreshStep, OnceStep
  <1>4. MutexInv' /\ ModelInv'
    BY MutexStep, ModelStep
  <1>5. StreamInv' /\ KnowInv'
    BY StreamStep, KnowStep
  <1> QED BY <1>1, <1>2, <1>3, <1>4, <1>5

(* It holds in every state of every behaviour.                             *)
LEMMA IInvHolds == Spec => []IInv
  BY InitIInv, NextIInv, PTL DEF Spec

(* The variables keep their types: whatever is called, in whatever order,  *)
(* no call loads or generates twice, no answer is longer than max_tokens,  *)
(* the cache never holds more than the context, and the bridge reads       *)
(* g_stream_tokens within its length.                                      *)
THEOREM TypeCorrect == Spec => []TypeOK
  <1>1. IInv => TypeOK
    BY DEF IInv
  <1> QED BY IInvHolds, <1>1, PTL

(* A generation runs with model, context and vocabulary of one load, the   *)
(* one in memory: unloads on the platform thread wait for its mutex.       *)
THEOREM LiveModel == Spec => []GeneratesWithLiveModel
  <1>1. IInv => GeneratesWithLiveModel
    BY DEF IInv, ModelInv, GeneratesWithLiveModel
  <1> QED BY IInvHolds, <1>1, PTL

(* The sink of a stream only gets tokens generated for that call, and no   *)
(* more of them than were generated.                                       *)
THEOREM OwnStream == Spec => []StreamIsOwn
  <1>1. IInv => StreamIsOwn
    BY DEF IInv, StreamInv, StreamIsOwn, Elements
  <1> QED BY IInvHolds, <1>1, PTL

(* At rest the plugin's modelLoaded is what is in memory, if no unload ran *)
(* while a load was queued or executing.                                   *)
THEOREM KnowsModel == Spec => []PluginKnowsModel
  <1>1. IInv => PluginKnowsModel
    BY DEF IInv, KnowInv, PluginKnowsModel, Quiet
  <1> QED BY IInvHolds, <1>1, PTL
=============================================================================
