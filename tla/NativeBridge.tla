---------------------------- MODULE NativeBridge ----------------------------
(***************************************************************************)
(* The Android plugin and its native bridge: FlutterLlamaPlugin.kt and     *)
(* flutter_llama_bridge.cpp.                                               *)
(*                                                                         *)
(* Method calls arrive on the platform thread, whose looper also runs what *)
(* the plugin posts to mainHandler. Loads, generations, streams and        *)
(* embeddings go on to an executor with a single thread; the other methods *)
(* run on the platform thread itself. Everything native is under g_mutex,  *)
(* except the dimension of an embedding.                                   *)
(*                                                                         *)
(* A pointer is the number of the load that made the model it belongs to,  *)
(* Null when it is nullptr; a pointer is dangling when that is not the     *)
(* model in memory. A token is the call that produced it.                  *)
(***************************************************************************)
EXTENDS Integers, Sequences

CONSTANTS
    NCalls,     \* bound: method calls of the Dart side
    Methods,    \* the methods it calls
    NCtx,       \* tokens the text context has room for
    PromptLen,  \* batches of a prompt
    MaxTokens   \* max_tokens of a generation

ASSUME BridgeAssumption ==
    /\ NCalls \in Nat /\ NCtx \in Nat /\ PromptLen \in Nat /\ MaxTokens \in Nat
    /\ Methods \subseteq {"loadModel", "generate", "generateStream",
                          "getEmbedding", "unloadModel", "getModelInfo",
                          "stopGeneration", "getEmbeddingDim", "onListen",
                          "onCancel"}

Null == 0
Calls == 1 .. NCalls
NoCall == 0

VARIABLES
    calls,                  \* calls made so far
    method, reply,          \* of each call
    isModelLoaded,          \* what the Dart wrapper believes
    looper,                 \* messages for the platform thread
    queue,                  \* tasks of the executor
    platform, exec,         \* what each thread is doing: [pc, call]
    modelLoaded, shouldStop,
    eventSink,              \* somebody listens to the tokens of streams
    g_mutex, g_model, g_context, g_vocab, g_embed_ctx, g_should_stop,
    g_stream_tokens, g_stream_pos,
    kv,                     \* tokens in the KV cache of g_context
    loads,                  \* models loaded so far
    n,                      \* tokens of the generation in progress
    answer,                 \* tokens generated for each call
    streamed,               \* tokens handed to the sink of each call
    overtaken               \* an unload has met a load that was under way

dart   == <<reply, isModelLoaded>>
plugin == <<modelLoaded, shouldStop, eventSink>>
flow   == <<calls, method, dart, looper, queue, overtaken>>
text   == <<g_model, g_context, g_vocab, kv, loads>>
stream == <<g_stream_tokens, g_stream_pos, streamed>>
gen    == <<n, answer>>
native == <<text, g_embed_ctx, g_should_stop>>
vars   == <<flow, platform, exec, plugin, g_mutex, native, stream, gen>>

OnExecutor == {"loadModel", "generate", "generateStream", "getEmbedding"}
Replies == {"ok", "error", "null"}
Elements(s) == {s[i] : i \in 1 .. Len(s)}
Idle == [pc |-> "idle", call |-> NoCall]

Init ==
    /\ calls = 0 /\ isModelLoaded = FALSE
    /\ method = [c \in Calls |-> "none"] /\ reply = [c \in Calls |-> "none"]
    /\ looper = <<>> /\ queue = <<>>
    /\ platform = Idle /\ exec = Idle
    /\ modelLoaded = FALSE /\ shouldStop = FALSE
    /\ eventSink \in BOOLEAN /\ overtaken = FALSE
    /\ g_mutex = "free"
    /\ g_model = Null /\ g_context = Null /\ g_vocab = Null
    /\ g_embed_ctx = Null /\ g_should_stop = FALSE
    /\ g_stream_tokens = <<>> /\ g_stream_pos = 0
    /\ kv = <<>> /\ loads = 0 /\ n = 0
    /\ answer = [c \in Calls |-> 0]
    /\ streamed = [c \in Calls |-> <<>>]

(* The Dart wrapper calls a method, most of them only after a load that    *)
(* was answered; the call crosses the channel in order.                    *)
Invoke(m) ==
    /\ calls < NCalls
    /\ isModelLoaded \/ m \in {"loadModel", "stopGeneration", "onListen", "onCancel"}
    /\ calls' = calls + 1
    /\ method' = [method EXCEPT ![calls'] = m]
    /\ looper' = Append(looper, [type |-> "call", call |-> calls'])
    /\ UNCHANGED <<dart, queue, overtaken, platform, exec, plugin, g_mutex,
                   native, stream, gen>>

-----------------------------------------------------------------------------
(* The platform thread.                                                    *)

Answer(c, r) ==
    /\ reply' = [reply EXCEPT ![c] = r]
    /\ isModelLoaded' = IF method[c] = "loadModel" THEN r = "ok"
                        ELSE isModelLoaded /\ method[c] # "unloadModel"
InNative(pc, c) == platform' = [pc |-> pc, call |-> c] /\ UNCHANGED dart

(* Loads are queued at once, the others only while a model is loaded, and  *)
(* a stream only when somebody listens.                                    *)
Refused(c) ==
    /\ method[c] # "loadModel"
    /\ ~modelLoaded \/ (method[c] = "generateStream" /\ ~eventSink)

HandleTask(c) ==
    /\ method[c] \in OnExecutor
    /\ \/ Refused(c) /\ Answer(c, "error") /\ UNCHANGED queue
       \/ ~Refused(c) /\ queue' = Append(queue, c) /\ UNCHANGED dart
    /\ UNCHANGED <<platform, plugin, overtaken>>

Loading ==
    \E c \in Calls : /\ method[c] = "loadModel"
                    /\ c \in Elements(queue) \cup {exec.call}

HandleUnload(c) ==
    /\ method[c] = "unloadModel"
    /\ overtaken' = (overtaken \/ Loading)
    /\ \/ modelLoaded /\ InNative("free", c)
       \/ ~modelLoaded /\ Answer(c, "ok") /\ UNCHANGED platform
    /\ UNCHANGED <<queue, plugin>>

HandleInfo(c) ==
    /\ method[c] = "getModelInfo"
    /\ \/ modelLoaded /\ InNative("info", c)
       \/ ~modelLoaded /\ Answer(c, "null") /\ UNCHANGED platform
    /\ UNCHANGED <<queue, plugin, overtaken>>

HandleStop(c) ==
    /\ method[c] = "stopGeneration"
    /\ shouldStop' = TRUE
    /\ InNative("stop", c)
    /\ UNCHANGED <<queue, modelLoaded, eventSink, overtaken>>

HandleDim(c) ==
    /\ method[c] = "getEmbeddingDim"
    /\ \/ g_model # Null /\ InNative("dim", c)
       \/ g_model = Null /\ Answer(c, "ok") /\ UNCHANGED platform
    /\ UNCHANGED <<queue, plugin, overtaken>>

HandleListen(c) ==
    /\ \/ method[c] = "onListen" /\ eventSink' = TRUE /\ UNCHANGED shouldStop
       \/ method[c] = "onCancel" /\ eventSink' = FALSE /\ shouldStop' = TRUE
    /\ Answer(c, "ok")
    /\ UNCHANGED <<queue, platform, modelLoaded, overtaken>>

(* The next message of the looper, unless the thread is inside native code.*)
Handle ==
    /\ platform.pc = "idle" /\ looper # <<>>
    /\ LET m == Head(looper)
       IN  \/ /\ m.type = "call"
              /\ \/ HandleTask(m.call) \/ HandleUnload(m.call)
                 \/ HandleInfo(m.call) \/ HandleStop(m.call)
                 \/ HandleDim(m.call) \/ HandleListen(m.call)
           \/ /\ m.type = "reply" /\ Answer(m.call, m.result)
              /\ UNCHANGED <<queue, platform, plugin, overtaken>>
    /\ looper' = Tail(looper)
    /\ UNCHANGED <<calls, method, exec, g_mutex, native, stream, gen>>

\* Mutant: a model that is freed is still taken for loaded.
MutantFreedStays ==
    /\ platform.pc = "freed"
    /\ Answer(platform.call, "ok") /\ platform' = Idle
    /\ UNCHANGED <<calls, method, looper, queue, overtaken, exec, plugin,
                   g_mutex, native, stream, gen>>

\* Mutant: the model is freed without the mutex.
MutantFreeUnlocked ==
    /\ platform.pc = "free"
    /\ g_model' = Null /\ g_context' = Null /\ g_vocab' = Null
    /\ g_embed_ctx' = Null /\ kv' = <<>>
    /\ platform' = [platform EXCEPT !.pc = "freed"]
    /\ UNCHANGED <<flow, exec, plugin, g_mutex, loads, g_should_stop, stream,
                   gen>>

NativeFreeModel ==
    /\ platform.pc = "free" /\ g_mutex = "free"
    /\ g_model' = Null /\ g_context' = Null /\ g_vocab' = Null
    /\ g_embed_ctx' = Null /\ kv' = <<>>
    /\ platform' = [platform EXCEPT !.pc = "freed"]
    /\ UNCHANGED <<flow, exec, plugin, g_mutex, loads, g_should_stop, stream,
                   gen>>

(* Back in the plugin: what it remembers of the model is written.          *)
Freed ==
    /\ platform.pc = "freed"
    /\ modelLoaded' = FALSE
    /\ Answer(platform.call, "ok") /\ platform' = Idle
    /\ UNCHANGED <<calls, method, looper, queue, overtaken, exec, shouldStop, eventSink,
                   g_mutex, native, stream, gen>>

NativeGetModelInfo ==
    /\ platform.pc = "info" /\ g_mutex = "free"
    /\ Answer(platform.call, IF g_context = Null THEN "null" ELSE "ok")
    /\ platform' = Idle
    /\ UNCHANGED <<calls, method, looper, queue, overtaken, exec, plugin, g_mutex, native,
                   stream, gen>>

NativeStopGeneration ==
    /\ platform.pc = "stop" /\ g_mutex = "free"
    /\ g_should_stop' = TRUE
    /\ Answer(platform.call, "ok") /\ platform' = Idle
    /\ UNCHANGED <<calls, method, looper, queue, overtaken, exec, plugin, g_mutex, text,
                   g_embed_ctx, stream, gen>>

(* The only native function without the mutex: it has seen a model, and    *)
(* now reads g_model again.                                                *)
NativeGetEmbeddingDim ==
    /\ platform.pc = "dim"
    /\ Answer(platform.call, "ok") /\ platform' = Idle
    /\ UNCHANGED <<calls, method, looper, queue, overtaken, exec, plugin, g_mutex, native,
                   stream, gen>>

Platform ==
    \/ Handle \/ NativeFreeModel \/ Freed \/ NativeGetModelInfo
    \/ NativeStopGeneration \/ NativeGetEmbeddingDim

-----------------------------------------------------------------------------
(* The executor: a task at a time.                                         *)

Post(c, r) == looper' = Append(looper, [type |-> "reply", call |-> c, result |-> r])
Goto(p) == exec' = [exec EXCEPT !.pc = p]
Finish(r) == Post(exec.call, r) /\ exec' = Idle

Take ==
    /\ exec.pc = "idle" /\ queue # <<>>
    /\ exec' = [pc |-> method[Head(queue)], call |-> Head(queue)]
    /\ queue' = Tail(queue)
    /\ shouldStop' = (shouldStop /\ method[Head(queue)] \notin
                                        {"generate", "generateStream"})
    /\ UNCHANGED <<calls, method, dart, looper, overtaken, platform,
                   modelLoaded, eventSink, g_mutex, native, stream, gen>>

\* Mutant: a missing file ends the task without an answer.
MutantNoAnswer ==
    /\ exec.pc = "loadModel"
    /\ exec' = Idle
    /\ UNCHANGED <<flow, platform, plugin, g_mutex, native, stream, gen>>

ModelNotFound ==
    /\ exec.pc = "loadModel"
    /\ Finish("error")
    /\ UNCHANGED <<calls, method, dart, queue, overtaken, platform, plugin, g_mutex, native,
                   stream, gen>>

(* nativeInitModel() frees sampler, context and model; the embedding       *)
(* context is left as it is.                                               *)
InitModel ==
    /\ exec.pc = "loadModel" /\ g_mutex = "free"
    /\ g_mutex' = "held"
    /\ g_model' = Null /\ g_context' = Null /\ kv' = <<>>
    /\ Goto("initializing")
    /\ UNCHANGED <<flow, platform, plugin, g_vocab, loads, g_embed_ctx,
                   g_should_stop, stream, gen>>

(* The load fails, the context cannot be made (the vocabulary is then one  *)
(* of a freed model), or both succeed.                                     *)
ModelInitialized ==
    /\ exec.pc = "initializing"
    /\ g_mutex' = "free"
    /\ loads' = loads + 1
    /\ \/ UNCHANGED <<g_model, g_context, g_vocab>> /\ Goto("initFailed")
       \/ g_vocab' = loads' /\ UNCHANGED <<g_model, g_context>> /\ Goto("initFailed")
       \/ g_model' = loads' /\ g_context' = loads' /\ g_vocab' = loads' /\ Goto("initDone")
    /\ UNCHANGED <<flow, platform, plugin, kv, g_embed_ctx, g_should_stop,
                   stream, gen>>

(* Back in the plugin; a load that succeeded asks for the backend as well. *)
PluginLoaded ==
    /\ \/ exec.pc = "initFailed" /\ modelLoaded' = FALSE /\ Finish("error")
       \/ exec.pc = "initDone" /\ modelLoaded' = TRUE /\ Goto("backend") /\ UNCHANGED looper
    /\ UNCHANGED <<calls, method, dart, queue, overtaken, platform, shouldStop, eventSink,
                   g_mutex, native, stream, gen>>

NativeGetActiveBackend ==
    /\ exec.pc = "backend" /\ g_mutex = "free"
    /\ Finish("ok")
    /\ UNCHANGED <<calls, method, dart, queue, overtaken, platform, plugin, g_mutex, native,
                   stream, gen>>

Ready == g_model # Null /\ g_context # Null /\ g_vocab # Null

(* The prompt is decoded batch by batch into what is left of the context;  *)
(* the batches that fit stay there even if the last one does not.          *)
PromptFits == Len(kv) + PromptLen <= NCtx
Decoded ==
    kv \o [i \in 1 .. (IF PromptFits THEN PromptLen ELSE NCtx - Len(kv)) |-> exec.call]

Generate ==
    /\ exec.pc = "generate" /\ g_mutex = "free"
    /\ \/ ~Ready /\ Finish("error") /\ UNCHANGED <<g_mutex, kv, g_should_stop, n>>
       \/ /\ Ready /\ ~PromptFits
          /\ kv' = Decoded /\ Finish("error")
          /\ UNCHANGED <<g_mutex, g_should_stop, n>>
       \/ /\ Ready /\ PromptFits
          /\ kv' = Decoded /\ g_should_stop' = FALSE /\ n' = 0
          /\ g_mutex' = "held" /\ Goto("generating") /\ UNCHANGED looper
    /\ UNCHANGED <<calls, method, dart, queue, overtaken, platform, plugin, g_model, g_context,
                   g_vocab, loads, g_embed_ctx, stream, answer>>

(* A stream is generated in full before its first token is handed out.     *)
GenerateStreamInit ==
    /\ exec.pc = "generateStream" /\ g_mutex = "free"
    /\ \/ ~Ready /\ Goto("next") /\ UNCHANGED <<g_mutex, kv, g_should_stop, n, g_stream_tokens, g_stream_pos>>
       \/ /\ Ready
          /\ g_should_stop' = FALSE
          /\ g_stream_tokens' = <<>> /\ g_stream_pos' = 0
          /\ kv' = Decoded /\ n' = 0
          /\ \/ ~PromptFits /\ Goto("next") /\ UNCHANGED g_mutex
             \/ PromptFits /\ g_mutex' = "held" /\ Goto("generating")
    /\ UNCHANGED <<flow, platform, plugin, g_model, g_context, g_vocab, loads,
                   g_embed_ctx, streamed, answer>>

Streaming == method[exec.call] = "generateStream"

\* Mutant: one token too many.
MutantOneMore ==
    /\ exec.pc = "generating" /\ n <= MaxTokens /\ ~g_should_stop
    /\ n' = n + 1
    /\ answer' = [answer EXCEPT ![exec.call] = @ + 1]
    /\ kv' = kv
    /\ UNCHANGED <<flow, platform, exec, plugin, g_mutex, g_model, g_context,
                   g_vocab, loads, g_embed_ctx, g_should_stop, stream>>

(* A token that is not the end is kept; then it is decoded, if it fits.    *)
GenerateToken ==
    /\ exec.pc = "generating" /\ n < MaxTokens /\ ~g_should_stop
    /\ n' = n + 1
    /\ answer' = [answer EXCEPT ![exec.call] = @ + 1]
    /\ g_stream_tokens' = IF Streaming THEN Append(g_stream_tokens, exec.call)
                          ELSE g_stream_tokens
    /\ \/ Len(kv) < NCtx /\ kv' = Append(kv, exec.call) /\ UNCHANGED exec
       \/ Len(kv) = NCtx /\ Goto("generated") /\ UNCHANGED kv
    /\ UNCHANGED <<flow, platform, plugin, g_mutex, g_model, g_context,
                   g_vocab, loads, g_embed_ctx, g_should_stop, g_stream_pos,
                   streamed>>

(* The end: the limit, the stop flag, an end token or a full context.      *)
GenerateEnds ==
    /\ exec.pc \in {"generating", "generated"}
    /\ g_mutex' = "free"
    /\ \/ Streaming /\ Goto("next") /\ UNCHANGED looper
       \/ ~Streaming /\ Finish("ok")
    /\ UNCHANGED <<calls, method, dart, queue, overtaken, platform, plugin, native, stream, gen>>

(* nativeGenerateStreamNext() and the loop around it.                      *)
GenerateStreamNext ==
    /\ exec.pc = "next"
    /\ \/ shouldStop /\ Goto("streamEnd") /\ UNCHANGED <<g_stream_pos, streamed>>
       \/ /\ ~shouldStop /\ g_mutex = "free"
          /\ \/ /\ g_should_stop \/ g_stream_pos >= Len(g_stream_tokens)
                /\ Goto("streamEnd") /\ UNCHANGED <<g_stream_pos, streamed>>
             \/ /\ ~g_should_stop /\ g_stream_pos < Len(g_stream_tokens)
                /\ g_stream_pos' = g_stream_pos + 1
                /\ streamed' = [streamed EXCEPT ![exec.call] =
                                  Append(@, g_stream_tokens[g_stream_pos + 1])]
                /\ UNCHANGED exec
    /\ UNCHANGED <<flow, platform, plugin, g_mutex, native, g_stream_tokens, gen>>

\* Mutant: the end of a stream leaves its tokens.
MutantKeepsTokens ==
    /\ exec.pc = "streamEnd" /\ g_mutex = "free"
    /\ g_stream_pos' = 0
    /\ Finish("ok")
    /\ UNCHANGED <<calls, method, dart, queue, overtaken, platform, plugin,
                   g_mutex, native, g_stream_tokens, streamed, gen>>

GenerateStreamEnd ==
    /\ exec.pc = "streamEnd" /\ g_mutex = "free"
    /\ g_stream_tokens' = <<>> /\ g_stream_pos' = 0
    /\ Finish("ok")
    /\ UNCHANGED <<calls, method, dart, queue, overtaken, platform, plugin, g_mutex, native,
                   streamed, gen>>

(* The embedding context is made when it is first needed and then kept;    *)
(* it is cleared before every use.                                         *)
GetEmbedding ==
    /\ exec.pc = "getEmbedding" /\ g_mutex = "free"
    /\ \/ /\ g_model = Null \/ g_vocab = Null \/ g_embed_ctx = Null
          /\ Finish("error")
          /\ UNCHANGED <<g_mutex, g_embed_ctx>>
       \/ /\ g_model # Null /\ g_vocab # Null
          /\ g_embed_ctx' = IF g_embed_ctx = Null THEN g_model ELSE g_embed_ctx
          /\ g_mutex' = "held"
          /\ Goto("embedding") /\ UNCHANGED looper
    /\ UNCHANGED <<calls, method, dart, queue, overtaken, platform, plugin,
                   text, g_should_stop, stream, gen>>

EmbeddingDone(r) ==
    /\ exec.pc = "embedding"
    /\ g_mutex' = "free"
    /\ Finish(r)
    /\ UNCHANGED <<calls, method, dart, queue, overtaken, platform, plugin,
                   native, stream, gen>>

Executor ==
    \/ Take \/ ModelNotFound \/ InitModel \/ ModelInitialized \/ PluginLoaded
    \/ NativeGetActiveBackend \/ Generate \/ GenerateStreamInit
    \/ GenerateToken \/ GenerateEnds \/ GenerateStreamNext
    \/ GenerateStreamEnd \/ GetEmbedding
    \/ \E r \in {"ok", "error"} : EmbeddingDone(r)

-----------------------------------------------------------------------------
(* All calls are made and answered.                                        *)
Quiet ==
    /\ looper = <<>> /\ queue = <<>>
    /\ platform.pc = "idle" /\ exec.pc = "idle"

Done == calls = NCalls /\ Quiet /\ UNCHANGED vars

Next == (\E m \in Methods : Invoke(m)) \/ Platform \/ Executor \/ Done

Spec == Init /\ [][Next]_vars

(* Both threads run when they can; a critical section of the executor is   *)
(* finite, so the platform thread gets the mutex in the end.               *)
FairSpec == Spec /\ WF_vars(Platform) /\ WF_vars(Executor)

-----------------------------------------------------------------------------
(* The variables keep their types: no generation is longer than its limit, *)
(* no context holds more than it has room for, and the position in the     *)
(* stream's tokens stays inside them.                                      *)
TypeOK ==
    /\ calls \in 0 .. NCalls
    /\ method \in [Calls -> Methods \cup {"none"}]
    /\ reply \in [Calls -> Replies \cup {"none"}]
    /\ queue \in Seq(Calls) /\ overtaken \in BOOLEAN
    /\ platform.pc \in {"idle", "free", "freed", "info", "stop", "dim"}
    /\ exec.pc \in {"idle", "initializing", "initFailed", "initDone",
                    "backend", "generating", "generated", "next",
                    "streamEnd", "embedding"} \cup OnExecutor
    /\ platform.call \in Calls \cup {NoCall} /\ exec.call \in Calls \cup {NoCall}
    /\ {isModelLoaded, modelLoaded, shouldStop, eventSink} \subseteq BOOLEAN
    /\ g_mutex \in {"free", "held"} /\ g_should_stop \in BOOLEAN
    /\ {g_model, g_context, g_vocab, g_embed_ctx} \subseteq 0 .. loads
    /\ kv \in Seq(Calls) /\ Len(kv) <= NCtx /\ loads \in 0 .. NCalls
    /\ n \in 0 .. MaxTokens /\ answer \in [Calls -> 0 .. MaxTokens]
    /\ g_stream_tokens \in Seq(Calls) /\ g_stream_pos \in 0 .. Len(g_stream_tokens)
    /\ streamed \in [Calls -> Seq(Calls)]

(* A generation samples and decodes with the context, the vocabulary and   *)
(* the model that are in memory: no unload or load comes in between, and a *)
(* vocabulary left over by a failed load is never used.                    *)
GeneratesWithLiveModel ==
    exec.pc \in {"generating", "generated"} =>
        g_model # Null /\ g_context = g_model /\ g_vocab = g_model

(* The sink of a stream gets the tokens that were generated for it, from   *)
(* the first on, whatever was stopped, unloaded or loaded before.          *)
StreamIsOwn ==
    \A c \in Calls :
        /\ Elements(streamed[c]) \subseteq {c}
        /\ Len(streamed[c]) <= answer[c]

(* When nothing is under way the plugin knows whether a model is in memory,*)
(* unless an unload on the platform thread has met a load on the executor. *)
PluginKnowsModel ==
    Quiet /\ ~overtaken => (modelLoaded <=> g_model # Null)

(* Every call of the Dart side is answered: no await of a Future hangs.    *)
EveryCallAnswered ==
    \A c \in Calls : method[c] # "none" ~> reply[c] # "none"

(* A call to generate() is stateless: the model sees no prompt or answer   *)
(* of another call.                                                        *)
CallsAreStateless == exec.pc = "generating" => Elements(kv) \subseteq {exec.call}
=============================================================================
