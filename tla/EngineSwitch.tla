---------------------------- MODULE EngineSwitch ----------------------------
(***************************************************************************)
(* Which language model is in memory: AIManager (switchEngine,             *)
(* applyPendingUpgrade, clearMemory, the listener of tierReadyStream), the *)
(* FlutterLlama wrapper it calls, and the Android plugin under it.         *)
(*                                                                         *)
(* Three flags say whether a model is loaded, and a fourth fact is the     *)
(* case: AIManager's _activeTier, the wrapper's _isModelLoaded, the        *)
(* plugin's modelLoaded, and the model the native bridge really holds.     *)
(* They are written by different threads: Dart code between awaits, the    *)
(* platform thread, which handles method calls in the order they were      *)
(* sent and unloads in place, and the plugin's executor, which loads.      *)
(*                                                                         *)
(* An actor is a piece of app code that calls AIManager: the home screen,  *)
(* the splash screen, a query of the orchestrator, a settings page.        *)
(***************************************************************************)
EXTENDS Naturals, Sequences

CONSTANTS
    Actors,         \* the callers of AIManager
    Registered,     \* the tiers whose model is in the registry
    CanRun,         \* the tiers the RAM of the device allows
    Targets,        \* the tiers switchEngine() is called for
    Ready,          \* the tiers tierReadyStream may announce
    InitialFiles,   \* the state of each tier's model file at the start
    Remote,         \* enterprise mode may be set to the remote API
    MayClear,       \* the user may clear the memory
    Attempts,       \* load configurations switchEngine() tries
    None,           \* no tier
    MaxFailures,    \* bound: native loads that fail on a good file
    MaxDeletes,     \* bound: model files deleted
    MaxReady        \* bound: announcements of a tier

\* AIManager._tierRank, shifted by one so that no tier at all (-1) is 0.
Tiers == {"free", "plus", "pro", "enterprise"}
TierRank(t) == CASE t = "free" -> 1 [] t = "plus" -> 2 [] t = "pro" -> 3
                 [] t = "enterprise" -> 4 [] OTHER -> 0

ASSUME TierAssumption ==
    /\ Registered \subseteq Tiers \ {"enterprise"}
    /\ "free" \in Registered
    /\ CanRun \subseteq Tiers
    /\ Targets \subseteq Tiers
    /\ Ready \subseteq Tiers
    /\ None \notin Tiers
ASSUME EngineAssumption ==
    /\ Attempts \in Nat \ {0}
    /\ InitialFiles \in [Tiers -> {"absent", "bad", "good"}]
    /\ Remote \in BOOLEAN /\ MayClear \in BOOLEAN
    /\ MaxFailures \in Nat /\ MaxDeletes \in Nat /\ MaxReady \in Nat

VARIABLES
    files,          \* the model file of each tier
    activeTier,     \* AIManager._activeTier
    switching,      \* AIManager._isSwitching
    pendingTier,    \* AIManager._pendingUpgradeTier
    listening,      \* tiers whose _onTierReady waits for the RAM query
    dartLoaded,     \* FlutterLlama._isModelLoaded
    kotlinLoaded,   \* FlutterLlamaPlugin.modelLoaded
    native,         \* the tier of the model in the native bridge
    channel,        \* calls on their way to the platform thread, by caller
    replies,        \* answers on their way back to Dart, by caller
    pc,             \* where each actor is
    tier,           \* the tier its switchEngine() is for
    loading,        \* the tier whose file it is loading
    attempt,        \* the attempt it is at
    ok,             \* the outcome of its load
    upgrade,        \* its switchEngine() is called by applyPendingUpgrade()
    failures, deletes, readies   \* what has happened of the bounds

mgr   == <<activeTier, switching, pendingTier, listening>>
link  == <<channel, replies>>
eng   == <<dartLoaded, kotlinLoaded, native>>
call  == <<tier, loading, attempt, ok, upgrade>>
env   == <<files, failures, deletes, readies>>
vars  == <<mgr, link, eng, pc, call, env>>

LoadPCs   == {"load", "loadSent", "exec", "inited", "loadReply"}
UnloadPCs == {"unloadSent", "free", "freed", "unloadReply"}
PCs == {"idle", "ramCheck", "resolve", "enterprise", "upgraded"}
          \cup LoadPCs \cup UnloadPCs

\* The values of the variables.
TypeOK ==
    /\ files \in [Tiers -> {"absent", "bad", "good"}]
    /\ activeTier \in Tiers \cup {None}
    /\ switching \in BOOLEAN
    /\ pendingTier \in Tiers \cup {None}
    /\ listening \subseteq Tiers
    /\ dartLoaded \in BOOLEAN
    /\ kotlinLoaded \in BOOLEAN
    /\ native \in Tiers \cup {None}
    /\ channel \in Seq(Actors)
    /\ replies \in Seq(Actors)
    /\ pc \in [Actors -> PCs]
    /\ tier \in [Actors -> Tiers \cup {None}]
    /\ loading \in [Actors -> Tiers \cup {None}]
    /\ attempt \in [Actors -> 0 .. Attempts]
    /\ ok \in [Actors -> BOOLEAN]
    /\ upgrade \in [Actors -> BOOLEAN]
    /\ failures \in 0 .. MaxFailures
    /\ deletes \in 0 .. MaxDeletes
    /\ readies \in 0 .. MaxReady

Init ==
    /\ files = InitialFiles
    /\ activeTier = None /\ switching = FALSE
    /\ pendingTier = None /\ listening = {}
    /\ dartLoaded = FALSE /\ kotlinLoaded = FALSE /\ native = None
    /\ channel = <<>> /\ replies = <<>>
    /\ pc = [a \in Actors |-> "idle"]
    /\ tier = [a \in Actors |-> None]
    /\ loading = [a \in Actors |-> None]
    /\ attempt = [a \in Actors |-> 0]
    /\ ok = [a \in Actors |-> FALSE]
    /\ upgrade = [a \in Actors |-> FALSE]
    /\ failures = 0 /\ deletes = 0 /\ readies = 0

Goto(a, p) == pc' = [pc EXCEPT ![a] = p]

(***************************************************************************)
(* How switchEngine() ends.  Its finally block always clears the flag; it  *)
(* throws or returns, and applyPendingUpgrade() makes false or true of it. *)
(***************************************************************************)
Finish(a) ==
    /\ switching' = FALSE
    /\ tier' = [tier EXCEPT ![a] = None]
    /\ loading' = [loading EXCEPT ![a] = None]
    /\ attempt' = [attempt EXCEPT ![a] = 0]
    /\ ok' = [ok EXCEPT ![a] = FALSE]
    /\ upgrade' = [upgrade EXCEPT ![a] = FALSE]

Throw(a) == Goto(a, "idle") /\ Finish(a)

Return(a) == Goto(a, IF upgrade[a] THEN "upgraded" ELSE "idle") /\ Finish(a)

\* Mutant: the attempts are not counted.
MutantSameAttempt(a, t, n) ==
    /\ Goto(a, "load")
    /\ loading' = [loading EXCEPT ![a] = t]
    /\ attempt' = [attempt EXCEPT ![a] = 1]
    /\ UNCHANGED <<switching, tier, upgrade>>

\* The next load of switchEngine(): an attempt at its tier, or the recovery.
BeginLoad(a, t, n) ==
    /\ Goto(a, "load")
    /\ loading' = [loading EXCEPT ![a] = t]
    /\ attempt' = [attempt EXCEPT ![a] = n]
    /\ UNCHANGED <<switching, tier, upgrade>>

(***************************************************************************)
(* switchEngine(): a call for the active tier, or while another call is at *)
(* work, returns at once and without a word.  Otherwise the model file is  *)
(* validated in full before anything is loaded.                            *)
(***************************************************************************)
\* Mutant: a call is let in while another is at work.
MutantNoLock(t) == activeTier = t
Ignored(t) == activeTier = t \/ switching

Enter(a, t, up) ==
    /\ ~Ignored(t)
    /\ switching' = TRUE
    /\ Goto(a, IF t = "enterprise" THEN "enterprise" ELSE "resolve")
    /\ tier' = [tier EXCEPT ![a] = t]
    /\ upgrade' = [upgrade EXCEPT ![a] = up]
    /\ UNCHANGED <<loading, attempt, ok>>

SwitchEngine(a, t) ==
    /\ pc[a] = "idle"
    /\ Enter(a, t, FALSE)
    /\ UNCHANGED <<activeTier, pendingTier, listening, link, eng, env>>

\* Mutant: a file that exists is taken for a model.
MutantExistsOnly(t) == t \in Registered /\ files[t] # "absent"

\* Path, size and header of the file, then the RAM of the device.
IsValid(t) == t \in Registered /\ files[t] = "good"

Resolve(a) ==
    /\ pc[a] = "resolve"
    /\ \/ /\ IsValid(tier[a]) /\ tier[a] \in CanRun
          /\ BeginLoad(a, tier[a], 1)
          /\ UNCHANGED ok
       \/ /\ ~(IsValid(tier[a]) /\ tier[a] \in CanRun)
          /\ Throw(a)
    /\ UNCHANGED <<activeTier, pendingTier, listening, link, eng, env>>

(***************************************************************************)
(* _switchToEnterpriseModel(): refused unless enabled with a valid key.  A *)
(* local model is loaded if its file exists; for the remote API the model  *)
(* in memory is unloaded.                                                  *)
(***************************************************************************)
EnterpriseRefused(a) ==
    /\ pc[a] = "enterprise"
    /\ Throw(a)
    /\ UNCHANGED <<activeTier, pendingTier, listening, link, eng, env>>

EnterpriseLocal(a) ==
    /\ pc[a] = "enterprise"
    /\ files["enterprise"] # "absent"
    /\ BeginLoad(a, "enterprise", Attempts)
    /\ UNCHANGED <<ok, activeTier, pendingTier, listening, link, eng, env>>

EnterpriseRemote(a) ==
    /\ pc[a] = "enterprise" /\ Remote
    /\ \/ /\ dartLoaded
          /\ Goto(a, "unloadSent")
          /\ channel' = Append(channel, a)
          /\ UNCHANGED <<activeTier, switching, call>>
       \/ /\ ~dartLoaded
          /\ activeTier' = "enterprise"
          /\ Return(a)
          /\ UNCHANGED channel
    /\ UNCHANGED <<pendingTier, listening, replies, eng, env>>

(***************************************************************************)
(* FlutterLlama.loadModel(): the call crosses to the platform thread,      *)
(* which hands it to the executor.  A missing file is reported at once.    *)
(* nativeInitModel() frees the model in memory before it loads the other,  *)
(* in one hold of g_mutex; the plugin's flag is set after it returns.      *)
(***************************************************************************)
SendLoad(a) ==
    /\ pc[a] = "load"
    /\ Goto(a, "loadSent")
    /\ channel' = Append(channel, a)
    /\ UNCHANGED <<mgr, replies, eng, call, env>>

PlatformLoad(a) ==
    /\ pc[a] = "loadSent" /\ channel # <<>> /\ Head(channel) = a
    /\ channel' = Tail(channel)
    /\ Goto(a, "exec")
    /\ UNCHANGED <<mgr, replies, eng, call, env>>

ModelNotFound(a) ==
    /\ pc[a] = "exec" /\ files[loading[a]] = "absent"
    /\ Goto(a, "loadReply")
    /\ replies' = Append(replies, a)
    /\ ok' = [ok EXCEPT ![a] = FALSE]
    /\ UNCHANGED <<mgr, channel, eng, tier, loading, attempt, upgrade, env>>

NativeInitModel(a) ==
    /\ pc[a] = "exec" /\ files[loading[a]] # "absent"
    /\ \/ /\ files[loading[a]] = "good"
          /\ native' = loading[a]
          /\ ok' = [ok EXCEPT ![a] = TRUE]
          /\ UNCHANGED failures
       \/ /\ files[loading[a]] = "bad" \/ failures < MaxFailures
          /\ native' = None
          /\ ok' = [ok EXCEPT ![a] = FALSE]
          /\ failures' = IF files[loading[a]] = "bad" THEN failures
                                                    ELSE failures + 1
    /\ Goto(a, "inited")
    /\ UNCHANGED <<mgr, link, dartLoaded, kotlinLoaded, tier, loading, attempt,
                   upgrade, files, deletes, readies>>

PluginLoaded(a) ==
    /\ pc[a] = "inited"
    /\ kotlinLoaded' = ok[a]
    /\ replies' = Append(replies, a)
    /\ Goto(a, "loadReply")
    /\ UNCHANGED <<mgr, channel, dartLoaded, native, call, env>>

(***************************************************************************)
(* The answer of a load.  A tier that failed at every attempt gives way to *)
(* the free model, if its file is there, and switchEngine() throws even so *)
(* (_activeTier keeps its value when there is no recovery).                *)
(***************************************************************************)
Recovering(a) == loading[a] # tier[a]

\* Mutant: one attempt too many.
MutantOneMore(a) == attempt[a] > Attempts \/ Recovering(a)
Exhausted(a) == attempt[a] = Attempts \/ Recovering(a)

Recoverable(a) ==
    /\ Exhausted(a) /\ ~Recovering(a)
    /\ tier[a] \notin {"free", "enterprise"}
    /\ "free" \in Registered /\ files["free"] # "absent"

LoadReply(a) ==
    /\ pc[a] = "loadReply" /\ replies # <<>> /\ Head(replies) = a
    /\ replies' = Tail(replies)
    /\ dartLoaded' = ok[a]
    /\ activeTier' = IF ok[a] THEN loading[a] ELSE activeTier
    /\ \/ ok[a] /\ ~Recovering(a) /\ Return(a)
       \/ ok[a] /\ Recovering(a) /\ Throw(a)
       \/ /\ ~ok[a] /\ ~Exhausted(a)
          /\ BeginLoad(a, tier[a], attempt[a] + 1)
          /\ UNCHANGED ok
       \/ /\ ~ok[a] /\ Recoverable(a)
          /\ BeginLoad(a, "free", attempt[a])
          /\ UNCHANGED ok
       \/ ~ok[a] /\ Exhausted(a) /\ ~Recoverable(a) /\ Throw(a)
    /\ UNCHANGED <<pendingTier, listening, channel, kotlinLoaded, native, env>>

(***************************************************************************)
(* _safeUnload(), from clearMemory() or on the way to the remote API: only *)
(* if the wrapper says a model is loaded.  The platform thread unloads in  *)
(* place, and only if the plugin's flag says so.                           *)
(***************************************************************************)
ClearMemory(a) ==
    /\ MayClear /\ pc[a] = "idle"
    /\ \/ /\ dartLoaded
          /\ Goto(a, "unloadSent")
          /\ channel' = Append(channel, a)
          /\ UNCHANGED activeTier
       \/ /\ ~dartLoaded
          /\ activeTier' = None
          /\ UNCHANGED <<pc, channel>>
    /\ UNCHANGED <<switching, pendingTier, listening, replies, eng, call, env>>

PlatformUnload(a) ==
    /\ pc[a] = "unloadSent" /\ channel # <<>> /\ Head(channel) = a
    /\ \/ kotlinLoaded /\ Goto(a, "free") /\ UNCHANGED link
       \/ /\ ~kotlinLoaded
          /\ Goto(a, "unloadReply")
          /\ channel' = Tail(channel)
          /\ replies' = Append(replies, a)
    /\ UNCHANGED <<mgr, eng, call, env>>

NativeFreeModel(a) ==
    /\ pc[a] = "free"
    /\ native' = None
    /\ Goto(a, "freed")
    /\ UNCHANGED <<mgr, link, dartLoaded, kotlinLoaded, call, env>>

PluginUnloaded(a) ==
    /\ pc[a] = "freed"
    /\ kotlinLoaded' = FALSE
    /\ channel' = Tail(channel)
    /\ replies' = Append(replies, a)
    /\ Goto(a, "unloadReply")
    /\ UNCHANGED <<mgr, dartLoaded, native, call, env>>

\* Mutant: the active tier outlives its model.
MutantTierStays(a) ==
    /\ pc[a] = "unloadReply" /\ replies # <<>> /\ Head(replies) = a
    /\ replies' = Tail(replies)
    /\ dartLoaded' = FALSE
    /\ \/ tier[a] = None /\ Goto(a, "idle")
             /\ UNCHANGED <<activeTier, switching, call>>
       \/ tier[a] # None /\ activeTier' = "enterprise" /\ Return(a)
    /\ UNCHANGED <<pendingTier, listening, channel, kotlinLoaded, native, env>>

UnloadReply(a) ==
    /\ pc[a] = "unloadReply" /\ replies # <<>> /\ Head(replies) = a
    /\ replies' = Tail(replies)
    /\ dartLoaded' = FALSE
    /\ \/ tier[a] = None /\ activeTier' = None /\ Goto(a, "idle")
             /\ UNCHANGED <<switching, call>>
       \/ tier[a] # None /\ activeTier' = "enterprise" /\ Return(a)
    /\ UNCHANGED <<pendingTier, listening, channel, kotlinLoaded, native, env>>

(***************************************************************************)
(* _onTierReady(): a better tier than the active and the pending one is    *)
(* queued, after the RAM query.  applyPendingUpgrade() takes it, between   *)
(* queries, and forgets it whatever comes of it.                           *)
(***************************************************************************)
OnTierReady(t) ==
    /\ readies < MaxReady
    /\ readies' = readies + 1
    /\ t \notin {"enterprise", "pro"} \cup listening
    /\ TierRank(t) > TierRank(activeTier)
    /\ TierRank(t) > TierRank(pendingTier)
    /\ listening' = listening \cup {t}
    /\ UNCHANGED <<activeTier, switching, pendingTier, link, eng, pc, call,
                   files, failures, deletes>>

QueueUpgrade(t) ==
    /\ t \in listening
    /\ listening' = listening \ {t}
    /\ pendingTier' = IF t \in CanRun THEN t ELSE pendingTier
    /\ UNCHANGED <<activeTier, switching, link, eng, pc, call, env>>

ApplyPendingUpgrade(a) ==
    /\ pc[a] = "idle" /\ pendingTier # None
    /\ pendingTier' = None
    /\ \/ /\ TierRank(pendingTier) > TierRank(activeTier)
          /\ Goto(a, "ramCheck")
          /\ tier' = [tier EXCEPT ![a] = pendingTier]
       \/ /\ TierRank(pendingTier) <= TierRank(activeTier)
          /\ UNCHANGED <<pc, tier>>
    /\ UNCHANGED <<activeTier, switching, listening, link, eng, loading,
                   attempt, ok, upgrade, env>>

RamChecked(a) ==
    /\ pc[a] = "ramCheck"
    /\ \/ tier[a] \in CanRun /\ Enter(a, tier[a], TRUE)
       \/ /\ tier[a] \in CanRun /\ Ignored(tier[a])
          /\ Goto(a, "upgraded")
          /\ UNCHANGED <<switching, call>>
       \/ /\ tier[a] \notin CanRun
          /\ Goto(a, "idle")
          /\ tier' = [tier EXCEPT ![a] = None]
          /\ UNCHANGED <<switching, loading, attempt, ok, upgrade>>
    /\ UNCHANGED <<activeTier, pendingTier, listening, link, eng, env>>

\* applyPendingUpgrade() returned true.
Upgraded(a) ==
    /\ pc[a] = "upgraded"
    /\ Goto(a, "idle")
    /\ tier' = [tier EXCEPT ![a] = None]
    /\ UNCHANGED <<mgr, link, eng, loading, attempt, ok, upgrade, env>>

\* A model is deleted by the user, or arrives by a download.
FileChanges(t) ==
    /\ \/ /\ files[t] # "absent" /\ deletes < MaxDeletes
          /\ files' = [files EXCEPT ![t] = "absent"]
          /\ deletes' = deletes + 1
       \/ /\ files[t] = "absent" /\ t \in Registered
          /\ files' = [files EXCEPT ![t] = "good"]
          /\ UNCHANGED deletes
    /\ UNCHANGED <<mgr, link, eng, pc, call, failures, readies>>

\* What goes on by itself once it is begun: awaits, platform and executor.
Step(a) ==
    \/ RamChecked(a) \/ Upgraded(a) \/ Resolve(a)
    \/ EnterpriseRefused(a) \/ EnterpriseLocal(a) \/ EnterpriseRemote(a)
    \/ SendLoad(a) \/ PlatformLoad(a) \/ ModelNotFound(a)
    \/ NativeInitModel(a) \/ PluginLoaded(a) \/ LoadReply(a)
    \/ PlatformUnload(a) \/ NativeFreeModel(a) \/ PluginUnloaded(a)
    \/ UnloadReply(a)

Next ==
    \/ \E a \in Actors : Step(a) \/ ApplyPendingUpgrade(a) \/ ClearMemory(a)
    \/ \E a \in Actors, t \in Targets : SwitchEngine(a, t)
    \/ \E t \in Ready : OnTierReady(t)
    \/ \E t \in Tiers : QueueUpgrade(t) \/ FileChanges(t)

Spec == Init /\ [][Next]_vars
FairSpec == Spec /\ \A a \in Actors : WF_vars(Step(a))

-----------------------------------------------------------------------------
\* The actor is inside switchEngine(), between setting and clearing the flag.
InSwitch(a) ==
    \/ pc[a] \in {"resolve", "enterprise"} \cup LoadPCs
    \/ pc[a] \in UnloadPCs /\ tier[a] # None

(* The flag _isSwitching is a lock: it is set exactly while one switch is  *)
(* at work, whichever of its paths (refusal, retries, recovery, remote     *)
(* API) the switch takes, and two switches never work at once.             *)
SwitchLock ==
    /\ switching <=> \E a \in Actors : InSwitch(a)
    /\ \A a, b \in Actors : InSwitch(a) /\ InSwitch(b) => a = b

(* "Never evict a working model unless the replacement is downloaded,      *)
(* on-disk, and valid": a model leaves memory only because an unload was   *)
(* asked for, or because a model with a valid file is being loaded.        *)
EvictOnlyForValid ==
    [][native # None /\ native' # native =>
          \E a \in Actors : \/ pc[a] = "free"
                            \/ pc[a] = "exec" /\ files[loading[a]] = "good"]_vars

Quiet == /\ channel = <<>> /\ replies = <<>>
         /\ \A a \in Actors : pc[a] = "idle"

(* When no call is under way, the tier AIManager takes for active is the   *)
(* one in memory (or the enterprise tier, which may be remote), and the    *)
(* wrapper's and the plugin's flags say whether there is one.  As          *)
(* switchEngine() returns early for the active tier, a stale value is      *)
(* never repaired.                                                         *)
ActiveTierIsLoaded ==
    Quiet => /\ \/ native = activeTier
                \/ native = None /\ activeTier = "enterprise"
             /\ dartLoaded <=> native # None
             /\ kotlinLoaded <=> native # None

(* Every switch ends, and with it the lock on all later ones: retries,     *)
(* recovery and refusals included, whatever files come and go meanwhile.   *)
SwitchEnds == switching ~> ~switching
=============================================================================
