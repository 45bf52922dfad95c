--------------------------- MODULE QueryPipeline ---------------------------
(***************************************************************************)
(* A question on its way through the app: the home screen's _send(),       *)
(* _stopEverything() and _triggerMorningBriefing(), Orchestrator.run() and *)
(* stop(), the pipeline between them, and the permission to go online.     *)
(*                                                                         *)
(* One action is one stretch of Dart code between two awaits.  The queries *)
(* share one Orchestrator, so they share its two flags, _isRunning and     *)
(* _cancelled, and the permission: a query reads after each await flags    *)
(* that another query may have written meanwhile.                          *)
(*                                                                         *)
(* On Android a generation holds g_mutex from its first to its last token, *)
(* and nativeStopGeneration() waits for the same mutex; the flag it then   *)
(* sets is cleared by the next generation before it is looked at.  So a    *)
(* stop cuts no generation short: it waits for the end of it.              *)
(***************************************************************************)
EXTENDS Naturals

CONSTANTS
    Queries,        \* what is asked, each once
    Kind,           \* Kind[q]: what the query is (see Kinds)
    None,           \* no query
    InitialAccess,  \* NetworkPermission._access at the start
    Choices,        \* what the user may change it to in the settings
    MaxStops,       \* bound: taps on the stop button
    MaxFailures     \* bound: exceptions in a pipeline

(* A greeting, a question for the model or for the web, the contextual     *)
(* briefing, or a command (an "action") that needs no model.               *)
Kinds    == {"greeting", "plain", "web", "briefing", "action"}
Accesses == {"off", "askEveryTime", "always"}

ASSUME QueriesAssumption ==
    /\ None \notin Queries
    /\ Kind \in [Queries -> Kinds]
    /\ InitialAccess \in Accesses /\ Choices \subseteq Accesses
    /\ MaxStops \in Nat /\ MaxFailures \in Nat

VARIABLES
    isRunning,      \* Orchestrator._isRunning
    cancelFlag,     \* Orchestrator._cancelled
    webRule,        \* CapabilityPermission's rule for webSearch
    access,         \* NetworkPermission._access
    tempGranted,    \* NetworkPermission._tempGranted
    thinking,       \* the home screen's _isThinking
    speaking,       \* the home screen's _isSpeaking
    stopRequested,  \* the home screen's _stopRequested
    pc,             \* where each query is
    again,          \* why its generation has been repeated
    waiting,        \* queries whose result the home screen still awaits
    generating,     \* the query whose generation holds g_mutex
    shown,          \* queries whose answer is in the chat
    consented,      \* history: queries the user let go online
    stopped,        \* history: queries the user stopped
    stops, failures \* what has happened of the bounds

orch == <<isRunning, cancelFlag>>
perm == <<webRule, access, tempGranted>>
ui   == <<thinking, speaking, stopRequested, waiting, shown, stopped>>
run  == <<pc, again, generating, consented>>
env  == <<stops, failures>>
vars == <<orch, perm, ui, run, env>>

Pipeline == {"upgrade", "intent", "retrieve", "web", "asking", "search",
             "route", "generate", "native", "log"}
PCs == {"new", "guarded", "preparing", "stopping", "pause", "done"}
          \cup Pipeline

(* Why ask() generates again: no room for the prompt, or no text.          *)
Reasons == {"overflow", "empty"}

Active(q) == pc[q] \notin {"new", "done"}

(* The values of the variables.                                            *)
TypeOK ==
    /\ isRunning \in BOOLEAN /\ cancelFlag \in BOOLEAN
    /\ webRule \in {"ask", "allow"}
    /\ access \in Accesses
    /\ tempGranted \in BOOLEAN
    /\ thinking \in BOOLEAN /\ speaking \in BOOLEAN /\ stopRequested \in BOOLEAN
    /\ pc \in [Queries -> PCs]
    /\ again \in [Queries -> SUBSET Reasons]
    /\ waiting \subseteq Queries
    /\ generating \in Queries \cup {None}
    /\ shown \subseteq Queries
    /\ consented \subseteq Queries
    /\ stopped \subseteq Queries
    /\ stops \in 0 .. MaxStops
    /\ failures \in 0 .. MaxFailures

Init ==
    /\ isRunning = FALSE /\ cancelFlag = FALSE
    /\ webRule = "ask" /\ access = InitialAccess /\ tempGranted = FALSE
    /\ thinking = FALSE /\ speaking = FALSE /\ stopRequested = FALSE
    /\ pc = [q \in Queries |-> "new"]
    /\ again = [q \in Queries |-> {}]
    /\ waiting = {} /\ generating = None
    /\ shown = {} /\ consented = {} /\ stopped = {}
    /\ stops = 0 /\ failures = 0

Goto(q, p) == pc' = [pc EXCEPT ![q] = p]

(***************************************************************************)
(* The end of run(): its finally block, and what the home screen does with *)
(* the result r, an answer, the empty result of a cancelled query, or an   *)
(* error.  A screen that gave up on the query ignores it.                  *)
(***************************************************************************)
Ignore(q) ==
    /\ q \notin waiting
    /\ UNCHANGED <<thinking, speaking, stopRequested, shown>>

Discard(q, r) ==
    /\ q \in waiting /\ Kind[q] # "briefing"
    /\ r # "error" /\ stopRequested
    /\ stopRequested' = FALSE
    /\ UNCHANGED <<thinking, speaking, shown>>

(* Mutant: the answer of a stopped query is presented.                     *)
MutantNoDiscard(q, r) ==
    /\ q \in waiting
    /\ thinking' = FALSE
    /\ speaking' = (speaking \/ (r = "answer" /\ Kind[q] # "briefing"))
    /\ shown' = IF r = "answer" THEN shown \cup {q} ELSE shown
    /\ UNCHANGED stopRequested

(* Mutant: the orb goes on after an error.                                 *)
MutantOrbStays(q, r) ==
    /\ q \in waiting
    /\ Kind[q] = "briefing" \/ r = "error" \/ ~stopRequested
    /\ thinking' = (thinking /\ r = "error")
    /\ speaking' = (speaking \/ (r = "answer" /\ Kind[q] # "briefing"))
    /\ shown' = IF r = "answer" THEN shown \cup {q} ELSE shown
    /\ UNCHANGED stopRequested

Present(q, r) ==
    /\ q \in waiting
    /\ Kind[q] = "briefing" \/ r = "error" \/ ~stopRequested
    /\ thinking' = FALSE
    /\ speaking' = (speaking \/ (r = "answer" /\ Kind[q] # "briefing"))
    /\ shown' = IF r = "answer" THEN shown \cup {q} ELSE shown
    /\ UNCHANGED stopRequested

Return(q, r) ==
    /\ Goto(q, "done")
    /\ isRunning' = FALSE
    /\ Ignore(q) \/ Discard(q, r) \/ Present(q, r)
    /\ waiting' = waiting \ {q}

(* `if (_cancelled) return OrchestratorResult.empty;` after an await.      *)
GoOn(q, p) ==
    \/ cancelFlag /\ Return(q, "empty")
    \/ /\ ~cancelFlag /\ Goto(q, p)
       /\ UNCHANGED <<isRunning, thinking, speaking, stopRequested, waiting,
                      shown>>

(***************************************************************************)
(* run(): a run that finds another one at work stops it, waits for the     *)
(* native side and 50 ms more, and takes both flags for itself.            *)
(***************************************************************************)
Run(q) ==
    \/ /\ isRunning
       /\ cancelFlag' = TRUE
       /\ Goto(q, "stopping")
       /\ UNCHANGED isRunning
    \/ /\ ~isRunning
       /\ cancelFlag' = FALSE /\ isRunning' = TRUE
       /\ Goto(q, "upgrade")

NativeStop(q) ==
    /\ pc[q] = "stopping" /\ generating = None
    /\ Goto(q, "pause")
    /\ UNCHANGED <<orch, perm, ui, again, generating, consented, env>>

BeginAfterStop(q) ==
    /\ pc[q] = "pause"
    /\ cancelFlag' = FALSE /\ isRunning' = TRUE
    /\ Goto(q, "upgrade")
    /\ UNCHANGED <<perm, ui, again, generating, consented, env>>

(***************************************************************************)
(* The home screen.  _send() stops what is going on, if the screen says    *)
(* something is, and forgets that it did.  A command is answered with a    *)
(* card and needs no run.  A briefing is guarded, but awaits come between  *)
(* the guard, the orb and the run.  While the permission dialog is open    *)
(* nothing else on the screen can be tapped.                               *)
(***************************************************************************)
DialogOpen == \E q \in Queries : pc[q] = "asking"

Tapped(q) ==
    /\ pc[q] = "new" /\ Kind[q] # "briefing" /\ ~DialogOpen
    /\ stopped' = IF thinking \/ speaking THEN stopped \cup waiting ELSE stopped
    /\ stopRequested' = FALSE
    /\ speaking' = FALSE

Send(q) ==
    /\ Tapped(q) /\ Kind[q] # "action"
    /\ Run(q)
    /\ thinking' = TRUE
    /\ waiting' = waiting \cup {q}
    /\ UNCHANGED <<perm, shown, again, generating, consented, env>>

SendAction(q) ==
    /\ Tapped(q) /\ Kind[q] = "action"
    /\ cancelFlag' = (cancelFlag \/ thinking \/ speaking)
    /\ thinking' = FALSE
    /\ Goto(q, "done")
    /\ UNCHANGED <<isRunning, perm, waiting, shown, again, generating,
                   consented, env>>

GuardBriefing(q) ==
    /\ pc[q] = "new" /\ Kind[q] = "briefing"
    /\ ~thinking
    /\ Goto(q, "guarded")
    /\ UNCHANGED <<orch, perm, ui, again, generating, consented, env>>

ShowBriefing(q) ==
    /\ pc[q] = "guarded"
    /\ thinking' = TRUE
    /\ waiting' = waiting \cup {q}
    /\ Goto(q, "preparing")
    /\ UNCHANGED <<orch, perm, speaking, stopRequested, shown, stopped, again,
                   generating, consented, env>>

Brief(q) ==
    /\ pc[q] = "preparing"
    /\ Run(q)
    /\ UNCHANGED <<perm, ui, again, generating, consented, env>>

StopEverything ==
    /\ stops < MaxStops /\ stops' = stops + 1
    /\ thinking \/ speaking
    /\ ~DialogOpen
    /\ stopRequested' = TRUE /\ cancelFlag' = TRUE
    /\ thinking' = FALSE /\ speaking' = FALSE
    /\ stopped' = stopped \cup waiting
    /\ UNCHANGED <<isRunning, perm, waiting, shown, run, failures>>

(* The screen gives up after two minutes (45 seconds for a briefing) and   *)
(* says so, unless the user has stopped the query; the run goes on.        *)
Timeout(q) ==
    /\ q \in waiting /\ pc[q] # "preparing"
    /\ \/ /\ Kind[q] # "briefing" /\ stopRequested
          /\ stopRequested' = FALSE
          /\ UNCHANGED <<thinking, speaking>>
       \/ /\ Kind[q] = "briefing" \/ ~stopRequested
          /\ thinking' = FALSE
          /\ speaking' = (speaking \/ Kind[q] # "briefing")
          /\ UNCHANGED stopRequested
    /\ waiting' = waiting \ {q}
    /\ UNCHANGED <<orch, perm, shown, stopped, run, env>>

SpeechEnds ==
    /\ speaking /\ ~stopRequested
    /\ speaking' = FALSE
    /\ UNCHANGED <<orch, perm, thinking, stopRequested, waiting, shown, stopped,
                   run, env>>

SetAccess(v) ==
    /\ ~DialogOpen
    /\ access' = v
    /\ UNCHANGED <<orch, webRule, tempGranted, ui, run, env>>

(***************************************************************************)
(* _runPipeline(), from await to await.                                    *)
(***************************************************************************)
UpgradeDone(q) ==
    /\ pc[q] = "upgrade"
    /\ GoOn(q, "intent")
    /\ UNCHANGED <<cancelFlag, perm, stopped, again, generating, consented,
                   env>>

IntentDone(q) ==
    /\ pc[q] = "intent"
    /\ IF Kind[q] = "greeting" /\ ~cancelFlag THEN Return(q, "answer")
                                            ELSE GoOn(q, "retrieve")
    /\ UNCHANGED <<cancelFlag, perm, stopped, again, generating, consented,
                   env>>

RetrieveDone(q) ==
    /\ pc[q] = "retrieve"
    /\ GoOn(q, IF Kind[q] = "web" THEN "web" ELSE "route")
    /\ UNCHANGED <<cancelFlag, perm, stopped, again, generating, consented,
                   env>>

(* _webSearch(): the rule in memory first, then the preference, then the   *)
(* user.                                                                   *)
IsAllowed == access = "always" \/ tempGranted
NeedsPrompt == access = "askEveryTime" /\ ~tempGranted
MaySearch == webRule = "allow" \/ IsAllowed

CheckPermission(q) ==
    /\ pc[q] = "web"
    /\ \/ /\ MaySearch \/ NeedsPrompt
          /\ Goto(q, IF MaySearch THEN "search" ELSE "asking")
          /\ UNCHANGED <<isRunning, ui>>
       \/ /\ ~MaySearch /\ ~NeedsPrompt
          /\ GoOn(q, "route")
          /\ UNCHANGED stopped
    /\ UNCHANGED <<cancelFlag, perm, again, generating, consented, env>>

Allow(q) ==
    /\ pc[q] = "asking"
    /\ tempGranted' = TRUE /\ webRule' = "allow"
    /\ consented' = consented \cup {q}
    /\ Goto(q, "search")
    /\ UNCHANGED <<orch, access, ui, again, generating, env>>

Deny(q) ==
    /\ pc[q] = "asking"
    /\ GoOn(q, "route")
    /\ UNCHANGED <<cancelFlag, perm, stopped, again, generating, consented,
                   env>>

Search(q) ==
    /\ pc[q] = "search"
    /\ GoOn(q, "route")
    /\ UNCHANGED <<cancelFlag, perm, stopped, again, generating, consented, env>>

RouteDone(q) ==
    /\ pc[q] = "route"
    /\ GoOn(q, "generate")
    /\ UNCHANGED <<cancelFlag, perm, stopped, again, generating, consented,
                   env>>

(* ask(): the executor runs one generation at a time; the first, if it     *)
(* fails for want of room, is repeated, and so is one that yields no text. *)
BeginGeneration(q) ==
    /\ pc[q] = "generate" /\ generating = None
    /\ generating' = q
    /\ Goto(q, "native")
    /\ UNCHANGED <<orch, perm, ui, again, consented, env>>

(* Mutant: it is repeated without end.                                     *)
MutantRepeatForEver(q, why) == TRUE
MayRepeat(q, why) ==
    IF why = "overflow" THEN again[q] = {} ELSE "empty" \notin again[q]

EndGeneration(q) ==
    /\ pc[q] = "native"
    /\ generating' = None
    /\ \/ GoOn(q, "log") /\ UNCHANGED again
       \/ /\ \E why \in Reasons :
                /\ MayRepeat(q, why)
                /\ again' = [again EXCEPT ![q] = @ \cup {why}]
          /\ Goto(q, "generate")
          /\ UNCHANGED <<isRunning, thinking, speaking, stopRequested, waiting,
                         shown>>
    /\ UNCHANGED <<cancelFlag, perm, stopped, consented, env>>

(* Mutant: the grant is turned into a refusal.                             *)
MutantRevokeBlocks == tempGranted' = FALSE /\ webRule' = "deny"
RevokeTemp == tempGranted' = FALSE /\ webRule' = "ask"

(* The turn is logged and indexed, and the temporary grants are revoked.   *)
Complete(q) ==
    /\ pc[q] = "log"
    /\ RevokeTemp
    /\ Return(q, "answer")
    /\ UNCHANGED <<cancelFlag, access, stopped, again, generating, consented,
                   env>>

(* An exception leaves the pipeline: a model that is not ready, a failed   *)
(* generation, a database error.                                           *)
Fail(q) ==
    /\ pc[q] \in {"retrieve", "route", "generate", "native", "log"}
    /\ failures < MaxFailures /\ failures' = failures + 1
    /\ generating' = IF generating = q THEN None ELSE generating
    /\ Return(q, "error")
    /\ UNCHANGED <<cancelFlag, perm, stopped, again, consented, stops>>

(***************************************************************************)
(* The specification.  Dart, the platform and the speech engine go on with *)
(* what they have begun, and the user answers a dialog; nobody has to ask, *)
(* to stop or to fail.                                                     *)
(***************************************************************************)
Step(q) ==
    \/ ShowBriefing(q) \/ Brief(q) \/ NativeStop(q) \/ BeginAfterStop(q)
    \/ UpgradeDone(q) \/ IntentDone(q) \/ RetrieveDone(q)
    \/ CheckPermission(q) \/ Allow(q) \/ Deny(q) \/ Search(q) \/ RouteDone(q)
    \/ BeginGeneration(q) \/ EndGeneration(q) \/ Complete(q)

Next ==
    \/ \E q \in Queries : \/ Step(q) \/ Fail(q) \/ Timeout(q)
                          \/ Send(q) \/ SendAction(q) \/ GuardBriefing(q)
    \/ StopEverything
    \/ SpeechEnds
    \/ \E v \in Choices : SetAccess(v)

Spec == Init /\ [][Next]_vars
FairSpec == Spec /\ \A q \in Queries : WF_vars(Step(q))

-----------------------------------------------------------------------------
(* The thinking orb stands for a query: as long as the screen shows it,    *)
(* the screen awaits a result that will take it down.                      *)
ThinkingHasQuery == thinking => waiting # {}

(* Every query that is asked comes to an end (and, by the invariant above, *)
(* takes the orb with it), whatever is stopped, abandoned or asked         *)
(* meanwhile: no run waits for another one that waits for it.              *)
EveryQueryEnds == \A q \in Queries : Active(q) ~> pc[q] = "done"

(* _stopEverything(): "any in-flight result should be discarded". A query  *)
(* of _send() is, wherever the stop finds it, as long as no other query    *)
(* has been begun, which would reset the flags. (A briefing that is at its *)
(* last await is shown all the same.)                                      *)
StoppedIsSilent ==
    [][\A q \in stopped \ shown :
          q \in shown' => \/ Kind[q] = "briefing"
                         \/ \E p \in Queries \ {q} : pc[p] # "new"]_vars

(* grantTemp(): "Grant temporary access for the current query."  A query   *)
(* searches the web only with the permanent access, or with the user's     *)
(* consent to this query.                                                  *)
SearchHasConsent ==
    [][\A q \in Queries : pc[q] # "search" /\ pc'[q] = "search" =>
          access = "always" \/ q \in consented']_vars
=============================================================================
