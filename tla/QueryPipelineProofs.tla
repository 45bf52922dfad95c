------------------------ MODULE QueryPipelineProofs ------------------------
(***************************************************************************)
(* Proofs about QueryPipeline, for any set of queries of any kind: the     *)
(* variables keep their types, the thinking orb always has a query whose   *)
(* result will take it down, and a stopped query stays silent.             *)
(***************************************************************************)
EXTENDS QueryPipeline, TLAPS

(***************************************************************************)
(* ThinkingHasQuery is not inductive: a stopped query discards its result  *)
(* and leaves the orb alone.  It may, because the orb is on after a stop   *)
(* only for a briefing, which takes it down in any case.                   *)
(***************************************************************************)
OrbInv ==
    thinking => \E q \in waiting : stopRequested => Kind[q] = "briefing"

GuardedIsBriefing ==
    \A q \in Queries : pc[q] = "guarded" => Kind[q] = "briefing"

IInv == TypeOK /\ GuardedIsBriefing /\ OrbInv

(* The end of run() keeps the types of what it writes.                     *)
LEMMA ReturnType ==
    ASSUME TypeOK, NEW q \in Queries, NEW r, Return(q, r)
    PROVE  /\ pc' \in [Queries -> PCs]
           /\ isRunning' \in BOOLEAN
           /\ thinking' \in BOOLEAN
           /\ speaking' \in BOOLEAN
           /\ stopRequested' \in BOOLEAN
           /\ waiting' \subseteq Queries
           /\ shown' \subseteq Queries
  <1>1. pc' \in [Queries -> PCs]
    BY DEF TypeOK, Return, Goto, PCs
  <1>2. thinking' \in BOOLEAN /\ speaking' \in BOOLEAN /\ stopRequested' \in BOOLEAN
    BY DEF TypeOK, Return, Ignore, Discard, Present
  <1>3. shown' \subseteq Queries
    BY DEF TypeOK, Return, Ignore, Discard, Present
  <1>4. waiting' \subseteq Queries /\ isRunning' \in BOOLEAN
    BY DEF TypeOK, Return
  <1> QED BY <1>1, <1>2, <1>3, <1>4

(* The cancel check after an await keeps them too.                         *)
LEMMA GoOnType ==
    ASSUME TypeOK, NEW q \in Queries, NEW p \in PCs, GoOn(q, p)
    PROVE  /\ pc' \in [Queries -> PCs]
           /\ isRunning' \in BOOLEAN
           /\ thinking' \in BOOLEAN
           /\ speaking' \in BOOLEAN
           /\ stopRequested' \in BOOLEAN
           /\ waiting' \subseteq Queries
           /\ shown' \subseteq Queries
  <1>1. CASE Return(q, "empty")
    BY <1>1, ReturnType
  <1>2. CASE /\ Goto(q, p)
             /\ UNCHANGED <<isRunning, thinking, speaking, stopRequested,
                            waiting, shown>>
    BY <1>2 DEF TypeOK, Goto
  <1> QED BY <1>1, <1>2 DEF GoOn

(* A run begins, or stops the one before it.                               *)
LEMMA RunType ==
    ASSUME TypeOK, NEW q \in Queries, Run(q)
    PROVE  /\ pc' \in [Queries -> PCs]
           /\ isRunning' \in BOOLEAN
           /\ cancelFlag' \in BOOLEAN
  BY DEF TypeOK, Run, Goto, PCs, Pipeline

(* Every step keeps the types.                                             *)
LEMMA TypeStep ==
    ASSUME TypeOK, Next
    PROVE  TypeOK'
  <1> USE DEF orch, perm, ui, run, env
  <1>0. /\ MaxStops \in Nat /\ MaxFailures \in Nat
        /\ {"intent", "retrieve", "web", "route", "generate", "log", "search",
            "asking", "pause", "upgrade", "native", "guarded", "preparing",
            "done"} \subseteq PCs
    BY QueriesAssumption DEF PCs, Pipeline
  <1>1. ASSUME NEW q \in Queries,
               Step(q) \/ Fail(q) \/ Timeout(q) \/ Send(q) \/ SendAction(q)
               \/ GuardBriefing(q)
        PROVE  TypeOK'
    <2>1. CASE NativeStop(q)
      BY <2>1, <1>0
      DEF TypeOK, NativeStop, Goto
    <2>2. CASE BeginAfterStop(q)
      BY <2>2, <1>0
      DEF TypeOK, BeginAfterStop, Goto
    <2>3. CASE Brief(q)
      BY <2>3, <1>0, RunType
      DEF TypeOK, Brief
    <2>4. CASE UpgradeDone(q)
      BY <2>4, <1>0, GoOnType, ReturnType
      DEF TypeOK, UpgradeDone, Goto
    <2>5. CASE IntentDone(q)
      BY <2>5, <1>0, GoOnType, ReturnType
      DEF TypeOK, IntentDone, Goto
    <2>6. CASE RetrieveDone(q)
      BY <2>6, <1>0, GoOnType, ReturnType
      DEF TypeOK, RetrieveDone, Goto
    <2>7. CASE CheckPermission(q)
      BY <2>7, <1>0, GoOnType, ReturnType
      DEF TypeOK, CheckPermission, Goto
    <2>8. CASE Allow(q)
      BY <2>8, <1>0
      DEF TypeOK, Allow, Goto
    <2>9. CASE Deny(q)
      BY <2>9, <1>0, GoOnType, ReturnType
      DEF TypeOK, Deny, Goto
    <2>10. CASE Search(q)
      BY <2>10, <1>0, GoOnType, ReturnType
      DEF TypeOK, Search, Goto
    <2>11. CASE RouteDone(q)
      BY <2>11, <1>0, GoOnType, ReturnType
      DEF TypeOK, RouteDone, Goto
    <2>12. CASE BeginGeneration(q)
      BY <2>12, <1>0
      DEF TypeOK, BeginGeneration, Goto
    <2>13. CASE EndGeneration(q)
      BY <2>13, <1>0, GoOnType, ReturnType
      DEF TypeOK, EndGeneration, Goto
    <2>14. CASE Complete(q)
      BY <2>14, <1>0, GoOnType, ReturnType
      DEF TypeOK, Complete, Goto, RevokeTemp
    <2>15. CASE Fail(q)
      BY <2>15, <1>0, GoOnType, ReturnType
      DEF TypeOK, Fail, Goto
    <2>16. CASE Timeout(q)
      BY <2>16, <1>0
      DEF TypeOK, Timeout
    <2>17. CASE Send(q)
      BY <2>17, <1>0, RunType
      DEF TypeOK, Send, Tapped
    <2>18. CASE GuardBriefing(q)
      BY <2>18, <1>0
      DEF TypeOK, GuardBriefing, Goto
    <2>19. CASE SendAction(q)
      BY <2>19, <1>0
      DEF TypeOK, SendAction, Tapped, Goto
    <2>20. CASE ShowBriefing(q)
      BY <2>20, <1>0
      DEF TypeOK, ShowBriefing, Goto
    <2> QED BY <1>1, <2>1, <2>2, <2>3, <2>4, <2>5, <2>6, <2>7, <2>8, <2>9,
               <2>10, <2>11, <2>12, <2>13, <2>14, <2>15, <2>16, <2>17, <2>18,
              <2>19, <2>20 DEF Step
  <1>2. ASSUME StopEverything
        PROVE  TypeOK'
    <2>1. stops' \in 0 .. MaxStops
      BY <1>2, <1>0 DEF TypeOK, StopEverything
    <2>2. stopped' \subseteq Queries
      BY <1>2 DEF TypeOK, StopEverything
    <2> QED BY <1>2, <2>1, <2>2 DEF TypeOK, StopEverything
  <1>3. ASSUME SpeechEnds
        PROVE  TypeOK'
    BY <1>3 DEF TypeOK, SpeechEnds
  <1>4. ASSUME NEW v \in Choices, SetAccess(v)
        PROVE  TypeOK'
    BY <1>4, QueriesAssumption DEF TypeOK, SetAccess
  <1> QED BY <1>1, <1>2, <1>3, <1>4 DEF Next

(* A step that leaves the screen alone leaves the orb alone.               *)
LEMMA OrbKept ==
    ASSUME OrbInv, UNCHANGED <<thinking, stopRequested, waiting>>
    PROVE  OrbInv'
  BY DEF OrbInv

(* The end of a run leaves the orb on only for another query's sake.       *)
LEMMA ReturnOrb ==
    ASSUME OrbInv, NEW q \in Queries, NEW r, Return(q, r)
    PROVE  OrbInv'
  <1>1. CASE Ignore(q)
    BY <1>1 DEF OrbInv, Return, Ignore
  <1>2. CASE Discard(q, r)
    BY <1>2 DEF OrbInv, Return, Discard
  <1>3. CASE Present(q, r)
    BY <1>3 DEF OrbInv, Return, Present
  <1> QED BY <1>1, <1>2, <1>3 DEF Return

(* So does the cancel check after an await.                                *)
LEMMA GoOnOrb ==
    ASSUME OrbInv, NEW q \in Queries, NEW p, GoOn(q, p)
    PROVE  OrbInv'
  <1>1. CASE Return(q, "empty")
    BY <1>1, ReturnOrb
  <1>2. CASE UNCHANGED <<isRunning, thinking, speaking, stopRequested, waiting,
                         shown>>
    BY <1>2, OrbKept
  <1> QED BY <1>1, <1>2 DEF GoOn

(* Every step keeps the orb honest.                                        *)
LEMMA OrbStep ==
    ASSUME TypeOK, GuardedIsBriefing, OrbInv, Next
    PROVE  OrbInv'
  <1> USE DEF orch, perm, ui, run, env
  <1>1. ASSUME NEW q \in Queries,
               Step(q) \/ Fail(q) \/ Timeout(q) \/ Send(q) \/ SendAction(q)
               \/ GuardBriefing(q)
        PROVE  OrbInv'
    <2>1. CASE NativeStop(q)
      BY <2>1 DEF NativeStop, OrbInv
    <2>2. CASE BeginAfterStop(q)
      BY <2>2 DEF BeginAfterStop, OrbInv
    <2>3. CASE Brief(q)
      BY <2>3, OrbKept DEF Brief
    <2>4. CASE UpgradeDone(q)
      BY <2>4, GoOnOrb, ReturnOrb DEF UpgradeDone, OrbInv
    <2>5. CASE IntentDone(q)
      BY <2>5, GoOnOrb, ReturnOrb DEF IntentDone, OrbInv
    <2>6. CASE RetrieveDone(q)
      BY <2>6, GoOnOrb, ReturnOrb DEF RetrieveDone, OrbInv
    <2>7. CASE CheckPermission(q)
      <3>1. CASE UNCHANGED ui
        BY <3>1, OrbKept
      <3> QED BY <2>7, <3>1, GoOnOrb DEF CheckPermission
    <2>8. CASE Allow(q)
      BY <2>8 DEF Allow, OrbInv
    <2>9. CASE Deny(q)
      BY <2>9, GoOnOrb, ReturnOrb DEF Deny, OrbInv
    <2>10. CASE Search(q)
      BY <2>10, GoOnOrb, ReturnOrb DEF Search, OrbInv
    <2>11. CASE RouteDone(q)
      BY <2>11, GoOnOrb, ReturnOrb DEF RouteDone, OrbInv
    <2>12. CASE BeginGeneration(q)
      BY <2>12 DEF BeginGeneration, OrbInv
    <2>13. CASE EndGeneration(q)
      <3>1. CASE UNCHANGED <<thinking, stopRequested, waiting>>
        BY <3>1, OrbKept
      <3> QED BY <2>13, <3>1, GoOnOrb DEF EndGeneration
    <2>14. CASE Complete(q)
      BY <2>14, GoOnOrb, ReturnOrb DEF Complete, OrbInv
    <2>15. CASE Fail(q)
      BY <2>15, GoOnOrb, ReturnOrb DEF Fail, OrbInv
    <2>16. CASE Timeout(q)
      BY <2>16 DEF Timeout, OrbInv
    <2>17. CASE Send(q)
      BY <2>17 DEF Send, Tapped, OrbInv
    <2>18. CASE GuardBriefing(q)
      BY <2>18 DEF GuardBriefing, OrbInv
    <2>19. CASE SendAction(q)
      BY <2>19 DEF SendAction, OrbInv
    <2>20. CASE ShowBriefing(q)
      <3>1. q \in waiting' /\ (stopRequested' => Kind[q] = "briefing")
        BY <2>20 DEF ShowBriefing, GuardedIsBriefing
      <3> QED BY <3>1 DEF OrbInv
    <2> QED BY <1>1, <2>1, <2>2, <2>3, <2>4, <2>5, <2>6, <2>7, <2>8, <2>9,
               <2>10, <2>11, <2>12, <2>13, <2>14, <2>15, <2>16, <2>17, <2>18,
              <2>19, <2>20 DEF Step
  <1>2. ASSUME StopEverything \/ SpeechEnds \/ \E v \in Choices : SetAccess(v)
        PROVE  OrbInv'
    <2>1. CASE StopEverything
      BY <2>1 DEF StopEverything, OrbInv
    <2>2. CASE SpeechEnds \/ \E v \in Choices : SetAccess(v)
      BY <2>2, OrbKept DEF SpeechEnds, SetAccess
    <2> QED BY <1>2, <2>1, <2>2
  <1> QED BY <1>1, <1>2 DEF Next

(* Only a briefing passes the guard of a briefing.                         *)
LEMMA GuardStep ==
    ASSUME TypeOK, GuardedIsBriefing, Next
    PROVE  GuardedIsBriefing'
  <1> USE DEF orch, perm, ui, run, env
  <1>1. ASSUME NEW q \in Queries, GuardBriefing(q)
        PROVE  GuardedIsBriefing'
    BY <1>1 DEF TypeOK, GuardedIsBriefing, GuardBriefing, Goto
  <1>2. ASSUME NEW q \in Queries,
               Step(q) \/ Fail(q) \/ Timeout(q) \/ Send(q) \/ SendAction(q)
        PROVE  GuardedIsBriefing'
    <2>1. \/ UNCHANGED pc
          \/ \E p \in PCs \ {"guarded"} : Goto(q, p)
      <3> HIDE DEF PCs
      <3>0. /\ {"intent", "retrieve", "web", "route", "generate", "log", "search",
                "asking", "pause", "upgrade", "native", "done", "stopping",
                "preparing"}
                  \subseteq PCs \ {"guarded"}
        BY DEF PCs, Pipeline
      <3>1. ASSUME NEW p \in PCs \ {"guarded"}, GoOn(q, p)
            PROVE  \E pp \in PCs \ {"guarded"} : Goto(q, pp)
        BY <3>0, <3>1 DEF GoOn, Return
      <3>2. CASE UpgradeDone(q) \/ IntentDone(q) \/ RetrieveDone(q)
        BY <3>0, <3>1, <3>2 DEF UpgradeDone, IntentDone, RetrieveDone, Return
      <3>3. CASE CheckPermission(q) \/ Allow(q) \/ Deny(q) \/ Search(q)
        BY <3>0, <3>1, <3>3 DEF CheckPermission, Allow, Deny, Search
      <3>4. CASE RouteDone(q) \/ BeginGeneration(q) \/ EndGeneration(q)
        BY <3>0, <3>1, <3>4 DEF RouteDone, BeginGeneration, EndGeneration
      <3>5. CASE Complete(q) \/ Fail(q)
        BY <3>0, <3>5 DEF Complete, Fail, Return
      <3>6. CASE NativeStop(q) \/ BeginAfterStop(q) \/ Brief(q) \/ Send(q)
                \/ SendAction(q) \/ ShowBriefing(q)
        BY <3>0, <3>6 DEF NativeStop, BeginAfterStop, Brief, Send, Run,
           SendAction, ShowBriefing
      <3>7. CASE Timeout(q)
        BY <3>7 DEF Timeout
      <3> QED BY <1>2, <3>2, <3>3, <3>4, <3>5, <3>6, <3>7 DEF Step
    <2> QED BY <2>1 DEF TypeOK, GuardedIsBriefing, Goto
  <1>3. ASSUME StopEverything \/ SpeechEnds \/ \E v \in Choices : SetAccess(v)
        PROVE  GuardedIsBriefing'
    BY <1>3 DEF StopEverything, SpeechEnds, SetAccess, GuardedIsBriefing
  <1> QED BY <1>1, <1>2, <1>3 DEF Next

(* The inductive invariant holds in every reachable state.                 *)
LEMMA IInvHolds == Spec => []IInv
  <1>1. Init => IInv
    <2> SUFFICES ASSUME Init PROVE IInv
      OBVIOUS
    <2>1. /\ pc \in [Queries -> PCs] /\ again \in [Queries -> SUBSET Reasons]
          /\ access \in Accesses /\ webRule \in {"ask", "allow"}
      BY QueriesAssumption DEF Init, PCs
    <2>2. stops \in 0 .. MaxStops /\ failures \in 0 .. MaxFailures
      BY QueriesAssumption DEF Init
    <2>3. GuardedIsBriefing /\ OrbInv
      BY DEF Init, GuardedIsBriefing, OrbInv
    <2> QED BY <2>1, <2>2, <2>3 DEF Init, IInv, TypeOK
  <1>2. IInv /\ [Next]_vars => IInv'
    <2> SUFFICES ASSUME IInv, [Next]_vars PROVE IInv'
      OBVIOUS
    <2>1. CASE Next
      BY <2>1, TypeStep, GuardStep, OrbStep DEF IInv
    <2>2. CASE UNCHANGED vars
      BY <2>2 DEF IInv, TypeOK, GuardedIsBriefing, OrbInv, vars, orch, perm, ui,
         run, env
    <2> QED BY <2>1, <2>2
  <1> QED BY <1>1, <1>2, PTL DEF Spec

(* Type correctness, however the queries interleave.                       *)
THEOREM TypeCorrect == Spec => []TypeOK
  <1>1. IInv => TypeOK
    BY DEF IInv
  <1> QED BY <1>1, IInvHolds, PTL

(* The orb is never on for nobody: whichever queries are stopped, replaced *)
(* or abandoned, one whose result takes the orb down is still awaited.     *)
THEOREM OrbHasQuery == Spec => []ThinkingHasQuery
  <1>1. IInv => ThinkingHasQuery
    BY DEF IInv, OrbInv, ThinkingHasQuery
  <1> QED BY <1>1, IInvHolds, PTL

-----------------------------------------------------------------------------
(***************************************************************************)
(* StoppedIsSilent.  A stop sets _stopRequested, and as long as the query  *)
(* is the only one begun nobody but the query itself resets it, with the   *)
(* result it discards.                                                     *)
(***************************************************************************)
Others(q) == \E p \in Queries \ {q} : pc[p] # "new"

SilentInv ==
    /\ \A q \in waiting \cup stopped : pc[q] # "new"
    /\ \A q \in stopped : \/ Kind[q] = "briefing"
                          \/ Others(q)
                          \/ q \notin waiting
                          \/ stopRequested

(* A step of one query that leaves the screen's books alone.               *)
LEMMA SilentKept ==
    ASSUME TypeOK, SilentInv, NEW q \in Queries, NEW p \in PCs \ {"new"}, Goto(q, p),
           UNCHANGED <<waiting, stopRequested, stopped>>
    PROVE  SilentInv'
  <1>1. \A x \in Queries : pc'[x] = IF x = q THEN p ELSE pc[x]
    BY DEF TypeOK, Goto
  <1>2. \A x \in Queries : Others(x) => Others(x)'
    BY <1>1 DEF Others
  <1> QED BY <1>1, <1>2 DEF SilentInv, TypeOK

(* The end of a run takes its own query off the books, and the flag, if it *)
(* takes that, from others only beside which it has been begun.            *)
LEMMA SilentReturn ==
    ASSUME TypeOK, SilentInv, NEW q \in Queries, NEW r, Return(q, r),
           UNCHANGED stopped
    PROVE  SilentInv'
  <1>1. \A x \in Queries : pc'[x] = IF x = q THEN "done" ELSE pc[x]
    BY DEF TypeOK, Goto, Return
  <1>2. \A x \in Queries \ {q} : Others(x)'
    BY <1>1 DEF Others
  <1>3. waiting' = waiting \ {q}
    BY DEF Return
  <1> QED BY <1>1, <1>2, <1>3 DEF SilentInv, TypeOK

LEMMA SilentGoOn ==
    ASSUME TypeOK, SilentInv, NEW q \in Queries, NEW p \in PCs \ {"new"}, GoOn(q, p),
           UNCHANGED stopped
    PROVE  SilentInv'
  BY SilentKept, SilentReturn DEF GoOn

(* Every step keeps a stopped query silent.                                *)
LEMMA SilentStep ==
    ASSUME TypeOK, GuardedIsBriefing, SilentInv, Next
    PROVE  SilentInv'
  <1> USE DEF orch, perm, ui, run, env
  <1>0. {"intent", "retrieve", "web", "route", "generate", "log", "search",
         "asking", "pause", "upgrade", "native", "guarded", "preparing",
         "stopping", "done"} \subseteq PCs \ {"new"}
    BY DEF PCs, Pipeline
  <1>1. ASSUME NEW q \in Queries,
               Step(q) \/ Fail(q) \/ Timeout(q) \/ Send(q) \/ SendAction(q)
               \/ GuardBriefing(q)
        PROVE  SilentInv'
    <2>1. CASE NativeStop(q) \/ BeginAfterStop(q)
      BY <2>1, <1>0, SilentKept DEF NativeStop, BeginAfterStop
    <2>2. CASE Brief(q)
      BY <2>2, <1>0, SilentKept DEF Brief, Run
    <2>3. CASE UpgradeDone(q)
      BY <2>3, <1>0, SilentGoOn DEF UpgradeDone
    <2>4. CASE IntentDone(q)
      BY <2>4, <1>0, SilentGoOn, SilentReturn DEF IntentDone
    <2>5. CASE RetrieveDone(q)
      BY <2>5, <1>0, SilentGoOn DEF RetrieveDone
    <2>6. CASE CheckPermission(q)
      BY <2>6, <1>0, SilentGoOn, SilentKept DEF CheckPermission
    <2>7. CASE Allow(q)
      BY <2>7, <1>0, SilentKept DEF Allow
    <2>8. CASE Deny(q) \/ Search(q) \/ RouteDone(q)
      BY <2>8, <1>0, SilentGoOn DEF Deny, Search, RouteDone
    <2>9. CASE BeginGeneration(q)
      BY <2>9, <1>0, SilentKept DEF BeginGeneration
    <2>10. CASE EndGeneration(q)
      BY <2>10, <1>0, SilentGoOn, SilentKept DEF EndGeneration
    <2>11. CASE Complete(q) \/ Fail(q)
      BY <2>11, SilentReturn DEF Complete, Fail
    <2>12. CASE Timeout(q)
      <3>1. waiting' = waiting \ {q} /\ q \in waiting /\ UNCHANGED <<stopped, pc>>
        BY <2>12 DEF Timeout
      <3>2. \A x \in Queries \ {q} : Others(x)'
        BY <3>1 DEF Others, SilentInv
      <3> QED BY <3>1, <3>2 DEF SilentInv, TypeOK
    <2>13. CASE Send(q) \/ SendAction(q)
      <3>1. /\ pc[q] = "new"
            /\ waiting' \subseteq waiting \cup {q}
            /\ stopped' \subseteq stopped \cup waiting
        BY <2>13 DEF Send, SendAction, Tapped
      <3>2. PICK p \in PCs \ {"new"} : Goto(q, p)
        BY <2>13, <1>0 DEF Send, SendAction, Run
      <3>3. \A x \in Queries : pc'[x] = IF x = q THEN p ELSE pc[x]
        BY <3>2 DEF TypeOK, Goto
      <3>4. \A x \in Queries \ {q} : Others(x)'
        BY <3>2, <3>3 DEF Others
      <3>5. q \notin stopped'
        BY <3>1 DEF SilentInv
      <3> QED BY <3>1, <3>3, <3>4, <3>5 DEF SilentInv, TypeOK
    <2>14. CASE GuardBriefing(q)
      BY <2>14, <1>0, SilentKept DEF GuardBriefing
    <2>15. CASE ShowBriefing(q)
      <3>1. Kind[q] = "briefing" /\ waiting' = waiting \cup {q} /\ UNCHANGED stopped
        BY <2>15 DEF ShowBriefing, GuardedIsBriefing
      <3>2. \A x \in Queries : pc'[x] = IF x = q THEN "preparing" ELSE pc[x]
        BY <2>15 DEF ShowBriefing, TypeOK, Goto
      <3>3. \A x \in Queries \ {q} : Others(x)'
        BY <3>2 DEF Others
      <3> QED BY <3>1, <3>2, <3>3 DEF SilentInv, TypeOK
    <2> QED BY <1>1, <2>1, <2>2, <2>3, <2>4, <2>5, <2>6, <2>7, <2>8, <2>9, <2>10,
               <2>11, <2>12, <2>13, <2>14, <2>15 DEF Step
  <1>2. CASE StopEverything
    BY <1>2 DEF StopEverything, SilentInv, Others
  <1>3. CASE SpeechEnds \/ \E v \in Choices : SetAccess(v)
    BY <1>3 DEF SpeechEnds, SetAccess, SilentInv, Others
  <1> QED BY <1>1, <1>2, <1>3 DEF Next

(* An answer appears at the end of a run that the screen still awaits, and *)
(* not after a stop, a briefing's apart.                                   *)
LEMMA ShownByPresent ==
    ASSUME NEW q \in Queries, NEW r, Ignore(q) \/ Discard(q, r) \/ Present(q, r),
           NEW x \in shown', x \notin shown
    PROVE  x = q /\ q \in waiting /\ (Kind[q] = "briefing" \/ ~stopRequested)
  <1>1. Present(q, r) /\ r = "answer"
    BY DEF Ignore, Discard, Present
  <1> QED BY <1>1 DEF Present

LEMMA ShownStep ==
    ASSUME TypeOK, Next, NEW x \in shown', x \notin shown
    PROVE  x \in waiting /\ (Kind[x] = "briefing" \/ ~stopRequested)
  <1> USE DEF orch, perm, ui, run, env
  <1>0. ASSUME NEW q \in Queries, NEW r, Return(q, r)
        PROVE  x \in waiting /\ (Kind[x] = "briefing" \/ ~stopRequested)
    BY <1>0, ShownByPresent DEF Return
  <1>1. ASSUME NEW q \in Queries, NEW p, GoOn(q, p)
        PROVE  x \in waiting /\ (Kind[x] = "briefing" \/ ~stopRequested)
    BY <1>0, <1>1 DEF GoOn
  <1>2. ASSUME NEW q \in Queries, Step(q) \/ Fail(q)
        PROVE  x \in waiting /\ (Kind[x] = "briefing" \/ ~stopRequested)
    <2>1. CASE ShowBriefing(q) \/ Brief(q) \/ NativeStop(q) \/ BeginAfterStop(q)
      BY <2>1 DEF ShowBriefing, Brief, NativeStop, BeginAfterStop
    <2>2. CASE UpgradeDone(q) \/ IntentDone(q) \/ RetrieveDone(q)
      BY <2>2, <1>0, <1>1 DEF UpgradeDone, IntentDone, RetrieveDone
    <2>3. CASE CheckPermission(q) \/ Allow(q) \/ Deny(q) \/ Search(q) \/ RouteDone(q)
      BY <2>3, <1>1 DEF CheckPermission, Allow, Deny, Search, RouteDone
    <2>4. CASE BeginGeneration(q) \/ EndGeneration(q)
      BY <2>4, <1>1 DEF BeginGeneration, EndGeneration
    <2>5. CASE Complete(q) \/ Fail(q)
      BY <2>5, <1>0 DEF Complete, Fail
    <2> QED BY <1>2, <2>1, <2>2, <2>3, <2>4, <2>5 DEF Step
  <1>3. ASSUME NEW q \in Queries,
               Timeout(q) \/ Send(q) \/ SendAction(q) \/ GuardBriefing(q)
        PROVE  FALSE
    BY <1>3 DEF Timeout, Send, SendAction, GuardBriefing
  <1>4. ~ (StopEverything \/ SpeechEnds \/ \E v \in Choices : SetAccess(v))
    BY DEF StopEverything, SpeechEnds, SetAccess
  <1> QED BY <1>2, <1>3, <1>4 DEF Next

(* After the stop button nothing of a query of _send() appears, wherever   *)
(* in the pipeline the stop met it and whatever fails or times out, unless *)
(* another query has been begun: for any queries.                          *)
THEOREM StoppedStaysSilent == Spec => StoppedIsSilent
  <1>1. Init => SilentInv
    BY DEF Init, SilentInv
  <1>2. IInv /\ SilentInv /\ [Next]_vars => SilentInv'
    <2>1. CASE UNCHANGED vars
      BY <2>1 DEF SilentInv, Others, vars, ui, run
    <2> QED BY <2>1, SilentStep DEF IInv
  <1>3. IInv /\ SilentInv /\ [Next]_vars =>
           [\A q \in stopped \ shown :
              q \in shown' => \/ Kind[q] = "briefing"
                             \/ \E p \in Queries \ {q} : pc[p] # "new"]_vars
    <2> SUFFICES ASSUME IInv, SilentInv, Next, NEW q \in stopped, q \notin shown,
                        q \in shown'
                 PROVE  Kind[q] = "briefing" \/ Others(q)
      BY DEF Others, vars, ui
    <2>1. q \in waiting /\ (Kind[q] = "briefing" \/ ~stopRequested)
      BY ShownStep DEF IInv
    <2> QED BY <2>1 DEF SilentInv
  <1> QED BY <1>1, <1>2, <1>3, IInvHolds, PTL DEF Spec, StoppedIsSilent
=============================================================================
