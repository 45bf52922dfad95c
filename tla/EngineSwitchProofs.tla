------------------------- MODULE EngineSwitchProofs -------------------------
(***************************************************************************)
(* Proofs about EngineSwitch, for any set of actors, any number of         *)
(* attempts and any bounds: the variables keep their types, _isSwitching   *)
(* is a lock that every path of switchEngine() gives back, a model is      *)
(* evicted for a valid one only, and, with the app's registry, what is     *)
(* taken for loaded is loaded.                                             *)
(***************************************************************************)
EXTENDS EngineSwitch, SequenceTheorems, TLAPS

(***************************************************************************)
(* What SwitchLock and TypeOK rest on: an actor at rest is for no tier,    *)
(* one inside switchEngine() is for one (an unload on the way to the       *)
(* remote API is told from a clearMemory() by it), and the platform thread *)
(* is at the call that heads its queue while it unloads.                   *)
(***************************************************************************)
AtRestForNoTier == \A a \in Actors : pc[a] = "idle" => tier[a] = None
SwitchForTier ==
    \A a \in Actors :
        pc[a] \in {"resolve", "enterprise"} \cup LoadPCs => tier[a] \in Tiers
UnloadHeadsQueue ==
    \A a \in Actors :
        pc[a] \in {"free", "freed"} => channel # <<>> /\ Head(channel) = a

IInv == TypeOK /\ AtRestForNoTier /\ SwitchForTier /\ UnloadHeadsQueue
               /\ SwitchLock

(* The queues of the platform channel: what appending a call, or taking    *)
(* the one at the head, leaves.                                            *)
LEMMA QueueFacts ==
    ASSUME NEW s \in Seq(Actors), NEW a \in Actors
    PROVE  /\ Append(s, a) \in Seq(Actors)
           /\ Append(s, a) # <<>>
           /\ s # <<>> => Head(Append(s, a)) = Head(s)
           /\ s # <<>> => Tail(s) \in Seq(Actors)
  <1>1. Append(s, a) \in Seq(Actors) /\ Len(Append(s, a)) = Len(s) + 1
    BY AppendProperties
  <1>2. Append(s, a) # <<>>
    BY AppendProperties
  <1>3. s # <<>> => Head(Append(s, a)) = Head(s)
    BY AppendProperties
  <1>4. s # <<>> => Tail(s) \in Seq(Actors)
    BY HeadTailProperties
  <1> QED BY <1>1, <1>2, <1>3, <1>4

(* The initial state: nobody is inside switchEngine().                     *)
LEMMA InitHolds == Init => IInv
  <1> SUFFICES ASSUME Init PROVE IInv
    OBVIOUS
  <1>1. TypeOK
    <2>1. /\ files \in [Tiers -> {"absent", "bad", "good"}]
          /\ pc \in [Actors -> PCs]
      BY EngineAssumption DEF Init, PCs
    <2>2. /\ activeTier \in Tiers \cup {None}
          /\ pendingTier \in Tiers \cup {None}
          /\ native \in Tiers \cup {None}
          /\ tier \in [Actors -> Tiers \cup {None}]
          /\ loading \in [Actors -> Tiers \cup {None}]
      BY DEF Init
    <2>3. /\ attempt \in [Actors -> 0 .. Attempts]
          /\ failures \in 0 .. MaxFailures
          /\ deletes \in 0 .. MaxDeletes
          /\ readies \in 0 .. MaxReady
      BY EngineAssumption DEF Init
    <2>4. channel \in Seq(Actors) /\ replies \in Seq(Actors)
      BY DEF Init
    <2>5. /\ switching \in BOOLEAN /\ dartLoaded \in BOOLEAN
          /\ kotlinLoaded \in BOOLEAN /\ listening \subseteq Tiers
          /\ ok \in [Actors -> BOOLEAN] /\ upgrade \in [Actors -> BOOLEAN]
      BY DEF Init
    <2> QED BY <2>1, <2>2, <2>3, <2>4, <2>5 DEF TypeOK
  <1>2. AtRestForNoTier /\ SwitchForTier /\ UnloadHeadsQueue
    BY DEF Init, AtRestForNoTier, SwitchForTier, UnloadHeadsQueue, LoadPCs
  <1>3. SwitchLock
    BY DEF Init, SwitchLock, InSwitch, LoadPCs, UnloadPCs
  <1> QED BY <1>1, <1>2, <1>3 DEF IInv

(* The end of switchEngine() keeps the types of what it resets.            *)
LEMMA FinishType ==
    ASSUME TypeOK, NEW a \in Actors, Finish(a)
    PROVE  /\ switching' \in BOOLEAN
           /\ tier' \in [Actors -> Tiers \cup {None}]
           /\ loading' \in [Actors -> Tiers \cup {None}]
           /\ attempt' \in [Actors -> 0 .. Attempts]
           /\ ok' \in [Actors -> BOOLEAN]
           /\ upgrade' \in [Actors -> BOOLEAN]
  <1>1. 0 \in 0 .. Attempts
    BY EngineAssumption
  <1> QED BY <1>1 DEF TypeOK, Finish

(* Both ways out of switchEngine(), by an exception and by a return.       *)
LEMMA EndType ==
    ASSUME TypeOK, NEW a \in Actors, Throw(a) \/ Return(a)
    PROVE  pc' \in [Actors -> PCs] /\ Finish(a)
  BY DEF TypeOK, Throw, Return, Goto, PCs

(* Every step keeps the types: an unload takes the head off a queue that   *)
(* is not empty, and a retry never counts past the last attempt.           *)
LEMMA TypeStep ==
    ASSUME TypeOK, SwitchForTier, UnloadHeadsQueue, Next
    PROVE  TypeOK'
  <1> USE DEF TypeOK, mgr, link, eng, call, env
  <1>0. /\ Attempts \in Nat /\ Attempts # 0
        /\ MaxFailures \in Nat /\ MaxDeletes \in Nat /\ MaxReady \in Nat
    BY EngineAssumption
  <1>1. ASSUME NEW a \in Actors, Step(a) \/ ApplyPendingUpgrade(a) \/ ClearMemory(a)
        PROVE  TypeOK'
    <2>1. CASE RamChecked(a)
      BY <2>1 DEF RamChecked, Goto, Enter, Ignored, PCs, LoadPCs, UnloadPCs
    <2>2. CASE Upgraded(a)
      BY <2>2 DEF Upgraded, Goto, PCs, LoadPCs, UnloadPCs
    <2>3. CASE Resolve(a)
      <3>1. ASSUME BeginLoad(a, tier[a], 1), UNCHANGED ok
            PROVE  /\ pc' \in [Actors -> PCs]
                   /\ loading' \in [Actors -> Tiers \cup {None}]
                   /\ attempt' \in [Actors -> 0 .. Attempts]
                   /\ UNCHANGED <<switching, tier, upgrade, ok>>
        BY <3>1, <1>0 DEF BeginLoad, Goto, PCs, LoadPCs
      <3> QED BY <2>3, <3>1, FinishType, EndType DEF Resolve
    <2>4. CASE EnterpriseRefused(a)
      BY <2>4, FinishType, EndType DEF EnterpriseRefused
    <2>5. CASE EnterpriseLocal(a)
      BY <2>5, <1>0 DEF EnterpriseLocal, Goto, BeginLoad, PCs, LoadPCs,
         UnloadPCs, Tiers
    <2>6. CASE EnterpriseRemote(a)
      BY <2>6, QueueFacts, FinishType, EndType, ZenonT(60)
      DEF EnterpriseRemote, Goto, PCs, UnloadPCs, Tiers
    <2>7. CASE SendLoad(a)
      BY <2>7, QueueFacts DEF SendLoad, Goto, PCs, LoadPCs, UnloadPCs
    <2>8. CASE PlatformLoad(a)
      BY <2>8, QueueFacts DEF PlatformLoad, Goto, PCs, LoadPCs, UnloadPCs
    <2>9. CASE ModelNotFound(a)
      BY <2>9, QueueFacts DEF ModelNotFound, Goto, PCs, LoadPCs, UnloadPCs
    <2>10. CASE NativeInitModel(a)
      <3>1. failures' \in 0 .. MaxFailures
        BY <2>10, <1>0 DEF NativeInitModel
      <3>2. native' \in Tiers \cup {None} /\ ok' \in [Actors -> BOOLEAN]
        BY <2>10 DEF NativeInitModel
      <3>3. pc' \in [Actors -> PCs]
        BY <2>10 DEF NativeInitModel, Goto, PCs, LoadPCs
      <3> QED BY <2>10, <3>1, <3>2, <3>3 DEF NativeInitModel
    <2>11. CASE PluginLoaded(a)
      BY <2>11, QueueFacts DEF PluginLoaded, Goto, PCs, LoadPCs, UnloadPCs
    <2>12. CASE LoadReply(a)
      <3>1. /\ replies' \in Seq(Actors)
            /\ dartLoaded' \in BOOLEAN
            /\ activeTier' \in Tiers \cup {None}
        BY <2>12, QueueFacts DEF LoadReply
      <3>2. ASSUME NEW t \in Tiers \cup {None}, NEW n \in 0 .. Attempts,
                   BeginLoad(a, t, n), UNCHANGED ok
            PROVE  /\ pc' \in [Actors -> PCs]
                   /\ loading' \in [Actors -> Tiers \cup {None}]
                   /\ attempt' \in [Actors -> 0 .. Attempts]
                   /\ UNCHANGED <<switching, tier, upgrade, ok>>
        BY <3>2 DEF BeginLoad, Goto, PCs, LoadPCs
      <3>3. ASSUME Throw(a) \/ Return(a)
            PROVE  TypeOK'
        BY <2>12, <3>1, <3>3, FinishType, EndType DEF LoadReply
      <3>4. ASSUME ~Exhausted(a), BeginLoad(a, tier[a], attempt[a] + 1),
                   UNCHANGED ok
            PROVE  TypeOK'
        <4>1. attempt[a] + 1 \in 0 .. Attempts
          BY <3>4, <1>0 DEF Exhausted
        <4> QED BY <2>12, <3>1, <3>2, <3>4, <4>1 DEF LoadReply
      <3>5. ASSUME BeginLoad(a, "free", attempt[a]), UNCHANGED ok
            PROVE  TypeOK'
        <4>1. "free" \in Tiers /\ attempt[a] \in 0 .. Attempts
          BY DEF Tiers
        <4> QED BY <2>12, <3>1, <3>2, <3>5, <4>1 DEF LoadReply
      <3> QED BY <2>12, <3>3, <3>4, <3>5 DEF LoadReply
    <2>13. CASE PlatformUnload(a)
      BY <2>13, QueueFacts, ZenonT(60)
      DEF PlatformUnload, Goto, PCs, LoadPCs, UnloadPCs
    <2>14. CASE NativeFreeModel(a)
      BY <2>14 DEF NativeFreeModel, Goto, PCs, LoadPCs, UnloadPCs
    <2>15. CASE PluginUnloaded(a)
      BY <2>15, QueueFacts DEF PluginUnloaded, Goto, PCs, LoadPCs, UnloadPCs,
         UnloadHeadsQueue
    <2>16. CASE UnloadReply(a)
      BY <2>16, QueueFacts, FinishType, EndType, ZenonT(60)
      DEF UnloadReply, Goto, PCs, Tiers
    <2>17. CASE ApplyPendingUpgrade(a)
      <3>1. pc' \in [Actors -> PCs]
        BY <2>17 DEF ApplyPendingUpgrade, Goto, PCs
      <3>2. /\ tier' \in [Actors -> Tiers \cup {None}]
            /\ pendingTier' \in Tiers \cup {None}
        BY <2>17 DEF ApplyPendingUpgrade
      <3> QED BY <2>17, <3>1, <3>2 DEF ApplyPendingUpgrade
    <2>18. CASE ClearMemory(a)
      BY <2>18, QueueFacts DEF ClearMemory, Goto, PCs, LoadPCs, UnloadPCs
    <2> QED BY <1>1, <2>1, <2>2, <2>3, <2>4, <2>5, <2>6, <2>7, <2>8, <2>9,
               <2>10, <2>11, <2>12, <2>13, <2>14, <2>15, <2>16, <2>17, <2>18
               DEF Step
  <1>2. ASSUME NEW a \in Actors, NEW t \in Targets, SwitchEngine(a, t)
        PROVE  TypeOK'
    BY <1>2, TierAssumption DEF SwitchEngine, Enter, Goto, PCs
  <1>3. ASSUME NEW t \in Ready, OnTierReady(t)
        PROVE  TypeOK'
    BY <1>3, TierAssumption, <1>0 DEF OnTierReady
  <1>4. ASSUME NEW t \in Tiers, QueueUpgrade(t)
        PROVE  TypeOK'
    BY <1>4 DEF QueueUpgrade
  <1>5. ASSUME NEW t \in Tiers, FileChanges(t)
        PROVE  TypeOK'
    <2>1. files' \in [Tiers -> {"absent", "bad", "good"}]
      BY <1>5 DEF FileChanges
    <2>2. deletes' \in 0 .. MaxDeletes
      BY <1>5, <1>0 DEF FileChanges
    <2> QED BY <1>5, <2>1, <2>2 DEF FileChanges
  <1> QED BY <1>1, <1>2, <1>3, <1>4, <1>5 DEF Next

(* What one actor's step may do to the lock: take it when it is free, keep *)
(* things as they are, or give it back.                                    *)
LEMMA LockMove ==
    ASSUME SwitchLock, NEW a \in Actors,
           \A b \in Actors \ {a} : InSwitch(b)' <=> InSwitch(b),
           \/ ~switching /\ switching' /\ InSwitch(a)'
           \/ (switching' <=> switching) /\ (InSwitch(a)' <=> InSwitch(a))
           \/ InSwitch(a) /\ ~switching' /\ ~InSwitch(a)'
    PROVE  SwitchLock'
  BY DEF SwitchLock

(* The rest of the invariant, step by step.                                *)
LEMMA InvStep ==
    ASSUME IInv, Next, TypeOK'
    PROVE  IInv'
  <1> DEFINE Books == AtRestForNoTier /\ SwitchForTier /\ UnloadHeadsQueue
  <1> USE DEF IInv, TypeOK, mgr, link, eng, call, env
  <1>0. "enterprise" \in Tiers /\ "free" \in Tiers /\ None \notin Tiers
    BY TierAssumption DEF Tiers
  <1>1. ASSUME NEW a \in Actors, Step(a) \/ ApplyPendingUpgrade(a) \/ ClearMemory(a)
        PROVE  Books' /\ SwitchLock'
    <2>1. CASE RamChecked(a)
      <3>1. Books'
        <4>1. AtRestForNoTier'
          BY <2>1, <1>0 DEF RamChecked, Goto, Enter, Ignored, AtRestForNoTier
        <4>2. SwitchForTier'
          BY <2>1, <1>0, TierAssumption DEF RamChecked, Goto, Enter, Ignored,
             SwitchForTier, LoadPCs
        <4>3. UnloadHeadsQueue'
          BY <2>1, QueueFacts DEF RamChecked, Goto, Enter, Ignored, UnloadHeadsQueue
        <4> QED BY <4>1, <4>2, <4>3
      <3>2. SwitchLock'
        <4>1. \A b \in Actors \ {a} : InSwitch(b)' <=> InSwitch(b)
          BY <2>1 DEF RamChecked, Goto, Enter, Ignored, InSwitch
        <4>2. \/ ~switching /\ switching' /\ InSwitch(a)'
              \/ (switching' <=> switching) /\ (InSwitch(a)' <=> InSwitch(a))
              \/ InSwitch(a) /\ ~switching' /\ ~InSwitch(a)'
          BY <2>1, <1>0 DEF RamChecked, Goto, Enter, Ignored, InSwitch,
             AtRestForNoTier, SwitchForTier,
             LoadPCs, UnloadPCs
        <4> QED BY <4>1, <4>2, LockMove
      <3> QED BY <3>1, <3>2
    <2>2. CASE Upgraded(a)
      <3>1. Books'
        BY <2>2, <1>0, QueueFacts
        DEF Upgraded, Goto, AtRestForNoTier,
            SwitchForTier, UnloadHeadsQueue, LoadPCs
      <3>2. SwitchLock'
        <4>1. \A b \in Actors \ {a} : InSwitch(b)' <=> InSwitch(b)
          BY <2>2 DEF Upgraded, Goto, InSwitch
        <4>2. \/ ~switching /\ switching' /\ InSwitch(a)'
              \/ (switching' <=> switching) /\ (InSwitch(a)' <=> InSwitch(a))
              \/ InSwitch(a) /\ ~switching' /\ ~InSwitch(a)'
          BY <2>2, <1>0 DEF Upgraded, Goto, InSwitch, AtRestForNoTier,
             SwitchForTier,
             LoadPCs, UnloadPCs
        <4> QED BY <4>1, <4>2, LockMove
      <3> QED BY <3>1, <3>2
    <2>3. CASE Resolve(a)
      <3>1. Books'
        <4>1. AtRestForNoTier'
          BY <2>3, <1>0 DEF Resolve, Goto, BeginLoad, Throw, Finish, AtRestForNoTier
        <4>2. SwitchForTier'
          BY <2>3, <1>0, TierAssumption DEF Resolve, Goto, BeginLoad, Throw,
             Finish, SwitchForTier, LoadPCs
        <4>3. UnloadHeadsQueue'
          BY <2>3, QueueFacts DEF Resolve, Goto, BeginLoad, Throw, Finish,
             UnloadHeadsQueue
        <4> QED BY <4>1, <4>2, <4>3
      <3>2. SwitchLock'
        <4>1. \A b \in Actors \ {a} : InSwitch(b)' <=> InSwitch(b)
          BY <2>3 DEF Resolve, Goto, BeginLoad, Throw, Finish, InSwitch
        <4>2. \/ ~switching /\ switching' /\ InSwitch(a)'
              \/ (switching' <=> switching) /\ (InSwitch(a)' <=> InSwitch(a))
              \/ InSwitch(a) /\ ~switching' /\ ~InSwitch(a)'
          BY <2>3, <1>0 DEF Resolve, Goto, BeginLoad, Throw, Finish, InSwitch,
             AtRestForNoTier, SwitchForTier,
             LoadPCs, UnloadPCs
        <4> QED BY <4>1, <4>2, LockMove
      <3> QED BY <3>1, <3>2
    <2>4. CASE EnterpriseRefused(a)
      <3>1. Books'
        BY <2>4, <1>0, QueueFacts
        DEF EnterpriseRefused, Goto, Throw, Finish, AtRestForNoTier,
            SwitchForTier, UnloadHeadsQueue, LoadPCs
      <3>2. SwitchLock'
        <4>1. \A b \in Actors \ {a} : InSwitch(b)' <=> InSwitch(b)
          BY <2>4 DEF EnterpriseRefused, Goto, Throw, Finish, InSwitch
        <4>2. \/ ~switching /\ switching' /\ InSwitch(a)'
              \/ (switching' <=> switching) /\ (InSwitch(a)' <=> InSwitch(a))
              \/ InSwitch(a) /\ ~switching' /\ ~InSwitch(a)'
          BY <2>4, <1>0 DEF EnterpriseRefused, Goto, Throw, Finish, InSwitch,
             AtRestForNoTier, SwitchForTier,
             LoadPCs, UnloadPCs
        <4> QED BY <4>1, <4>2, LockMove
      <3> QED BY <3>1, <3>2
    <2>5. CASE EnterpriseLocal(a)
      <3>1. Books'
        BY <2>5, <1>0, QueueFacts
        DEF EnterpriseLocal, Goto, BeginLoad, AtRestForNoTier,
            SwitchForTier, UnloadHeadsQueue, LoadPCs
      <3>2. SwitchLock'
        <4>1. \A b \in Actors \ {a} : InSwitch(b)' <=> InSwitch(b)
          BY <2>5 DEF EnterpriseLocal, Goto, BeginLoad, InSwitch
        <4>2. \/ ~switching /\ switching' /\ InSwitch(a)'
              \/ (switching' <=> switching) /\ (InSwitch(a)' <=> InSwitch(a))
              \/ InSwitch(a) /\ ~switching' /\ ~InSwitch(a)'
          BY <2>5, <1>0 DEF EnterpriseLocal, Goto, BeginLoad, InSwitch,
             AtRestForNoTier, SwitchForTier,
             LoadPCs, UnloadPCs
        <4> QED BY <4>1, <4>2, LockMove
      <3> QED BY <3>1, <3>2
    <2>6. CASE EnterpriseRemote(a)
      <3>1. Books'
        <4>1. AtRestForNoTier'
          BY <2>6, <1>0 DEF EnterpriseRemote, Goto, Return, Finish, AtRestForNoTier
        <4>2. SwitchForTier'
          BY <2>6, <1>0, TierAssumption DEF EnterpriseRemote, Goto, Return,
             Finish, SwitchForTier, LoadPCs
        <4>3. UnloadHeadsQueue'
          BY <2>6, QueueFacts, ZenonT(60)
          DEF EnterpriseRemote, Goto, Return, Finish, UnloadHeadsQueue
        <4> QED BY <4>1, <4>2, <4>3
      <3>2. SwitchLock'
        <4>1. \A b \in Actors \ {a} : InSwitch(b)' <=> InSwitch(b)
          BY <2>6 DEF EnterpriseRemote, Goto, Return, Finish, InSwitch
        <4>2. \/ ~switching /\ switching' /\ InSwitch(a)'
              \/ (switching' <=> switching) /\ (InSwitch(a)' <=> InSwitch(a))
              \/ InSwitch(a) /\ ~switching' /\ ~InSwitch(a)'
          BY <2>6, <1>0 DEF EnterpriseRemote, Goto, Return, Finish, InSwitch,
             AtRestForNoTier, SwitchForTier,
             LoadPCs, UnloadPCs
        <4> QED BY <4>1, <4>2, LockMove
      <3> QED BY <3>1, <3>2
    <2>7. CASE SendLoad(a)
      <3>1. Books'
        BY <2>7, <1>0, QueueFacts
        DEF SendLoad, Goto, AtRestForNoTier,
            SwitchForTier, UnloadHeadsQueue, LoadPCs
      <3>2. SwitchLock'
        <4>1. \A b \in Actors \ {a} : InSwitch(b)' <=> InSwitch(b)
          BY <2>7 DEF SendLoad, Goto, InSwitch
        <4>2. \/ ~switching /\ switching' /\ InSwitch(a)'
              \/ (switching' <=> switching) /\ (InSwitch(a)' <=> InSwitch(a))
              \/ InSwitch(a) /\ ~switching' /\ ~InSwitch(a)'
          BY <2>7, <1>0 DEF SendLoad, Goto, InSwitch, AtRestForNoTier,
             SwitchForTier,
             LoadPCs, UnloadPCs
        <4> QED BY <4>1, <4>2, LockMove
      <3> QED BY <3>1, <3>2
    <2>8. CASE PlatformLoad(a)
      <3>1. Books'
        BY <2>8, <1>0, QueueFacts
        DEF PlatformLoad, Goto, AtRestForNoTier,
            SwitchForTier, UnloadHeadsQueue, LoadPCs
      <3>2. SwitchLock'
        <4>1. \A b \in Actors \ {a} : InSwitch(b)' <=> InSwitch(b)
          BY <2>8 DEF PlatformLoad, Goto, InSwitch
        <4>2. \/ ~switching /\ switching' /\ InSwitch(a)'
              \/ (switching' <=> switching) /\ (InSwitch(a)' <=> InSwitch(a))
              \/ InSwitch(a) /\ ~switching' /\ ~InSwitch(a)'
          BY <2>8, <1>0 DEF PlatformLoad, Goto, InSwitch, AtRestForNoTier,
             SwitchForTier,
             LoadPCs, UnloadPCs
        <4> QED BY <4>1, <4>2, LockMove
      <3> QED BY <3>1, <3>2
    <2>9. CASE ModelNotFound(a)
      <3>1. Books'
        BY <2>9, <1>0, QueueFacts
        DEF ModelNotFound, Goto, AtRestForNoTier,
            SwitchForTier, UnloadHeadsQueue, LoadPCs
      <3>2. SwitchLock'
        <4>1. \A b \in Actors \ {a} : InSwitch(b)' <=> InSwitch(b)
          BY <2>9 DEF ModelNotFound, Goto, InSwitch
        <4>2. \/ ~switching /\ switching' /\ InSwitch(a)'
              \/ (switching' <=> switching) /\ (InSwitch(a)' <=> InSwitch(a))
              \/ InSwitch(a) /\ ~switching' /\ ~InSwitch(a)'
          BY <2>9, <1>0 DEF ModelNotFound, Goto, InSwitch, AtRestForNoTier,
             SwitchForTier,
             LoadPCs, UnloadPCs
        <4> QED BY <4>1, <4>2, LockMove
      <3> QED BY <3>1, <3>2
    <2>10. CASE NativeInitModel(a)
      <3>1. Books'
        BY <2>10, <1>0, QueueFacts
        DEF NativeInitModel, Goto, AtRestForNoTier,
            SwitchForTier, UnloadHeadsQueue, LoadPCs
      <3>2. SwitchLock'
        <4>1. \A b \in Actors \ {a} : InSwitch(b)' <=> InSwitch(b)
          BY <2>10 DEF NativeInitModel, Goto, InSwitch
        <4>2. \/ ~switching /\ switching' /\ InSwitch(a)'
              \/ (switching' <=> switching) /\ (InSwitch(a)' <=> InSwitch(a))
              \/ InSwitch(a) /\ ~switching' /\ ~InSwitch(a)'
          BY <2>10, <1>0 DEF NativeInitModel, Goto, InSwitch, AtRestForNoTier,
             SwitchForTier,
             LoadPCs, UnloadPCs
        <4> QED BY <4>1, <4>2, LockMove
      <3> QED BY <3>1, <3>2
    <2>11. CASE PluginLoaded(a)
      <3>1. Books'
        BY <2>11, <1>0, QueueFacts
        DEF PluginLoaded, Goto, AtRestForNoTier,
            SwitchForTier, UnloadHeadsQueue, LoadPCs
      <3>2. SwitchLock'
        <4>1. \A b \in Actors \ {a} : InSwitch(b)' <=> InSwitch(b)
          BY <2>11 DEF PluginLoaded, Goto, InSwitch
        <4>2. \/ ~switching /\ switching' /\ InSwitch(a)'
              \/ (switching' <=> switching) /\ (InSwitch(a)' <=> InSwitch(a))
              \/ InSwitch(a) /\ ~switching' /\ ~InSwitch(a)'
          BY <2>11, <1>0 DEF PluginLoaded, Goto, InSwitch, AtRestForNoTier,
             SwitchForTier,
             LoadPCs, UnloadPCs
        <4> QED BY <4>1, <4>2, LockMove
      <3> QED BY <3>1, <3>2
    <2>12. CASE LoadReply(a)
      <3>0. /\ pc[a] = "loadReply" /\ channel' = channel
            /\ \/ /\ Finish(a)
                  /\ \/ pc' = [pc EXCEPT ![a] = "idle"]
                     \/ pc' = [pc EXCEPT ![a] = "upgraded"]
               \/ /\ pc' = [pc EXCEPT ![a] = "load"]
                  /\ switching' = switching /\ tier' = tier
        BY <2>12 DEF LoadReply, Return, Throw, BeginLoad, Goto
      <3>1. Books'
        <4>1. AtRestForNoTier'
          BY <3>0, <1>0 DEF Finish, AtRestForNoTier
        <4>2. SwitchForTier'
          BY <3>0, <1>0 DEF Finish, SwitchForTier, LoadPCs
        <4>3. UnloadHeadsQueue'
          BY <3>0, <1>0 DEF UnloadHeadsQueue
        <4> QED BY <4>1, <4>2, <4>3
      <3>2. SwitchLock'
        <4>1. \A b \in Actors \ {a} : InSwitch(b)' <=> InSwitch(b)
          BY <3>0, <1>0 DEF Finish, InSwitch
        <4>2. \/ (switching' <=> switching) /\ (InSwitch(a)' <=> InSwitch(a))
              \/ InSwitch(a) /\ ~switching' /\ ~InSwitch(a)'
          BY <3>0, <1>0 DEF Finish, InSwitch, LoadPCs, UnloadPCs
        <4> QED BY <4>1, <4>2, LockMove
      <3> QED BY <3>1, <3>2
    <2>13. CASE PlatformUnload(a)
      <3>1. Books'
        BY <2>13, <1>0, QueueFacts, ZenonT(60)
        DEF PlatformUnload, Goto, AtRestForNoTier,
            SwitchForTier, UnloadHeadsQueue, LoadPCs
      <3>2. SwitchLock'
        <4>1. \A b \in Actors \ {a} : InSwitch(b)' <=> InSwitch(b)
          BY <2>13 DEF PlatformUnload, Goto, InSwitch
        <4>2. \/ ~switching /\ switching' /\ InSwitch(a)'
              \/ (switching' <=> switching) /\ (InSwitch(a)' <=> InSwitch(a))
              \/ InSwitch(a) /\ ~switching' /\ ~InSwitch(a)'
          BY <2>13, <1>0 DEF PlatformUnload, Goto, InSwitch, AtRestForNoTier,
             SwitchForTier,
             LoadPCs, UnloadPCs
        <4> QED BY <4>1, <4>2, LockMove
      <3> QED BY <3>1, <3>2
    <2>14. CASE NativeFreeModel(a)
      <3>1. Books'
        BY <2>14, <1>0, QueueFacts
        DEF NativeFreeModel, Goto, AtRestForNoTier,
            SwitchForTier, UnloadHeadsQueue, LoadPCs
      <3>2. SwitchLock'
        <4>1. \A b \in Actors \ {a} : InSwitch(b)' <=> InSwitch(b)
          BY <2>14 DEF NativeFreeModel, Goto, InSwitch
        <4>2. \/ ~switching /\ switching' /\ InSwitch(a)'
              \/ (switching' <=> switching) /\ (InSwitch(a)' <=> InSwitch(a))
              \/ InSwitch(a) /\ ~switching' /\ ~InSwitch(a)'
          BY <2>14, <1>0 DEF NativeFreeModel, Goto, InSwitch, AtRestForNoTier,
             SwitchForTier,
             LoadPCs, UnloadPCs
        <4> QED BY <4>1, <4>2, LockMove
      <3> QED BY <3>1, <3>2
    <2>15. CASE PluginUnloaded(a)
      <3>1. Books'
        BY <2>15, <1>0, QueueFacts
        DEF PluginUnloaded, Goto, AtRestForNoTier,
            SwitchForTier, UnloadHeadsQueue, LoadPCs
      <3>2. SwitchLock'
        <4>1. \A b \in Actors \ {a} : InSwitch(b)' <=> InSwitch(b)
          BY <2>15 DEF PluginUnloaded, Goto, InSwitch
        <4>2. \/ ~switching /\ switching' /\ InSwitch(a)'
              \/ (switching' <=> switching) /\ (InSwitch(a)' <=> InSwitch(a))
              \/ InSwitch(a) /\ ~switching' /\ ~InSwitch(a)'
          BY <2>15, <1>0 DEF PluginUnloaded, Goto, InSwitch, AtRestForNoTier,
             SwitchForTier,
             LoadPCs, UnloadPCs
        <4> QED BY <4>1, <4>2, LockMove
      <3> QED BY <3>1, <3>2
    <2>16. CASE UnloadReply(a)
      <3>1. Books'
        <4>1. AtRestForNoTier'
          BY <2>16, <1>0 DEF UnloadReply, Goto, Return, Finish, AtRestForNoTier
        <4>2. SwitchForTier'
          BY <2>16, <1>0, TierAssumption DEF UnloadReply, Goto, Return, Finish,
             SwitchForTier, LoadPCs
        <4>3. UnloadHeadsQueue'
          BY <2>16, QueueFacts DEF UnloadReply, Goto, Return, Finish,
             UnloadHeadsQueue
        <4> QED BY <4>1, <4>2, <4>3
      <3>2. SwitchLock'
        <4>1. \A b \in Actors \ {a} : InSwitch(b)' <=> InSwitch(b)
          BY <2>16 DEF UnloadReply, Goto, Return, Finish, InSwitch
        <4>2. \/ ~switching /\ switching' /\ InSwitch(a)'
              \/ (switching' <=> switching) /\ (InSwitch(a)' <=> InSwitch(a))
              \/ InSwitch(a) /\ ~switching' /\ ~InSwitch(a)'
          BY <2>16, <1>0 DEF UnloadReply, Goto, Return, Finish, InSwitch,
             AtRestForNoTier, SwitchForTier,
             LoadPCs, UnloadPCs
        <4> QED BY <4>1, <4>2, LockMove
      <3> QED BY <3>1, <3>2
    <2>17. CASE ApplyPendingUpgrade(a)
      <3>1. Books'
        BY <2>17, <1>0, QueueFacts
        DEF ApplyPendingUpgrade, Goto, AtRestForNoTier,
            SwitchForTier, UnloadHeadsQueue, LoadPCs
      <3>2. SwitchLock'
        <4>1. \A b \in Actors \ {a} : InSwitch(b)' <=> InSwitch(b)
          BY <2>17 DEF ApplyPendingUpgrade, Goto, InSwitch
        <4>2. \/ ~switching /\ switching' /\ InSwitch(a)'
              \/ (switching' <=> switching) /\ (InSwitch(a)' <=> InSwitch(a))
              \/ InSwitch(a) /\ ~switching' /\ ~InSwitch(a)'
          BY <2>17, <1>0 DEF ApplyPendingUpgrade, Goto, InSwitch,
             AtRestForNoTier, SwitchForTier,
             LoadPCs, UnloadPCs
        <4> QED BY <4>1, <4>2, LockMove
      <3> QED BY <3>1, <3>2
    <2>18. CASE ClearMemory(a)
      <3>1. Books'
        BY <2>18, <1>0, QueueFacts
        DEF ClearMemory, Goto, AtRestForNoTier,
            SwitchForTier, UnloadHeadsQueue, LoadPCs
      <3>2. SwitchLock'
        <4>1. \A b \in Actors \ {a} : InSwitch(b)' <=> InSwitch(b)
          BY <2>18 DEF ClearMemory, Goto, InSwitch
        <4>2. \/ ~switching /\ switching' /\ InSwitch(a)'
              \/ (switching' <=> switching) /\ (InSwitch(a)' <=> InSwitch(a))
              \/ InSwitch(a) /\ ~switching' /\ ~InSwitch(a)'
          BY <2>18, <1>0 DEF ClearMemory, Goto, InSwitch, AtRestForNoTier,
             SwitchForTier,
             LoadPCs, UnloadPCs
        <4> QED BY <4>1, <4>2, LockMove
      <3> QED BY <3>1, <3>2
    <2> QED BY <1>1, <2>1, <2>2, <2>3, <2>4, <2>5, <2>6, <2>7, <2>8, <2>9,
               <2>10, <2>11, <2>12, <2>13, <2>14, <2>15, <2>16, <2>17, <2>18
               DEF Step
  <1>2. ASSUME NEW a \in Actors, NEW t \in Targets, SwitchEngine(a, t)
        PROVE  Books' /\ SwitchLock'
    <2>0. t \in Tiers
      BY TierAssumption
    <2>1. Books'
      BY <1>2, <2>0, <1>0 DEF SwitchEngine, Enter, Goto, AtRestForNoTier,
         SwitchForTier, UnloadHeadsQueue, LoadPCs
    <2>2. \A b \in Actors \ {a} : InSwitch(b)' <=> InSwitch(b)
      BY <1>2 DEF SwitchEngine, Enter, Goto, InSwitch
    <2>3. ~switching /\ switching' /\ InSwitch(a)'
      BY <1>2 DEF SwitchEngine, Enter, Ignored, Goto, InSwitch
    <2> QED BY <2>1, <2>2, <2>3, LockMove
  <1>3. ASSUME \/ \E t \in Ready : OnTierReady(t)
               \/ \E t \in Tiers : QueueUpgrade(t) \/ FileChanges(t)
        PROVE  Books' /\ SwitchLock'
    <2>1. UNCHANGED <<switching, pc, tier, channel>>
      BY <1>3 DEF OnTierReady, QueueUpgrade, FileChanges
    <2> QED BY <2>1 DEF AtRestForNoTier, SwitchForTier, UnloadHeadsQueue,
              SwitchLock, InSwitch
  <1> QED BY <1>1, <1>2, <1>3 DEF Next

(* The inductive invariant holds in every reachable state.                 *)
LEMMA IInvHolds == Spec => []IInv
  <1>1. IInv /\ [Next]_vars => IInv'
    <2> SUFFICES ASSUME IInv, [Next]_vars PROVE IInv'
      OBVIOUS
    <2>1. CASE Next
      <3>1. TypeOK'
        BY <2>1, TypeStep DEF IInv
      <3> QED BY <2>1, <3>1, InvStep
    <2>2. CASE UNCHANGED vars
      BY <2>2 DEF IInv, TypeOK, AtRestForNoTier, SwitchForTier, UnloadHeadsQueue,
         SwitchLock, InSwitch, vars, mgr, link, eng, call, env
    <2> QED BY <2>1, <2>2
  <1> QED BY InitHolds, <1>1, PTL DEF Spec

(* Type correctness: whatever is switched, cleared, announced or deleted,  *)
(* and in whichever order the threads of the plugin answer.                *)
THEOREM TypeCorrect == Spec => []TypeOK
  <1>1. IInv => TypeOK
    BY DEF IInv
  <1> QED BY <1>1, IInvHolds, PTL

(* _isSwitching is a lock: set exactly while one switchEngine() works, and *)
(* given back on every path, for any number of callers.                    *)
THEOREM LockHolds == Spec => []SwitchLock
  <1>1. IInv => SwitchLock
    BY DEF IInv
  <1> QED BY <1>1, IInvHolds, PTL

-----------------------------------------------------------------------------
(***************************************************************************)
(* What a load finds.  A file turns bad in no step of the model: one that  *)
(* validation has seen is good or gone when the executor opens it.  The    *)
(* two loads that skip validation, of the recovery and of the enterprise   *)
(* tier, need a file that was never bad.                                   *)
(***************************************************************************)
TrustedFiles ==
    InitialFiles["free"] # "bad" /\ InitialFiles["enterprise"] # "bad"

LoadsNoBadFile ==
    /\ files["free"] # "bad" /\ files["enterprise"] # "bad"
    /\ \A a \in Actors : pc[a] \in LoadPCs =>
          loading[a] \in Tiers /\ files[loading[a]] # "bad"

-----------------------------------------------------------------------------
(***************************************************************************)
(* ActiveTierIsLoaded, for a registry with the free model only, which is   *)
(* the app's: switches to other tiers are asked for and refused.           *)
(***************************************************************************)
FreeOnly == Registered = {"free"} /\ "enterprise" \notin Targets

SentPCs == {"loadSent", "unloadSent", "free", "freed"}
ReplyPCs == {"loadReply", "unloadReply"}

(* _activeTier and _isModelLoaded are written together; a load is for the  *)
(* free tier and begins when neither is set.                               *)
FreeInv ==
    /\ activeTier \in {"free", None}
    /\ native \in {"free", None}
    /\ dartLoaded <=> activeTier = "free"
    /\ pendingTier # "enterprise" /\ "enterprise" \notin listening
    /\ \A a \in Actors :
          /\ tier[a] # "enterprise" /\ pc[a] # "enterprise"
          /\ pc[a] \in UnloadPCs => tier[a] = None
          /\ pc[a] \in LoadPCs => tier[a] = "free" /\ loading[a] = "free"
          /\ InSwitch(a) /\ tier[a] = "free" => ~dartLoaded

(* The channel holds each call under way once, and its answers wait in     *)
(* turn. A load is the last call sent and the last one answered: whoever   *)
(* unloads after it would need the flag that its answer sets.              *)
ChannelInv ==
    /\ \A i \in 1 .. Len(channel) :
          /\ pc[channel[i]] \in SentPCs
          /\ pc[channel[i]] = "loadSent" => i = Len(channel)
          /\ \A j \in 1 .. Len(channel) : channel[i] = channel[j] => i = j
    /\ \A a \in Actors : pc[a] \in SentPCs =>
          \E i \in 1 .. Len(channel) : channel[i] = a
    /\ \A a \in Actors : pc[a] \in {"exec", "inited", "loadReply"} =>
          channel = <<>>

RepliesInv ==
    /\ \A i \in 1 .. Len(replies) :
          /\ pc[replies[i]] \in ReplyPCs
          /\ pc[replies[i]] = "loadReply" => i = Len(replies)
          /\ \A j \in 1 .. Len(replies) : replies[i] = replies[j] => i = j
    /\ \A a \in Actors : pc[a] = "unloadReply" =>
          \E i \in 1 .. Len(replies) : replies[i] = a

(* Where the four facts may differ: from the executor's load to its        *)
(* answer, and from nativeFreeModel() to the answer of the unload.         *)
TruthInv ==
    /\ native = "free" =>
          \/ dartLoaded /\ \A a \in Actors : pc[a] # "unloadReply"
          \/ \E a \in Actors : pc[a] \in {"inited", "loadReply"}
    /\ native = None =>
          \/ ~dartLoaded
          \/ \E a \in Actors : pc[a] \in {"freed", "unloadReply"}
    /\ \A a \in Actors :
          /\ pc[a] \in {"inited", "loadReply"} => (ok[a] <=> native = "free")
          /\ pc[a] = "freed" => native = None
    /\ \/ kotlinLoaded <=> native = "free"
       \/ \E a \in Actors : pc[a] \in {"freed", "inited"}

LoadedInv == FreeInv /\ ChannelInv /\ RepliesInv /\ TruthInv

(* The queues of calls and answers, position by position.                  *)
LEMMA AppendFacts ==
    ASSUME NEW s \in Seq(Actors), NEW a \in Actors
    PROVE  /\ Len(s) \in Nat /\ Len(Append(s, a)) = Len(s) + 1
           /\ \A i \in 1 .. Len(s) : Append(s, a)[i] = s[i]
           /\ Append(s, a)[Len(s) + 1] = a
           /\ \A i \in 1 .. Len(s) : s[i] \in Actors
  BY AppendProperties, ElementOfSeq, LenProperties

LEMMA TailFacts ==
    ASSUME NEW s \in Seq(Actors), s # <<>>
    PROVE  /\ Tail(s) \in Seq(Actors)
           /\ Len(s) \in Nat \ {0} /\ Len(Tail(s)) = Len(s) - 1
           /\ Head(s) = s[1]
           /\ \A i \in 1 .. Len(s) - 1 : Tail(s)[i] = s[i + 1]
           /\ Len(s) = 1 => Tail(s) = <<>>
           /\ \A i \in 1 .. Len(s) : s[i] \in Actors
  BY HeadTailProperties, EmptySeq, ElementOfSeq, LenProperties

(* A step of an actor that sends nothing and is not served.                *)
LEMMA ChannelKept ==
    ASSUME TypeOK, ChannelInv, NEW a \in Actors, NEW p \in PCs,
           pc' = [pc EXCEPT ![a] = p], channel' = channel,
           pc[a] \in SentPCs <=> p \in SentPCs,
           p = "loadSent" => pc[a] = "loadSent",
           p \in {"exec", "inited", "loadReply"} =>
              pc[a] \in {"exec", "inited", "loadReply"}
    PROVE  ChannelInv'
  <1>1. \A b \in Actors : pc'[b] = IF b = a THEN p ELSE pc[b]
    BY DEF TypeOK
  <1>2. \A i \in 1 .. Len(channel) : channel[i] \in Actors
    BY ElementOfSeq DEF TypeOK
  <1> QED BY <1>1, <1>2 DEF ChannelInv

LEMMA ChannelSent ==
    ASSUME TypeOK, ChannelInv, NEW a \in Actors, NEW p \in {"loadSent", "unloadSent"},
           pc' = [pc EXCEPT ![a] = p], channel' = Append(channel, a),
           pc[a] \notin SentPCs,
           \A b \in Actors \ {a} :
              pc[b] \notin {"loadSent", "exec", "inited", "loadReply"}
    PROVE  ChannelInv'
  <1>1. \A b \in Actors : pc'[b] = IF b = a THEN p ELSE pc[b]
    BY DEF TypeOK
  <1>2. /\ Len(channel) \in Nat /\ Len(channel') = Len(channel) + 1
        /\ \A i \in 1 .. Len(channel) : channel'[i] = channel[i] /\ channel[i] \in Actors
        /\ channel'[Len(channel) + 1] = a
    BY AppendFacts DEF TypeOK
  <1>3. \A i \in 1 .. Len(channel) : channel[i] # a
    BY <1>2 DEF ChannelInv
  <1>4. \A i \in 1 .. Len(channel') : i \in 1 .. Len(channel) \/ i = Len(channel')
    BY <1>2
  <1>5. \A i \in 1 .. Len(channel') :
          /\ pc'[channel'[i]] \in SentPCs
          /\ pc'[channel'[i]] = "loadSent" => i = Len(channel')
          /\ \A j \in 1 .. Len(channel') : channel'[i] = channel'[j] => i = j
    BY <1>1, <1>2, <1>3, <1>4 DEF ChannelInv, SentPCs
  <1>6. \A b \in Actors : pc'[b] \in SentPCs =>
          \E i \in 1 .. Len(channel') : channel'[i] = b
    <2> SUFFICES ASSUME NEW b \in Actors, pc'[b] \in SentPCs
                 PROVE  \E i \in 1 .. Len(channel') : channel'[i] = b
      OBVIOUS
    <2>1. CASE b = a
      BY <2>1, <1>2
    <2>2. CASE b # a
      <3>1. PICK i \in 1 .. Len(channel) : channel[i] = b
        BY <2>2, <1>1 DEF ChannelInv
      <3> QED BY <3>1, <1>2
    <2> QED BY <2>1, <2>2
  <1> QED BY <1>1, <1>5, <1>6 DEF ChannelInv

LEMMA ChannelServed ==
    ASSUME TypeOK, ChannelInv, NEW a \in Actors, NEW p \in PCs \ SentPCs,
           pc' = [pc EXCEPT ![a] = p], channel # <<>>, Head(channel) = a,
           channel' = Tail(channel),
           p \in {"exec", "inited", "loadReply"} => pc[a] = "loadSent"
    PROVE  ChannelInv'
  <1>1. \A b \in Actors : pc'[b] = IF b = a THEN p ELSE pc[b]
    BY DEF TypeOK
  <1>2. /\ Len(channel) \in Nat \ {0} /\ Len(channel') = Len(channel) - 1
        /\ \A i \in 1 .. Len(channel) : channel[i] \in Actors
        /\ \A i \in 1 .. Len(channel) - 1 : channel'[i] = channel[i + 1]
        /\ channel[1] = a
        /\ Len(channel) = 1 => channel' = <<>>
    BY TailFacts DEF TypeOK
  <1>3. \A i \in 2 .. Len(channel) : channel[i] # a
    <2>1. /\ 1 \in 1 .. Len(channel)
          /\ \A i \in 2 .. Len(channel) : i \in 1 .. Len(channel) /\ i # 1
      BY <1>2
    <2>2. \A i, j \in 1 .. Len(channel) : channel[i] = channel[j] => i = j
      BY DEF ChannelInv
    <2> QED BY <1>2, <2>1, <2>2
  <1>4. \A i \in 1 .. Len(channel') :
          /\ pc'[channel'[i]] \in SentPCs
          /\ pc'[channel'[i]] = "loadSent" => i = Len(channel')
          /\ \A j \in 1 .. Len(channel') : channel'[i] = channel'[j] => i = j
    <2> SUFFICES ASSUME NEW i \in 1 .. Len(channel')
                 PROVE  /\ pc'[channel'[i]] \in SentPCs
                        /\ pc'[channel'[i]] = "loadSent" => i = Len(channel')
                        /\ \A j \in 1 .. Len(channel') :
                              channel'[i] = channel'[j] => i = j
      OBVIOUS
    <2>1. i + 1 \in 2 .. Len(channel) /\ channel'[i] = channel[i + 1]
      BY <1>2
    <2>2. \A j \in 1 .. Len(channel') :
            j + 1 \in 1 .. Len(channel) /\ channel'[j] = channel[j + 1]
      BY <1>2
    <2>3. pc'[channel'[i]] = pc[channel[i + 1]]
      BY <1>1, <1>2, <1>3, <2>1
    <2>4. i + 1 \in 1 .. Len(channel)
      BY <2>1
    <2>5. ASSUME NEW j \in 1 .. Len(channel'), channel'[i] = channel'[j]
          PROVE  i = j
      <3>1. channel[i + 1] = channel[j + 1] /\ j + 1 \in 1 .. Len(channel)
        BY <2>1, <2>2, <2>5
      <3>2. i + 1 = j + 1
        BY <3>1, <2>4 DEF ChannelInv
      <3> QED BY <3>2
    <2>6. pc[channel[i + 1]] \in SentPCs
      BY <2>4 DEF ChannelInv
    <2>7. pc[channel[i + 1]] = "loadSent" => i + 1 = Len(channel)
      BY <2>4 DEF ChannelInv
    <2>8. i + 1 = Len(channel) => i = Len(channel')
      <3>1. \A m, n \in Nat : m = n - 1 /\ i + 1 = n => i = m
        BY <1>2
      <3>2. Len(channel) \in Nat /\ Len(channel') \in Nat /\ Len(channel') = Len(channel) - 1
        BY <1>2
      <3> QED BY <3>1, <3>2, Zenon
    <2> QED BY <2>3, <2>5, <2>6, <2>7, <2>8
  <1>5. \A b \in Actors : pc'[b] \in SentPCs =>
          \E i \in 1 .. Len(channel') : channel'[i] = b
    <2> SUFFICES ASSUME NEW b \in Actors, pc'[b] \in SentPCs
                 PROVE  \E i \in 1 .. Len(channel') : channel'[i] = b
      OBVIOUS
    <2>1. b # a /\ pc[b] \in SentPCs
      BY <1>1
    <2>2. PICK i \in 1 .. Len(channel) : channel[i] = b
      BY <2>1 DEF ChannelInv
    <2>3. i # 1
      BY <2>1, <2>2, <1>2
    <2>4. i - 1 \in 1 .. Len(channel') /\ channel'[i - 1] = b
      BY <1>2, <2>2, <2>3
    <2> QED BY <2>4
  <1>6. \A b \in Actors : pc'[b] \in {"exec", "inited", "loadReply"} => channel' = <<>>
    <2>0. 1 \in 1 .. Len(channel)
      BY <1>2
    <2>1. pc[a] = "loadSent" => Len(channel) = 1
      <3>1. \A i \in 1 .. Len(channel) : pc[channel[i]] = "loadSent" => i = Len(channel)
        BY DEF ChannelInv
      <3> QED BY <1>2, <2>0, <3>1
    <2>2. \A b \in Actors : pc[b] \notin {"exec", "inited", "loadReply"}
      BY DEF ChannelInv
    <2> QED BY <1>1, <1>2, <2>1, <2>2
  <1> QED BY <1>4, <1>5, <1>6 DEF ChannelInv

(* The same for the answers.                                               *)
LEMMA RepliesKept ==
    ASSUME TypeOK, RepliesInv, NEW a \in Actors, NEW p \in PCs,
           pc' = [pc EXCEPT ![a] = p], replies' = replies,
           pc[a] \notin ReplyPCs, p \notin ReplyPCs
    PROVE  RepliesInv'
  <1>1. \A b \in Actors : pc'[b] = IF b = a THEN p ELSE pc[b]
    BY DEF TypeOK
  <1>2. \A i \in 1 .. Len(replies) : replies[i] \in Actors
    BY ElementOfSeq DEF TypeOK
  <1> QED BY <1>1, <1>2 DEF RepliesInv, ReplyPCs

LEMMA RepliesPosted ==
    ASSUME TypeOK, RepliesInv, NEW a \in Actors, NEW p \in ReplyPCs,
           pc' = [pc EXCEPT ![a] = p], replies' = Append(replies, a),
           pc[a] \notin ReplyPCs,
           \A b \in Actors : pc[b] # "loadReply"
    PROVE  RepliesInv'
  <1>1. \A b \in Actors : pc'[b] = IF b = a THEN p ELSE pc[b]
    BY DEF TypeOK
  <1>2. /\ Len(replies) \in Nat /\ Len(replies') = Len(replies) + 1
        /\ \A i \in 1 .. Len(replies) : replies'[i] = replies[i] /\ replies[i] \in Actors
        /\ replies'[Len(replies) + 1] = a
    BY AppendFacts DEF TypeOK
  <1>3. \A i \in 1 .. Len(replies) : replies[i] # a
    BY <1>2 DEF RepliesInv
  <1>4. \A i \in 1 .. Len(replies') : i \in 1 .. Len(replies) \/ i = Len(replies')
    BY <1>2
  <1>5. \A i \in 1 .. Len(replies') :
          /\ pc'[replies'[i]] \in ReplyPCs
          /\ pc'[replies'[i]] = "loadReply" => i = Len(replies')
          /\ \A j \in 1 .. Len(replies') : replies'[i] = replies'[j] => i = j
    BY <1>1, <1>2, <1>3, <1>4 DEF RepliesInv
  <1>6. \A b \in Actors : pc'[b] = "unloadReply" =>
          \E i \in 1 .. Len(replies') : replies'[i] = b
    <2> SUFFICES ASSUME NEW b \in Actors, pc'[b] = "unloadReply"
                 PROVE  \E i \in 1 .. Len(replies') : replies'[i] = b
      OBVIOUS
    <2>1. CASE b = a
      BY <2>1, <1>2
    <2>2. CASE b # a
      <3>1. PICK i \in 1 .. Len(replies) : replies[i] = b
        BY <2>2, <1>1 DEF RepliesInv
      <3> QED BY <3>1, <1>2
    <2> QED BY <2>1, <2>2
  <1> QED BY <1>5, <1>6 DEF RepliesInv

LEMMA RepliesRead ==
    ASSUME TypeOK, RepliesInv, NEW a \in Actors, NEW p \in PCs \ ReplyPCs,
           pc' = [pc EXCEPT ![a] = p], replies # <<>>, Head(replies) = a,
           replies' = Tail(replies)
    PROVE  /\ RepliesInv'
           /\ pc[a] = "loadReply" => \A b \in Actors : pc[b] # "unloadReply"
  <1>1. \A b \in Actors : pc'[b] = IF b = a THEN p ELSE pc[b]
    BY DEF TypeOK
  <1>2. /\ Len(replies) \in Nat \ {0} /\ Len(replies') = Len(replies) - 1
        /\ \A i \in 1 .. Len(replies) : replies[i] \in Actors
        /\ \A i \in 1 .. Len(replies) - 1 : replies'[i] = replies[i + 1]
        /\ replies[1] = a
    BY TailFacts DEF TypeOK
  <1>3. \A i \in 2 .. Len(replies) : replies[i] # a
    <2>1. /\ 1 \in 1 .. Len(replies)
          /\ \A i \in 2 .. Len(replies) : i \in 1 .. Len(replies) /\ i # 1
      BY <1>2
    <2>2. \A i, j \in 1 .. Len(replies) : replies[i] = replies[j] => i = j
      BY DEF RepliesInv
    <2> QED BY <1>2, <2>1, <2>2
  <1>4. \A i \in 1 .. Len(replies') :
          /\ pc'[replies'[i]] \in ReplyPCs
          /\ pc'[replies'[i]] = "loadReply" => i = Len(replies')
          /\ \A j \in 1 .. Len(replies') : replies'[i] = replies'[j] => i = j
    <2> SUFFICES ASSUME NEW i \in 1 .. Len(replies')
                 PROVE  /\ pc'[replies'[i]] \in ReplyPCs
                        /\ pc'[replies'[i]] = "loadReply" => i = Len(replies')
                        /\ \A j \in 1 .. Len(replies') :
                              replies'[i] = replies'[j] => i = j
      OBVIOUS
    <2>1. i + 1 \in 2 .. Len(replies) /\ replies'[i] = replies[i + 1]
      BY <1>2
    <2>2. \A j \in 1 .. Len(replies') :
            j + 1 \in 1 .. Len(replies) /\ replies'[j] = replies[j + 1]
      BY <1>2
    <2>3. pc'[replies'[i]] = pc[replies[i + 1]]
      BY <1>1, <1>2, <1>3, <2>1
    <2>4. i + 1 \in 1 .. Len(replies)
      BY <2>1
    <2>5. ASSUME NEW j \in 1 .. Len(replies'), replies'[i] = replies'[j]
          PROVE  i = j
      <3>1. replies[i + 1] = replies[j + 1] /\ j + 1 \in 1 .. Len(replies)
        BY <2>1, <2>2, <2>5
      <3>2. i + 1 = j + 1
        BY <3>1, <2>4 DEF RepliesInv
      <3> QED BY <3>2
    <2>6. pc[replies[i + 1]] \in ReplyPCs
      BY <2>4 DEF RepliesInv
    <2>7. pc[replies[i + 1]] = "loadReply" => i + 1 = Len(replies)
      BY <2>4 DEF RepliesInv
    <2>8. i + 1 = Len(replies) => i = Len(replies')
      <3>1. \A m, n \in Nat : m = n - 1 /\ i + 1 = n => i = m
        BY <1>2
      <3>2. Len(replies) \in Nat /\ Len(replies') \in Nat /\ Len(replies') = Len(replies) - 1
        BY <1>2
      <3> QED BY <3>1, <3>2, Zenon
    <2> QED BY <2>3, <2>5, <2>6, <2>7, <2>8
  <1>5. \A b \in Actors : pc'[b] = "unloadReply" =>
          \E i \in 1 .. Len(replies') : replies'[i] = b
    <2> SUFFICES ASSUME NEW b \in Actors, pc'[b] = "unloadReply"
                 PROVE  \E i \in 1 .. Len(replies') : replies'[i] = b
      OBVIOUS
    <2>1. b # a /\ pc[b] = "unloadReply"
      BY <1>1 DEF ReplyPCs
    <2>2. PICK i \in 1 .. Len(replies) : replies[i] = b
      BY <2>1 DEF RepliesInv
    <2>3. i # 1
      BY <2>1, <2>2, <1>2
    <2>4. i - 1 \in 1 .. Len(replies') /\ replies'[i - 1] = b
      BY <1>2, <2>2, <2>3
    <2> QED BY <2>4
  <1>6. ASSUME pc[a] = "loadReply", NEW b \in Actors, pc[b] = "unloadReply"
        PROVE  FALSE
    <2>0. 1 \in 1 .. Len(replies)
      BY <1>2
    <2>1. Len(replies) = 1
      BY <1>2, <1>6, <2>0 DEF RepliesInv
    <2>2. PICK i \in 1 .. Len(replies) : replies[i] = b
      BY <1>6 DEF RepliesInv
    <2> QED BY <1>2, <1>6, <2>1, <2>2
  <1> QED BY <1>4, <1>5, <1>6 DEF RepliesInv

-----------------------------------------------------------------------------
(* One file changes in a step at most, and none becomes bad.               *)
LEMMA FilesStep ==
    ASSUME TypeOK, Next
    PROVE  \A t \in Tiers : files[t] # "bad" => files'[t] # "bad"
  <1> USE DEF TypeOK, mgr, link, eng, call, env
  <1>1. ASSUME NEW a \in Actors, Step(a) \/ ApplyPendingUpgrade(a) \/ ClearMemory(a)
        PROVE  files' = files
    BY <1>1 DEF Step, RamChecked, Upgraded, Resolve, EnterpriseRefused,
       EnterpriseLocal, EnterpriseRemote, SendLoad, PlatformLoad, ModelNotFound,
       NativeInitModel, PluginLoaded, LoadReply, PlatformUnload, NativeFreeModel,
       PluginUnloaded, UnloadReply, ApplyPendingUpgrade, ClearMemory
  <1>2. ASSUME NEW a \in Actors, NEW t \in Targets, SwitchEngine(a, t)
        PROVE  files' = files
    BY <1>2 DEF SwitchEngine
  <1>3. ASSUME NEW t \in Tiers, QueueUpgrade(t) \/ OnTierReady(t)
        PROVE  files' = files
    BY <1>3 DEF QueueUpgrade, OnTierReady
  <1>4. ASSUME NEW t \in Tiers, FileChanges(t)
        PROVE  \A u \in Tiers : files[u] # "bad" => files'[u] # "bad"
    BY <1>4 DEF FileChanges
  <1> QED BY <1>1, <1>2, <1>3, <1>4, TierAssumption DEF Next

(* A load begins with a file that validation has accepted, or with one of  *)
(* the two that are trusted.                                               *)
LEMMA NoBadFileStep ==
    ASSUME IInv, LoadsNoBadFile, Next
    PROVE  LoadsNoBadFile'
  <1> USE DEF IInv, TypeOK, mgr, link, eng, call, env
  <1>0. \A t \in Tiers : files[t] # "bad" => files'[t] # "bad"
    BY FilesStep
  <1>1. /\ "free" \in Tiers /\ "enterprise" \in Tiers
        /\ files'["free"] # "bad" /\ files'["enterprise"] # "bad"
    BY <1>0 DEF LoadsNoBadFile, Tiers
  <1> SUFFICES ASSUME NEW b \in Actors, pc'[b] \in LoadPCs
               PROVE  loading'[b] \in Tiers /\ files'[loading'[b]] # "bad"
    BY <1>1 DEF LoadsNoBadFile
  <1>2. CASE pc[b] \in LoadPCs /\ loading'[b] = loading[b]
    BY <1>2, <1>0 DEF LoadsNoBadFile
  <1>3. ASSUME NEW a \in Actors, Step(a) \/ ApplyPendingUpgrade(a) \/ ClearMemory(a)
        PROVE  \/ pc[b] \in LoadPCs /\ loading'[b] = loading[b]
               \/ loading'[b] \in Tiers /\ files'[loading'[b]] # "bad"
    <2>1. CASE RamChecked(a)
      BY <2>1 DEF RamChecked, Goto, Enter, LoadPCs
    <2>2. CASE Upgraded(a)
      BY <2>2 DEF Upgraded, Goto, LoadPCs
    <2>3. CASE Resolve(a)
      BY <2>3, <1>0 DEF Resolve, Goto, BeginLoad, Throw, Finish, LoadPCs, IsValid,
         SwitchForTier
    <2>4. CASE EnterpriseRefused(a)
      BY <2>4 DEF EnterpriseRefused, Throw, Finish, Goto, LoadPCs
    <2>5. CASE EnterpriseLocal(a)
      BY <2>5, <1>1 DEF EnterpriseLocal, BeginLoad, Goto, LoadPCs
    <2>6. CASE EnterpriseRemote(a)
      BY <2>6 DEF EnterpriseRemote, Return, Finish, Goto, LoadPCs
    <2>7. CASE \/ SendLoad(a) \/ PlatformLoad(a) \/ ModelNotFound(a)
               \/ NativeInitModel(a) \/ PluginLoaded(a)
      BY <2>7 DEF SendLoad, PlatformLoad, ModelNotFound, NativeInitModel,
         PluginLoaded, Goto, LoadPCs
    <2>8. CASE LoadReply(a)
      <3>1. CASE b # a
        <4>1. pc'[b] = pc[b] /\ loading'[b] = loading[b]
          BY <2>8, <3>1 DEF LoadReply, Return, Throw, Finish, BeginLoad, Goto
        <4> QED BY <4>1
      <3>2. CASE b = a
        <4>1. ~(Return(a) \/ Throw(a))
          BY <3>2 DEF Return, Throw, Goto, LoadPCs
        <4>2. CASE BeginLoad(a, tier[a], attempt[a] + 1) /\ ~Exhausted(a)
          BY <2>8, <3>2, <4>2 DEF BeginLoad, Exhausted, Recovering, LoadReply, LoadPCs
        <4>3. CASE BeginLoad(a, "free", attempt[a])
          BY <3>2, <4>3, <1>1 DEF BeginLoad
        <4> QED BY <2>8, <4>1, <4>2, <4>3 DEF LoadReply
      <3> QED BY <3>1, <3>2
    <2>9. CASE PlatformUnload(a) \/ NativeFreeModel(a) \/ PluginUnloaded(a)
      BY <2>9 DEF PlatformUnload, NativeFreeModel, PluginUnloaded, Goto, LoadPCs
    <2>10. CASE UnloadReply(a)
      BY <2>10 DEF UnloadReply, Return, Finish, Goto, LoadPCs
    <2>11. CASE ApplyPendingUpgrade(a) \/ ClearMemory(a)
      BY <2>11 DEF ApplyPendingUpgrade, ClearMemory, Goto, LoadPCs
    <2> QED BY <1>3, <2>1, <2>2, <2>3, <2>4, <2>5, <2>6, <2>7, <2>8, <2>9, <2>10,
               <2>11 DEF Step
  <1>4. ASSUME NEW a \in Actors, NEW t \in Targets, SwitchEngine(a, t)
        PROVE  pc[b] \in LoadPCs /\ loading'[b] = loading[b]
    BY <1>4 DEF SwitchEngine, Enter, Goto, LoadPCs
  <1>5. ASSUME \/ \E t \in Ready : OnTierReady(t)
               \/ \E t \in Tiers : QueueUpgrade(t) \/ FileChanges(t)
        PROVE  pc[b] \in LoadPCs /\ loading'[b] = loading[b]
    BY <1>5 DEF OnTierReady, QueueUpgrade, FileChanges
  <1> QED BY <1>2, <1>3, <1>4, <1>5 DEF Next

(* The model in memory is replaced in nativeInitModel() or freed in        *)
(* nativeFreeModel(), and nowhere else.                                    *)
LEMMA NativeChanges ==
    ASSUME TypeOK, Next, native' # native
    PROVE  \E a \in Actors : NativeInitModel(a) \/ NativeFreeModel(a)
  <1> USE DEF mgr, link, eng, call, env
  <1>1. ASSUME NEW a \in Actors, Step(a) \/ ApplyPendingUpgrade(a) \/ ClearMemory(a)
        PROVE  NativeInitModel(a) \/ NativeFreeModel(a)
    BY <1>1 DEF Step, RamChecked, Upgraded, Resolve, EnterpriseRefused,
       EnterpriseLocal, EnterpriseRemote, SendLoad, PlatformLoad, ModelNotFound,
       PluginLoaded, LoadReply, PlatformUnload, PluginUnloaded, UnloadReply,
       ApplyPendingUpgrade, ClearMemory
  <1>2. ~ \E a \in Actors, t \in Targets : SwitchEngine(a, t)
    BY DEF SwitchEngine
  <1>3. ~ \E t \in Ready : OnTierReady(t)
    BY DEF OnTierReady
  <1>4. ~ \E t \in Tiers : QueueUpgrade(t) \/ FileChanges(t)
    BY DEF QueueUpgrade, FileChanges
  <1> QED BY <1>1, <1>2, <1>3, <1>4 DEF Next

(* "Never evict a working model unless the replacement is valid", for any  *)
(* actors, registry and order of events: it needs only that the files the  *)
(* code loads without validating them, of the free and of the enterprise   *)
(* tier, were not bad to begin with.                                       *)
THEOREM EvictsForValid ==
    ASSUME TrustedFiles
    PROVE  Spec => EvictOnlyForValid
  <1>1. Init => LoadsNoBadFile
    BY DEF TrustedFiles, Init, LoadsNoBadFile, LoadPCs
  <1>2. IInv /\ LoadsNoBadFile /\ [Next]_vars => LoadsNoBadFile'
    <2>1. CASE UNCHANGED vars
      BY <2>1 DEF LoadsNoBadFile, vars, call, env
    <2> QED BY <2>1, NoBadFileStep
  <1>3. IInv /\ LoadsNoBadFile /\ [Next]_vars =>
           [native # None /\ native' # native =>
              \E a \in Actors : \/ pc[a] = "free"
                                \/ pc[a] = "exec" /\ files[loading[a]] = "good"]_vars
    <2> SUFFICES ASSUME IInv, LoadsNoBadFile, Next, native' # native
                 PROVE  \E a \in Actors :
                           \/ pc[a] = "free"
                           \/ pc[a] = "exec" /\ files[loading[a]] = "good"
      BY DEF vars, eng
    <2>1. PICK a \in Actors : NativeInitModel(a) \/ NativeFreeModel(a)
      BY NativeChanges DEF IInv
    <2>2. CASE NativeInitModel(a)
      <3>1. pc[a] = "exec" /\ files[loading[a]] # "absent"
        BY <2>2 DEF NativeInitModel
      <3>2. loading[a] \in Tiers /\ files[loading[a]] # "bad"
        BY <3>1 DEF LoadsNoBadFile, LoadPCs
      <3> QED BY <3>1, <3>2 DEF IInv, TypeOK
    <2>3. CASE NativeFreeModel(a)
      BY <2>3 DEF NativeFreeModel
    <2> QED BY <2>1, <2>2, <2>3
  <1> QED BY <1>1, <1>2, <1>3, IInvHolds, PTL DEF Spec, EvictOnlyForValid

-----------------------------------------------------------------------------
(* A switch at work is the only one, and a load is a switch.               *)
LEMMA OneLoad ==
    ASSUME SwitchLock, NEW a \in Actors, NEW b \in Actors, a # b,
           pc[a] \in {"resolve", "enterprise"} \cup LoadPCs
    PROVE  pc[b] \notin {"resolve", "enterprise"} \cup LoadPCs
  BY DEF SwitchLock, InSwitch

(* Tiers: nothing but the free model is ever loaded, and no load begins    *)
(* while AIManager takes it for loaded.                                    *)
LEMMA FreeStep ==
    ASSUME FreeOnly, IInv, FreeInv, Next
    PROVE  FreeInv'
  <1> USE DEF IInv, TypeOK, mgr, link, eng, call, env
  <1>0. /\ "enterprise" \in Tiers /\ "free" \in Tiers /\ None \notin Tiers
        /\ Targets \subseteq Tiers /\ Ready \subseteq Tiers
    BY TierAssumption DEF Tiers
  <1>1. ASSUME NEW a \in Actors, Step(a) \/ ApplyPendingUpgrade(a) \/ ClearMemory(a)
        PROVE  FreeInv'
    <2>1. CASE RamChecked(a)
      <3>1. CASE Enter(a, tier[a], TRUE)
        BY <2>1, <3>1, <1>0 DEF RamChecked, Goto, Enter, Ignored, FreeInv, InSwitch,
           LoadPCs, UnloadPCs
      <3>2. CASE Goto(a, "upgraded") /\ UNCHANGED <<switching, call>>
        BY <2>1, <3>2, <1>0 DEF RamChecked, Goto, FreeInv, InSwitch,
           LoadPCs, UnloadPCs
      <3>3. CASE Goto(a, "idle") /\ tier' = [tier EXCEPT ![a] = None]
                 /\ UNCHANGED <<switching, loading, attempt, ok, upgrade>>
        BY <2>1, <3>3, <1>0 DEF RamChecked, Goto, FreeInv, InSwitch,
           LoadPCs, UnloadPCs
      <3> QED BY <2>1, <3>1, <3>2, <3>3 DEF RamChecked
    <2>2. CASE Upgraded(a)
      BY <2>2, <1>0 DEF Upgraded, Goto, FreeInv, InSwitch, LoadPCs, UnloadPCs
    <2>3. CASE Resolve(a)
      BY <2>3, <1>0 DEF Resolve, BeginLoad, Throw, Finish, Goto, IsValid, FreeOnly,
         FreeInv, InSwitch, LoadPCs, UnloadPCs
    <2>4. CASE EnterpriseRefused(a) \/ EnterpriseLocal(a) \/ EnterpriseRemote(a)
      BY <2>4 DEF EnterpriseRefused, EnterpriseLocal, EnterpriseRemote, FreeInv
    <2>5. CASE \/ SendLoad(a) \/ PlatformLoad(a) \/ ModelNotFound(a)
               \/ PluginLoaded(a)
      BY <2>5, <1>0 DEF SendLoad, PlatformLoad, ModelNotFound, PluginLoaded, Goto,
         FreeInv, InSwitch, LoadPCs, UnloadPCs
    <2>6. CASE NativeInitModel(a)
      BY <2>6, <1>0 DEF NativeInitModel, Goto, FreeInv, InSwitch, LoadPCs, UnloadPCs
    <2>7. CASE LoadReply(a)
      <3>0. /\ pc[a] \in LoadPCs /\ tier[a] = "free" /\ loading[a] = "free"
            /\ ~dartLoaded /\ activeTier = None
            /\ InSwitch(a)
        BY <2>7, <1>0 DEF LoadReply, FreeInv, LoadPCs, InSwitch
      <3>1. \A b \in Actors \ {a} : ~InSwitch(b)
        BY <3>0 DEF SwitchLock
      <3>2. /\ dartLoaded' = ok[a]
            /\ activeTier' = IF ok[a] THEN "free" ELSE None
            /\ UNCHANGED <<pendingTier, listening, native>>
        BY <2>7, <3>0 DEF LoadReply
      <3>3. CASE Finish(a) /\ (Goto(a, "idle") \/ Goto(a, "upgraded"))
        BY <3>1, <3>2, <3>3, <1>0 DEF Finish, Goto, FreeInv, InSwitch, LoadPCs, UnloadPCs
      <3>4. CASE ~ok[a] /\ BeginLoad(a, tier[a], attempt[a] + 1)
        BY <3>0, <3>1, <3>2, <3>4, <1>0 DEF BeginLoad, Goto, FreeInv, InSwitch,
           LoadPCs, UnloadPCs
      <3> QED BY <2>7, <3>0, <3>3, <3>4 DEF LoadReply, Return, Throw, Recoverable
    <2>8. CASE PlatformUnload(a)
      BY <2>8, <1>0 DEF PlatformUnload, Goto, FreeInv, InSwitch, LoadPCs, UnloadPCs
    <2>9. CASE NativeFreeModel(a) \/ PluginUnloaded(a)
      BY <2>9, <1>0 DEF NativeFreeModel, PluginUnloaded, Goto, FreeInv, InSwitch,
         LoadPCs, UnloadPCs
    <2>10. CASE UnloadReply(a)
      <3>1. tier[a] = None
        BY <2>10 DEF UnloadReply, FreeInv, UnloadPCs
      <3>2. /\ activeTier' = None /\ dartLoaded' = FALSE /\ Goto(a, "idle")
            /\ UNCHANGED <<pendingTier, listening, native, call>>
        BY <2>10, <3>1 DEF UnloadReply
      <3> QED BY <3>1, <3>2, <1>0 DEF Goto, FreeInv, InSwitch, LoadPCs, UnloadPCs
    <2>11. CASE ApplyPendingUpgrade(a)
      BY <2>11, <1>0 DEF ApplyPendingUpgrade, Goto, FreeInv, InSwitch, LoadPCs,
         UnloadPCs
    <2>12. CASE ClearMemory(a)
      BY <2>12, <1>0 DEF ClearMemory, AtRestForNoTier, Goto, FreeInv, InSwitch,
         LoadPCs, UnloadPCs
    <2> QED BY <1>1, <2>1, <2>2, <2>3, <2>4, <2>5, <2>6, <2>7, <2>8, <2>9, <2>10,
               <2>11, <2>12 DEF Step
  <1>2. ASSUME NEW a \in Actors, NEW t \in Targets, SwitchEngine(a, t)
        PROVE  FreeInv'
    BY <1>2, <1>0 DEF SwitchEngine, Enter, Ignored, Goto, FreeOnly, FreeInv, InSwitch,
       LoadPCs, UnloadPCs
  <1>3. ASSUME NEW t \in Ready, OnTierReady(t)
        PROVE  FreeInv'
    BY <1>3 DEF OnTierReady, FreeInv, InSwitch
  <1>4. ASSUME NEW t \in Tiers, QueueUpgrade(t) \/ FileChanges(t)
        PROVE  FreeInv'
    BY <1>4 DEF QueueUpgrade, FileChanges, FreeInv, InSwitch
  <1> QED BY <1>1, <1>2, <1>3, <1>4 DEF Next

(* The two queues, by the lemmas on sending, serving and answering.        *)
LEMMA QueuesStep ==
    ASSUME FreeOnly, IInv, FreeInv, ChannelInv, RepliesInv, Next
    PROVE  ChannelInv' /\ RepliesInv'
  <1> USE DEF SentPCs, ReplyPCs, mgr, link
  <1>0. /\ TypeOK /\ SwitchLock /\ UnloadHeadsQueue
        /\ LoadPCs \cup UnloadPCs \subseteq PCs
        /\ {"idle", "ramCheck", "resolve", "enterprise", "upgraded"} \subseteq PCs
    BY DEF IInv, PCs
  <1>1. ASSUME NEW a \in Actors, Step(a) \/ ApplyPendingUpgrade(a) \/ ClearMemory(a)
        PROVE  ChannelInv' /\ RepliesInv'
    <2>0. ASSUME NEW p \in PCs, pc' = [pc EXCEPT ![a] = p],
                 UNCHANGED <<channel, replies>>,
                 pc[a] \notin {"loadReply", "unloadReply"},
                 p \notin {"exec", "loadReply", "unloadReply", "loadSent"},
                 pc[a] \in SentPCs <=> p \in SentPCs,
                 p = "inited" => pc[a] = "exec"
          PROVE  ChannelInv' /\ RepliesInv'
      <3>1. ChannelInv'
        BY <1>0, <2>0, ChannelKept
      <3>2. RepliesInv'
        BY <1>0, <2>0, RepliesKept
      <3> QED BY <3>1, <3>2
    <2>1. CASE RamChecked(a)
      <3>1. UNCHANGED <<channel, replies>> /\ pc[a] = "ramCheck"
        BY <2>1 DEF RamChecked
      <3>2. \E p \in {"idle", "upgraded", "enterprise", "resolve"} :
                pc' = [pc EXCEPT ![a] = p]
        BY <2>1 DEF RamChecked, Enter, Goto
      <3> QED BY <1>0, <2>0, <3>1, <3>2
    <2>2. CASE Upgraded(a)
      BY <1>0, <2>0, <2>2 DEF Upgraded, Goto
    <2>3. CASE Resolve(a)
      <3>1. UNCHANGED <<channel, replies>> /\ pc[a] = "resolve"
        BY <2>3 DEF Resolve
      <3>2. \E p \in {"idle", "load"} : pc' = [pc EXCEPT ![a] = p]
        BY <2>3 DEF Resolve, Throw, BeginLoad, Goto
      <3> QED BY <1>0, <2>0, <3>1, <3>2 DEF LoadPCs
    <2>4. CASE EnterpriseRefused(a) \/ EnterpriseLocal(a) \/ EnterpriseRemote(a)
      BY <2>4 DEF EnterpriseRefused, EnterpriseLocal, EnterpriseRemote, FreeInv
    <2>5. CASE SendLoad(a)
      <3>1. /\ pc[a] = "load" /\ pc' = [pc EXCEPT ![a] = "loadSent"]
            /\ channel' = Append(channel, a) /\ replies' = replies
        BY <2>5 DEF SendLoad, Goto
      <3>2. \A b \in Actors \ {a} :
              pc[b] \notin {"loadSent", "exec", "inited", "loadReply"}
        BY <1>0, <3>1, OneLoad DEF LoadPCs
      <3>3. ChannelInv'
        BY <1>0, <3>1, <3>2, ChannelSent
      <3>4. RepliesInv'
        BY <1>0, <3>1, RepliesKept DEF LoadPCs
      <3> QED BY <3>3, <3>4
    <2>6. CASE PlatformLoad(a)
      <3>1. /\ pc[a] = "loadSent" /\ pc' = [pc EXCEPT ![a] = "exec"]
            /\ channel # <<>> /\ Head(channel) = a
            /\ channel' = Tail(channel) /\ replies' = replies
        BY <2>6 DEF PlatformLoad, Goto
      <3>2. ChannelInv'
        BY <1>0, <3>1, ChannelServed DEF LoadPCs
      <3>3. RepliesInv'
        BY <1>0, <3>1, RepliesKept DEF LoadPCs
      <3> QED BY <3>2, <3>3
    <2>7. CASE ModelNotFound(a) \/ PluginLoaded(a)
      <3>1. /\ pc[a] \in {"exec", "inited"} /\ pc' = [pc EXCEPT ![a] = "loadReply"]
            /\ channel' = channel /\ replies' = Append(replies, a)
        BY <2>7 DEF ModelNotFound, PluginLoaded, Goto
      <3>2. ChannelInv'
        BY <1>0, <3>1, ChannelKept DEF LoadPCs
      <3>3. \A b \in Actors : pc[b] # "loadReply"
        BY <1>0, <3>1, OneLoad DEF LoadPCs
      <3>4. RepliesInv'
        BY <1>0, <3>1, <3>3, RepliesPosted
      <3> QED BY <3>2, <3>4
    <2>8. CASE NativeInitModel(a)
      BY <1>0, <2>0, <2>8 DEF NativeInitModel, Goto, LoadPCs
    <2>9. CASE LoadReply(a)
      <3>1. /\ pc[a] = "loadReply" /\ replies # <<>> /\ Head(replies) = a
            /\ channel' = channel /\ replies' = Tail(replies)
        BY <2>9 DEF LoadReply
      <3>2. PICK p \in {"idle", "upgraded", "load"} : pc' = [pc EXCEPT ![a] = p]
        BY <2>9 DEF LoadReply, Return, Throw, BeginLoad, Goto
      <3>3. ChannelInv'
        BY <1>0, <3>1, <3>2, ChannelKept DEF LoadPCs
      <3>4. RepliesInv'
        BY <1>0, <3>1, <3>2, RepliesRead DEF LoadPCs
      <3> QED BY <3>3, <3>4
    <2>10. CASE PlatformUnload(a) /\ kotlinLoaded
      BY <1>0, <2>0, <2>10 DEF PlatformUnload, Goto, UnloadPCs
    <2>11. CASE (PlatformUnload(a) /\ ~kotlinLoaded) \/ PluginUnloaded(a)
      <3>1. /\ pc[a] \in {"unloadSent", "freed"}
            /\ pc' = [pc EXCEPT ![a] = "unloadReply"]
            /\ channel' = Tail(channel) /\ replies' = Append(replies, a)
        BY <2>11 DEF PlatformUnload, PluginUnloaded, Goto
      <3>2. channel # <<>> /\ Head(channel) = a
        BY <1>0, <2>11 DEF PlatformUnload, PluginUnloaded, UnloadHeadsQueue
      <3>3. ChannelInv'
        BY <1>0, <3>1, <3>2, ChannelServed DEF UnloadPCs
      <3>4. \A b \in Actors : pc[b] # "loadReply"
        BY <3>2 DEF ChannelInv
      <3>5. RepliesInv'
        BY <1>0, <3>1, <3>4, RepliesPosted
      <3> QED BY <3>3, <3>5
    <2>12. CASE NativeFreeModel(a)
      BY <1>0, <2>0, <2>12 DEF NativeFreeModel, Goto, UnloadPCs
    <2>13. CASE UnloadReply(a)
      <3>1. /\ pc[a] = "unloadReply" /\ replies # <<>> /\ Head(replies) = a
            /\ channel' = channel /\ replies' = Tail(replies)
        BY <2>13 DEF UnloadReply
      <3>2. PICK p \in {"idle", "upgraded"} : pc' = [pc EXCEPT ![a] = p]
        BY <2>13 DEF UnloadReply, Return, Goto
      <3>3. ChannelInv'
        BY <1>0, <3>1, <3>2, ChannelKept
      <3>4. RepliesInv'
        BY <1>0, <3>1, <3>2, RepliesRead
      <3> QED BY <3>3, <3>4
    <2>14. CASE ApplyPendingUpgrade(a)
      <3>1. UNCHANGED <<channel, replies>> /\ pc[a] = "idle"
        BY <2>14 DEF ApplyPendingUpgrade
      <3>2. \E p \in {"idle", "ramCheck"} : pc' = [pc EXCEPT ![a] = p]
        <4>1. pc = [pc EXCEPT ![a] = "idle"]
          BY <1>0, <3>1 DEF TypeOK
        <4> QED BY <2>14, <4>1 DEF ApplyPendingUpgrade, Goto
      <3> QED BY <1>0, <2>0, <3>1, <3>2
    <2>15. CASE ClearMemory(a) /\ dartLoaded
      <3>1. /\ pc[a] = "idle" /\ pc' = [pc EXCEPT ![a] = "unloadSent"]
            /\ channel' = Append(channel, a) /\ replies' = replies
        BY <2>15 DEF ClearMemory, Goto
      <3>2. \A b \in Actors \ {a} :
              pc[b] \notin {"loadSent", "exec", "inited", "loadReply"}
        BY <2>15 DEF FreeInv, InSwitch, LoadPCs
      <3>3. ChannelInv'
        BY <1>0, <3>1, <3>2, ChannelSent
      <3>4. RepliesInv'
        BY <1>0, <3>1, RepliesKept DEF UnloadPCs
      <3> QED BY <3>3, <3>4
    <2>16. CASE ClearMemory(a) /\ ~dartLoaded
      BY <2>16 DEF ClearMemory, ChannelInv, RepliesInv
    <2> QED BY <1>1, <2>1, <2>2, <2>3, <2>4, <2>5, <2>6, <2>7, <2>8, <2>9, <2>10,
               <2>11, <2>12, <2>13, <2>14, <2>15, <2>16 DEF Step
  <1>2. ASSUME NEW a \in Actors, NEW t \in Targets, SwitchEngine(a, t)
        PROVE  ChannelInv' /\ RepliesInv'
    <2>1. UNCHANGED <<channel, replies>> /\ pc[a] = "idle"
      BY <1>2 DEF SwitchEngine
    <2>2. PICK p \in {"enterprise", "resolve"} : pc' = [pc EXCEPT ![a] = p]
      BY <1>2 DEF SwitchEngine, Enter, Goto
    <2>3. ChannelInv'
      BY <1>0, <2>1, <2>2, ChannelKept
    <2>4. RepliesInv'
      BY <1>0, <2>1, <2>2, RepliesKept
    <2> QED BY <2>3, <2>4
  <1>3. ASSUME \/ \E t \in Ready : OnTierReady(t)
               \/ \E t \in Tiers : QueueUpgrade(t) \/ FileChanges(t)
        PROVE  ChannelInv' /\ RepliesInv'
    <2>1. UNCHANGED <<pc, channel, replies>>
      BY <1>3 DEF OnTierReady, QueueUpgrade, FileChanges
    <2> QED BY <2>1 DEF ChannelInv, RepliesInv
  <1> QED BY <1>1, <1>2, <1>3 DEF Next

(* The four facts.  An unload is served before any load is, since the load *)
(* is the last call in the channel; and while a load is under way AIManager*)
(* takes nothing for loaded, so no model is in memory when it begins.      *)
LEMMA TruthStep ==
    ASSUME FreeOnly, IInv, FreeInv, ChannelInv, RepliesInv, TruthInv, Next
    PROVE  TruthInv'
  <1> USE DEF mgr, link, eng, call, env
  <1>0. TypeOK /\ SwitchLock /\ UnloadHeadsQueue /\ None # "free"
    BY TierAssumption DEF IInv, Tiers
  <1>a. \A a, b \in Actors : pc[a] \in {"exec", "inited", "loadReply"} =>
          pc[b] \notin {"loadSent", "unloadSent", "free", "freed"}
    <2> SUFFICES ASSUME NEW a \in Actors, NEW b \in Actors,
                        pc[a] \in {"exec", "inited", "loadReply"}, pc[b] \in SentPCs
                 PROVE  FALSE
      BY DEF SentPCs
    <2>1. channel = <<>> /\ \E i \in 1 .. Len(channel) : channel[i] = b
      BY DEF ChannelInv
    <2> QED BY <2>1
  <1>b. \A a \in Actors : pc[a] \in LoadPCs => ~dartLoaded
    BY DEF FreeInv, InSwitch, LoadPCs
  <1>c. \A a, b \in Actors : pc[a] \in LoadPCs /\ pc[b] \in LoadPCs => a = b
    BY <1>0, OneLoad
  <1>d. ASSUME NEW a \in Actors, NEW p \in PCs, pc' = [pc EXCEPT ![a] = p]
        PROVE  \A b \in Actors : pc'[b] = IF b = a THEN p ELSE pc[b]
    BY <1>0, <1>d DEF TypeOK
  <1>e. /\ LoadPCs \cup UnloadPCs \subseteq PCs
        /\ {"idle", "ramCheck", "resolve", "enterprise", "upgraded"} \subseteq PCs
    BY DEF PCs
  <1>1. ASSUME NEW a \in Actors, Step(a) \/ ApplyPendingUpgrade(a) \/ ClearMemory(a)
        PROVE  TruthInv'
    <2>0. ASSUME NEW p \in PCs, pc' = [pc EXCEPT ![a] = p], UNCHANGED eng,
                 \/ UNCHANGED ok
                 \/ pc[a] = "resolve" /\ ok' = [ok EXCEPT ![a] = FALSE],
                 pc[a] \notin {"inited", "loadReply", "freed", "unloadReply"},
                 p \notin {"inited", "loadReply", "freed", "unloadReply"}
          PROVE  TruthInv'
      <3>1. \A b \in Actors : pc'[b] = IF b = a THEN p ELSE pc[b]
        BY <1>d, <2>0
      <3>2. \A b \in Actors : pc'[b] \in {"inited", "loadReply"} => ok'[b] = ok[b]
        BY <1>0, <2>0, <3>1 DEF TypeOK
      <3> QED BY <2>0, <3>1, <3>2 DEF TruthInv
    <2>1. CASE RamChecked(a)
      <3>1. UNCHANGED <<eng, ok>> /\ pc[a] = "ramCheck"
        BY <2>1 DEF RamChecked, Enter
      <3>2. \E p \in {"idle", "upgraded", "enterprise", "resolve"} :
                pc' = [pc EXCEPT ![a] = p]
        BY <2>1 DEF RamChecked, Enter, Goto
      <3> QED BY <1>e, <2>0, <3>1, <3>2
    <2>2. CASE Upgraded(a)
      BY <1>e, <2>0, <2>2 DEF Upgraded, Goto
    <2>3. CASE Resolve(a)
      <3>1. /\ UNCHANGED eng /\ pc[a] = "resolve"
            /\ UNCHANGED ok \/ ok' = [ok EXCEPT ![a] = FALSE]
        BY <2>3 DEF Resolve, Throw, Finish
      <3>2. \E p \in {"idle", "load"} : pc' = [pc EXCEPT ![a] = p]
        BY <2>3 DEF Resolve, Throw, BeginLoad, Goto
      <3> QED BY <1>e, <2>0, <3>1, <3>2 DEF LoadPCs
    <2>4. CASE EnterpriseRefused(a) \/ EnterpriseLocal(a) \/ EnterpriseRemote(a)
      BY <2>4 DEF EnterpriseRefused, EnterpriseLocal, EnterpriseRemote, FreeInv
    <2>5. CASE SendLoad(a) \/ PlatformLoad(a)
      <3>1. UNCHANGED <<eng, ok>> /\ pc[a] \in {"load", "loadSent"}
        BY <2>5 DEF SendLoad, PlatformLoad
      <3>2. \E p \in {"loadSent", "exec"} : pc' = [pc EXCEPT ![a] = p]
        BY <2>5 DEF SendLoad, PlatformLoad, Goto
      <3> QED BY <1>e, <2>0, <3>1, <3>2 DEF LoadPCs
    <2>6. CASE ModelNotFound(a) \/ NativeInitModel(a)
      <3>1. pc[a] = "exec" /\ ~dartLoaded
        BY <2>6, <1>b DEF ModelNotFound, NativeInitModel, LoadPCs
      <3>2. \A b \in Actors : pc[b] \notin {"inited", "loadReply", "freed"}
        BY <1>a, <1>c, <3>1 DEF LoadPCs
      <3>3. native = None /\ ~kotlinLoaded
        BY <1>0, <3>1, <3>2 DEF TruthInv, FreeInv, TypeOK
      <3>4. PICK p \in {"inited", "loadReply"} : pc' = [pc EXCEPT ![a] = p]
        BY <2>6 DEF ModelNotFound, NativeInitModel, Goto
      <3>5. \A b \in Actors : pc'[b] = IF b = a THEN p ELSE pc[b]
        BY <1>d, <1>e, <3>4 DEF LoadPCs
      <3>6. \A b \in Actors \ {a} : pc'[b] \notin {"inited", "loadReply", "freed"}
        BY <3>2, <3>5
      <3>7. CASE ModelNotFound(a)
        <4>1. UNCHANGED eng /\ ok'[a] = FALSE
          BY <1>0, <3>7 DEF ModelNotFound, TypeOK
        <4> QED BY <1>0, <3>1, <3>3, <3>5, <3>6, <4>1 DEF TruthInv
      <3>8. CASE NativeInitModel(a)
        <4>1. /\ UNCHANGED <<dartLoaded, kotlinLoaded>>
              /\ pc'[a] = "inited"
              /\ ok'[a] <=> native' = "free"
          <5>1. loading[a] = "free"
            BY <3>1 DEF FreeInv, LoadPCs
          <5>2. pc' = [pc EXCEPT ![a] = "inited"]
            BY <3>8 DEF NativeInitModel, Goto
          <5>3. CASE native' = loading[a] /\ ok' = [ok EXCEPT ![a] = TRUE]
            BY <1>0, <5>1, <5>2, <5>3, <3>8 DEF NativeInitModel, TypeOK
          <5>4. CASE native' = None /\ ok' = [ok EXCEPT ![a] = FALSE]
            BY <1>0, <5>2, <5>4, <3>8 DEF NativeInitModel, TypeOK
          <5> QED BY <3>8, <5>3, <5>4 DEF NativeInitModel
        <4> QED BY <1>0, <3>1, <3>5, <3>6, <4>1 DEF TruthInv
      <3> QED BY <2>6, <3>7, <3>8
    <2>7. CASE PluginLoaded(a)
      <3>1. /\ pc[a] = "inited" /\ pc' = [pc EXCEPT ![a] = "loadReply"]
            /\ kotlinLoaded' = ok[a] /\ UNCHANGED <<dartLoaded, native, ok>>
        BY <2>7 DEF PluginLoaded, Goto
      <3>2. \A b \in Actors : pc'[b] = IF b = a THEN "loadReply" ELSE pc[b]
        BY <1>d, <1>e, <3>1 DEF LoadPCs
      <3>3. ok[a] <=> native = "free"
        BY <3>1 DEF TruthInv
      <3>4. ~dartLoaded /\ \A b \in Actors : pc[b] # "freed"
        BY <1>a, <1>b, <3>1 DEF LoadPCs
      <3> QED BY <3>1, <3>2, <3>3, <3>4 DEF TruthInv
    <2>8. CASE LoadReply(a)
      <3>1. /\ pc[a] = "loadReply" /\ replies # <<>> /\ Head(replies) = a
            /\ replies' = Tail(replies) /\ dartLoaded' = ok[a]
            /\ UNCHANGED <<kotlinLoaded, native>>
        BY <2>8 DEF LoadReply
      <3>2. PICK p \in {"idle", "upgraded", "load"} : pc' = [pc EXCEPT ![a] = p]
        BY <2>8 DEF LoadReply, Return, Throw, BeginLoad, Goto
      <3>3. \A b \in Actors : pc'[b] = IF b = a THEN p ELSE pc[b]
        BY <1>0, <3>2 DEF TypeOK
      <3>4. \A b \in Actors : pc[b] # "unloadReply"
        BY <1>0, <1>e, <3>1, <3>2, RepliesRead DEF LoadPCs, ReplyPCs
      <3>5. \A b \in Actors :
              /\ pc[b] # "freed"
              /\ b # a => pc[b] \notin {"inited", "loadReply"}
        <4> SUFFICES ASSUME NEW b \in Actors
                     PROVE  /\ pc[b] # "freed"
                            /\ b # a => pc[b] \notin {"inited", "loadReply"}
          OBVIOUS
        <4>1. pc[b] # "freed"
          BY <1>a, <3>1
        <4>2. pc[b] \in {"inited", "loadReply"} => b = a
          BY <1>c, <3>1 DEF LoadPCs
        <4> QED BY <4>1, <4>2
      <3>6. \A b \in Actors :
              pc'[b] \notin {"unloadReply", "freed", "inited", "loadReply"}
        BY <3>2, <3>3, <3>4, <3>5
      <3>7. ok[a] <=> native = "free"
        BY <3>1 DEF TruthInv
      <3>8. kotlinLoaded <=> native = "free"
        <4>1. \A b \in Actors : pc[b] # "freed" /\ pc[b] # "inited"
          BY <3>1, <3>5
        <4> QED BY <4>1 DEF TruthInv
      <3> QED BY <1>0, <3>1, <3>6, <3>7, <3>8 DEF TruthInv
    <2>9. CASE PlatformUnload(a)
      <3>1. pc[a] = "unloadSent" /\ Head(channel) = a /\ UNCHANGED <<eng, ok>>
        BY <2>9 DEF PlatformUnload
      <3>2. \A b \in Actors : pc[b] \notin {"inited", "loadReply"}
        BY <1>a, <3>1
      <3>3. \A b \in Actors : pc[b] # "freed"
        BY <1>0, <3>1 DEF UnloadHeadsQueue
      <3>4. kotlinLoaded <=> native = "free"
        BY <3>2, <3>3 DEF TruthInv
      <3>5. PICK p \in {"free", "unloadReply"} : 
                /\ pc' = [pc EXCEPT ![a] = p]
                /\ p = "unloadReply" => ~kotlinLoaded
        BY <2>9 DEF PlatformUnload, Goto
      <3>6. \A b \in Actors : pc'[b] = IF b = a THEN p ELSE pc[b]
        BY <1>d, <1>e, <3>5 DEF UnloadPCs
      <3>7. \A b \in Actors : pc'[b] \notin {"inited", "loadReply", "freed"}
        BY <3>2, <3>3, <3>6
      <3>8. native = "free" => dartLoaded /\ \A b \in Actors : pc[b] # "unloadReply"
        BY <3>2 DEF TruthInv
      <3>9. native = None => ~dartLoaded \/ \E b \in Actors : pc'[b] = "unloadReply"
        <4>1. ASSUME NEW b \in Actors, pc[b] = "unloadReply"
              PROVE  pc'[b] = "unloadReply"
          BY <4>1, <3>1, <3>6
        <4> QED BY <3>3, <4>1 DEF TruthInv
      <3>10. native = "free" => dartLoaded /\ \A b \in Actors : pc'[b] # "unloadReply"
        BY <3>4, <3>5, <3>6, <3>8
      <3> QED BY <3>1, <3>4, <3>7, <3>9, <3>10 DEF TruthInv
    <2>10. CASE NativeFreeModel(a)
      <3>1. /\ pc[a] = "free" /\ pc' = [pc EXCEPT ![a] = "freed"] /\ native' = None
            /\ UNCHANGED <<dartLoaded, kotlinLoaded, ok>>
        BY <2>10 DEF NativeFreeModel, Goto
      <3>2. \A b \in Actors : pc'[b] = IF b = a THEN "freed" ELSE pc[b]
        BY <1>d, <1>e, <3>1 DEF UnloadPCs
      <3>3. \A b \in Actors : pc'[b] \notin {"inited", "loadReply"}
        BY <1>a, <3>1, <3>2
      <3> QED BY <1>0, <3>1, <3>2, <3>3 DEF TruthInv
    <2>11. CASE PluginUnloaded(a)
      <3>1. /\ pc[a] = "freed" /\ pc' = [pc EXCEPT ![a] = "unloadReply"]
            /\ kotlinLoaded' = FALSE /\ UNCHANGED <<dartLoaded, native, ok>>
        BY <2>11 DEF PluginUnloaded, Goto
      <3>2. \A b \in Actors : pc'[b] = IF b = a THEN "unloadReply" ELSE pc[b]
        BY <1>d, <1>e, <3>1 DEF UnloadPCs
      <3>3. \A b \in Actors : pc'[b] \notin {"inited", "loadReply"}
        BY <1>a, <3>1, <3>2
      <3>4. native = None
        BY <3>1 DEF TruthInv
      <3> QED BY <1>0, <3>1, <3>2, <3>3, <3>4 DEF TruthInv
    <2>12. CASE UnloadReply(a)
      <3>1. /\ pc[a] = "unloadReply" /\ tier[a] = None
        BY <2>12 DEF UnloadReply, FreeInv, UnloadPCs
      <3>2. /\ pc' = [pc EXCEPT ![a] = "idle"] /\ dartLoaded' = FALSE
            /\ UNCHANGED <<kotlinLoaded, native, ok>>
        BY <2>12, <3>1 DEF UnloadReply, Goto
      <3>3. \A b \in Actors : pc'[b] = IF b = a THEN "idle" ELSE pc[b]
        BY <1>d, <1>e, <3>2
      <3>4. \A b \in Actors : pc[b] \in {"inited", "loadReply", "freed"} => pc'[b] = pc[b]
        BY <3>1, <3>3
      <3>5. \A b \in Actors : pc'[b] \in {"inited", "loadReply", "freed"} => pc'[b] = pc[b]
        BY <3>3
      <3>6. native = "free" => \E b \in Actors : pc'[b] \in {"inited", "loadReply"}
        <4>1. native = "free" => \E b \in Actors : pc[b] \in {"inited", "loadReply"}
          BY <3>1 DEF TruthInv
        <4> QED BY <3>4, <4>1
      <3>7. \/ kotlinLoaded <=> native = "free"
            \/ \E b \in Actors : pc'[b] \in {"freed", "inited"}
        <4>1. \/ kotlinLoaded <=> native = "free"
              \/ \E b \in Actors : pc[b] \in {"freed", "inited"}
          BY DEF TruthInv
        <4> QED BY <3>4, <4>1
      <3> QED BY <3>2, <3>5, <3>6, <3>7 DEF TruthInv
    <2>13. CASE ApplyPendingUpgrade(a)
      <3>1. UNCHANGED <<eng, ok>> /\ pc[a] = "idle"
        BY <2>13 DEF ApplyPendingUpgrade
      <3>2. \E p \in {"idle", "ramCheck"} : pc' = [pc EXCEPT ![a] = p]
        <4>1. pc = [pc EXCEPT ![a] = "idle"]
          BY <1>0, <3>1 DEF TypeOK
        <4> QED BY <2>13, <4>1 DEF ApplyPendingUpgrade, Goto
      <3> QED BY <1>e, <2>0, <3>1, <3>2
    <2>14. CASE ClearMemory(a)
      <3>1. UNCHANGED <<eng, ok>> /\ pc[a] = "idle"
        BY <2>14 DEF ClearMemory
      <3>2. \E p \in {"idle", "unloadSent"} : pc' = [pc EXCEPT ![a] = p]
        <4>1. pc = [pc EXCEPT ![a] = "idle"]
          BY <1>0, <3>1 DEF TypeOK
        <4> QED BY <2>14, <4>1 DEF ClearMemory, Goto
      <3> QED BY <1>e, <2>0, <3>1, <3>2 DEF UnloadPCs
    <2> QED BY <1>1, <2>1, <2>2, <2>3, <2>4, <2>5, <2>6, <2>7, <2>8, <2>9, <2>10,
               <2>11, <2>12, <2>13, <2>14 DEF Step
  <1>2. ASSUME NEW a \in Actors, NEW t \in Targets, SwitchEngine(a, t)
        PROVE  TruthInv'
    <2>1. UNCHANGED <<eng, ok>> /\ pc[a] = "idle"
      BY <1>2 DEF SwitchEngine, Enter
    <2>2. PICK p \in {"enterprise", "resolve"} : pc' = [pc EXCEPT ![a] = p]
      BY <1>2 DEF SwitchEngine, Enter, Goto
    <2>3. \A b \in Actors : pc'[b] = IF b = a THEN p ELSE pc[b]
      BY <1>d, <1>e, <2>2
    <2> QED BY <2>1, <2>2, <2>3 DEF TruthInv
  <1>3. ASSUME \/ \E t \in Ready : OnTierReady(t)
               \/ \E t \in Tiers : QueueUpgrade(t) \/ FileChanges(t)
        PROVE  TruthInv'
    <2>1. UNCHANGED <<pc, eng, ok>>
      BY <1>3 DEF OnTierReady, QueueUpgrade, FileChanges
    <2> QED BY <2>1 DEF TruthInv
  <1> QED BY <1>1, <1>2, <1>3 DEF Next

(* With the free model only, as the app's registry has it, what AIManager, *)
(* the wrapper and the plugin take for loaded is loaded, whenever no call  *)
(* is under way: for any number of callers, failed loads, files that come  *)
(* and go, announcements, and switches to tiers that are refused.          *)
THEOREM ActiveIsLoaded ==
    ASSUME FreeOnly
    PROVE  Spec => []ActiveTierIsLoaded
  <1>1. Init => LoadedInv
    BY TierAssumption
       DEF Init, LoadedInv, FreeInv, ChannelInv, RepliesInv, TruthInv, InSwitch,
           LoadPCs, UnloadPCs, Tiers, SentPCs
  <1>2. IInv /\ LoadedInv /\ [Next]_vars => LoadedInv'
    <2>1. CASE UNCHANGED vars
      BY <2>1 DEF LoadedInv, FreeInv, ChannelInv, RepliesInv, TruthInv, InSwitch,
         vars, mgr, link, eng, call
    <2>2. CASE IInv /\ LoadedInv /\ Next
      BY <2>2, FreeStep, QueuesStep, TruthStep DEF LoadedInv
    <2> QED BY <2>1, <2>2
  <1>3. IInv /\ LoadedInv => ActiveTierIsLoaded
    <2> SUFFICES ASSUME IInv, FreeInv, TruthInv, Quiet
                 PROVE  /\ native = activeTier
                        /\ dartLoaded <=> native # None
                        /\ kotlinLoaded <=> native # None
      BY DEF LoadedInv, ActiveTierIsLoaded
    <2>1. None # "free"
      BY TierAssumption DEF Tiers
    <2>2. \A a \in Actors : pc[a] = "idle"
      BY DEF Quiet
    <2> QED BY <2>1, <2>2 DEF FreeInv, TruthInv
  <1> QED BY <1>1, <1>2, <1>3, IInvHolds, PTL DEF Spec
=============================================================================
