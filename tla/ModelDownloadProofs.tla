------------------------ MODULE ModelDownloadProofs ------------------------
(***************************************************************************)
(* What TLAPS proves of ModelDownload.                                     *)
(***************************************************************************)
EXTENDS ModelDownload, SequenceTheorems, TLAPS

(***************************************************************************)
(* Type correctness.                                                       *)
(***************************************************************************)

(* A free inode is an inode nobody uses.                                   *)
LEMMA FreeInodeIsFree == Room => FreeInode \in Inodes /\ FreeInode \notin Used
  BY DEF Room, FreeInode

(* A write changes one inode, and keeps its content a sequence of chunks.  *)
LEMMA WriteAtType ==
    ASSUME NEW s \in Seq(0..FileSize), NEW p \in Nat \ {0},
           NEW k \in 0..FileSize
    PROVE  WriteAt(s, p, k) \in Seq(0..FileSize)
  <1>1. CASE p = Len(s) + 1
    BY <1>1 DEF WriteAt
  <1>2. CASE p <= Len(s)
    <2>1. Len(s) \in Nat /\ p \in 1..Len(s)
      BY <1>2, LenProperties
    <2>2. [s EXCEPT ![p] = k] \in Seq(0..FileSize)
      BY <2>1, ExceptSeq
    <2>3. WriteAt(s, p, k) = [s EXCEPT ![p] = k]
      BY <2>1 DEF WriteAt
    <2> QED BY <2>2, <2>3
  <1>3. CASE p > Len(s) + 1
    <2> DEFINE t == [i \in 1..p |-> IF i <= Len(s) THEN s[i]
                                    ELSE IF i < p THEN 0 ELSE k]
    <2>1. t \in [1..p -> 0..FileSize]
      BY SizeAssumption
    <2>2. t \in Seq(0..FileSize)
      BY <2>1
    <2>3. WriteAt(s, p, k) = t
      BY <1>3 DEF WriteAt
    <2> QED BY <2>2, <2>3
  <1> QED BY <1>1, <1>2, <1>3

(* One write of a sink that has chunks pending.                            *)
LEMMA SinkWriteType ==
    ASSUME TypeOK, NEW w \in Sinks, Pending(w)
    PROVE  /\ DiskAfter(w) \in [Inodes -> Seq(0..FileSize)]
           /\ Written(w) \in Sinks
  <1>1. w.pos + 1 \in Nat \ {0} /\ w.wrote + 1 \in 0..FileSize
    BY SizeAssumption DEF Sinks, Pending
  <1>2. w.ino \in Inodes =>
          WriteAt(data[w.ino], w.pos + 1, w.wrote + 1) \in Seq(0..FileSize)
    BY <1>1, WriteAtType DEF TypeOK
  <1>3. DiskAfter(w) \in [Inodes -> Seq(0..FileSize)]
    BY <1>2 DEF DiskAfter, TypeOK
  <1>4. Written(w) \in Sinks
    BY <1>1 DEF Written, Sinks
  <1> QED BY <1>3, <1>4

(* No sink is a sink with nothing to write.                                *)
LEMMA NoSinkType == NoSink \in Sinks
  BY SizeAssumption DEF NoSink, Sinks

(* The ways out of a call keep the variables they touch in their types.    *)
LEMMA ReturnTrueType ==
    ASSUME TypeOK, NEW c \in Callers, ReturnTrue(c)
    PROVE  /\ progress' \in BOOLEAN
           /\ announced' \in BOOLEAN
           /\ pc' \in [Callers -> PCs]
           /\ sink' \in [Callers -> Sinks]
  <1>1. pc' \in [Callers -> PCs]
    BY DEF ReturnTrue, Goto, PCs, TypeOK
  <1>2. sink' \in [Callers -> Sinks]
    BY NoSinkType DEF ReturnTrue, TypeOK
  <1>3. progress' \in BOOLEAN /\ announced' \in BOOLEAN
    BY DEF ReturnTrue, Publish, TypeOK
  <1> QED BY <1>1, <1>2, <1>3

(* A call that failed, followed by a retry or not.                         *)
LEMMA ReturnFalseType ==
    ASSUME TypeOK, NEW c \in Callers, ReturnFalse(c)
    PROVE  /\ progress' \in BOOLEAN
           /\ pc' \in [Callers -> PCs]
           /\ sink' \in [Callers -> Sinks]
  <1>1. progress' \in BOOLEAN /\ pc' \in [Callers -> PCs]
    <2>1. CASE attempt[c] < Attempts[c]
      BY <2>1 DEF ReturnFalse, Publish, TypeOK, Goto, PCs
    <2>2. CASE ~(attempt[c] < Attempts[c])
      BY <2>2 DEF ReturnFalse, Publish, TypeOK, Goto, PCs
    <2> QED BY <2>1, <2>2
  <1>2. sink' \in [Callers -> Sinks]
    BY NoSinkType DEF ReturnFalse, TypeOK
  <1> QED BY <1>1, <1>2

(* The catch block, which may leave a sink behind.                         *)
LEMMA ThrowType ==
    ASSUME TypeOK, NEW c \in Callers, Throw(c)
    PROVE  /\ downloading' \in BOOLEAN
           /\ orphans' \in SUBSET Sinks
           /\ progress' \in BOOLEAN
           /\ pc' \in [Callers -> PCs]
           /\ sink' \in [Callers -> Sinks]
  <1>1. ReturnFalse(c) /\ downloading' \in BOOLEAN
    BY DEF Throw
  <1>2. orphans' \in SUBSET Sinks
    BY DEF Throw, TypeOK
  <1> QED BY <1>1, <1>2, ReturnFalseType

(* Every step keeps the type invariant.                                    *)
LEMMA TypeStep == TypeOK /\ [Next]_vars => TypeOK'
  <1> SUFFICES ASSUME TypeOK, [Next]_vars
               PROVE  TypeOK'
    OBVIOUS
  <1> USE SizeAssumption, CallersAssumption
  <1>1. ASSUME NEW c \in Callers, Start(c)
        PROVE  TypeOK'
    BY <1>1 DEF Start, BeginCall, Goto, PCs, TypeOK, disk, app, env
  <1>2. ASSUME NEW c \in Callers, Retry(c)
        PROVE  TypeOK'
    BY <1>2 DEF Retry, BeginCall, Goto, PCs, TypeOK, disk, app, env
  <1>3. ASSUME NEW c \in Callers, CheckFinal(c)
        PROVE  TypeOK'
    <2>1. CASE IsValidLocalModel
      <3>1. ReturnTrue(c)
        BY <1>3, <2>1 DEF CheckFinal
      <3> QED BY <1>3, <3>1, ReturnTrueType DEF CheckFinal, TypeOK, disk, env
    <2>2. CASE ~IsValidLocalModel
      BY <1>3, <2>2 DEF CheckFinal, Goto, PCs, TypeOK, disk, env
    <2> QED BY <2>1, <2>2
  <1>4. ASSUME NEW c \in Callers, PurgeFinal(c)
        PROVE  TypeOK'
    BY <1>4 DEF PurgeFinal, Goto, PCs, TypeOK, app, env
  <1>5. ASSUME NEW c \in Callers, SendRequest(c)
        PROVE  TypeOK'
    <2>1. CASE Throw(c) /\ Fault /\ UNCHANGED <<ranged, existing>>
      BY <1>5, <2>1, ThrowType DEF SendRequest, Fault, TypeOK
    <2>2. CASE ~(Throw(c) /\ Fault /\ UNCHANGED <<ranged, existing>>)
      <3>1. (IF Exists("partial") THEN Len(data[names["partial"]]) ELSE 0)
                \in Nat
        BY LenProperties DEF Exists, TypeOK
      <3>2. existing' \in [Callers -> Nat]
        BY <1>5, <2>2, <3>1 DEF SendRequest, TypeOK
      <3>3. ranged' \in [Callers -> BOOLEAN]
        BY <1>5, <2>2 DEF SendRequest, Exists, TypeOK
      <3>4. pc' \in [Callers -> PCs]
        BY <1>5, <2>2, ZenonT(60) DEF SendRequest, Goto, PCs, TypeOK
      <3>5. progress' \in BOOLEAN
        BY <1>5, <2>2 DEF SendRequest, Publish, TypeOK
      <3> QED BY <1>5, <2>2, <3>2, <3>3, <3>4, <3>5 DEF SendRequest, TypeOK
    <2> QED BY <2>1, <2>2
  <1>6. ASSUME NEW c \in Callers, GetResponse(c)
        PROVE  TypeOK'
    <2>1. CASE Resume(c)
      <3> DEFINE i == IF Exists("partial") THEN names["partial"] ELSE FreeInode
                 keep == Exists("partial") /\ existing[c] > 0
      <3>1. i \in Inodes
        BY <2>1, FreeInodeIsFree DEF Resume, Exists, TypeOK
      <3>2. names' \in [{"final", "partial"} -> Inodes \cup {None}]
        BY <2>1, <3>1 DEF Resume, TypeOK
      <3>3. data' \in [Inodes -> Seq(0..FileSize)]
        <4>1. data' = [data EXCEPT ![i] = IF keep THEN @ ELSE <<>>]
          BY <2>1 DEF Resume
        <4> HIDE DEF i, keep
        <4> QED BY <4>1, <3>1, EmptySeq DEF TypeOK
      <3>4. sink' \in [Callers -> Sinks]
        <4>1. /\ (IF keep THEN Len(data[i]) ELSE 0) \in Nat
              /\ existing[c] \in 0..FileSize
          BY <2>1, <3>1 DEF Resume, TypeOK
        <4>2. sink' = [sink EXCEPT ![c] =
                 [ino |-> i, pos |-> IF keep THEN Len(data[i]) ELSE 0,
                  wrote |-> existing[c], recv |-> existing[c]]]
          BY <2>1 DEF Resume, OpenSink
        <4> HIDE DEF i, keep
        <4> QED BY <4>1, <4>2, <3>1 DEF TypeOK, Sinks
      <3> QED BY <1>6, <2>1, <3>2, <3>3, <3>4
              DEF GetResponse, Resume, Goto, PCs, TypeOK
    <2>2. CASE StartOver(c)
      <3>1. FreeInode \in Inodes
        BY <2>2, FreeInodeIsFree DEF StartOver
      <3>2. sink' \in [Callers -> Sinks]
        BY <2>2, <3>1 DEF StartOver, OpenSink, Sinks, TypeOK
      <3>3. data' \in [Inodes -> Seq(0..FileSize)]
        BY <2>2, <3>1 DEF StartOver, TypeOK
      <3> QED BY <1>6, <2>2, <3>1, <3>2, <3>3
              DEF GetResponse, StartOver, Goto, PCs, TypeOK
    <2>3. CASE Refused(c)
      BY <1>6, <2>3, ThrowType, SMTT(60) DEF GetResponse, Refused, Fault, TypeOK
    <2> QED BY <1>6, <2>1, <2>2, <2>3 DEF GetResponse
  <1>7. ASSUME NEW c \in Callers, ReceiveChunk(c)
        PROVE  TypeOK'
    <2>1. CASE cancelFlag
      BY <1>7, <2>1 DEF ReceiveChunk, Goto, PCs, TypeOK, disk, env
    <2>2. CASE ~cancelFlag
      <3>1. sink[c] \in Sinks /\ sink[c].recv < FileSize
        BY <1>7, <2>2 DEF ReceiveChunk, TypeOK
      <3>2. [sink[c] EXCEPT !.recv = @ + 1] \in Sinks
        BY <3>1 DEF Sinks
      <3>3. sink' \in [Callers -> Sinks]
        BY <1>7, <2>2, <3>2 DEF ReceiveChunk, TypeOK
      <3>4. progress' \in BOOLEAN
        BY <1>7, <2>2 DEF ReceiveChunk, Publish, TypeOK
      <3> QED BY <1>7, <2>2, <3>3, <3>4 DEF ReceiveChunk, TypeOK, disk, env
    <2> QED BY <2>1, <2>2
  <1>8. ASSUME NEW c \in Callers, StreamEnds(c)
        PROVE  TypeOK'
    BY <1>8 DEF StreamEnds, Goto, PCs, TypeOK, disk, app, env
  <1>9. ASSUME NEW c \in Callers, StreamFails(c)
        PROVE  TypeOK'
    BY <1>9, ThrowType DEF StreamFails, Fault, TypeOK
  <1>10. ASSUME NEW c \in Callers, WriteBack(c)
         PROVE  TypeOK'
    <2>1. sink[c] \in Sinks
      BY DEF TypeOK
    <2>2. /\ data' \in [Inodes -> Seq(0..FileSize)]
          /\ sink' \in [Callers -> Sinks]
      BY <1>10, <2>1, SinkWriteType DEF WriteBack, TypeOK
    <2> QED BY <1>10, <2>2 DEF WriteBack, TypeOK, app, env
  <1>11. ASSUME NEW o \in orphans, OrphanWrites(o)
         PROVE  TypeOK'
    <2>1. o \in Sinks /\ Pending(o)
      BY <1>11 DEF TypeOK, OrphanWrites
    <2>2. /\ data' \in [Inodes -> Seq(0..FileSize)]
          /\ orphans' \in SUBSET Sinks
      BY <1>11, <2>1, SinkWriteType DEF OrphanWrites, TypeOK
    <2> QED BY <1>11, <2>2 DEF OrphanWrites, TypeOK, call, env
  <1>12. ASSUME NEW c \in Callers, CloseSink(c)
         PROVE  TypeOK'
    BY <1>12 DEF CloseSink, Goto, PCs, TypeOK, disk, app, env
  <1>13. ASSUME NEW c \in Callers, DropPartial(c)
         PROVE  TypeOK'
    BY <1>13, NoSinkType DEF DropPartial, Goto, PCs, TypeOK, env
  <1>14. ASSUME NEW c \in Callers, RenamePartial(c)
         PROVE  TypeOK'
    <2>1. CASE Exists("partial")
      BY <1>14, <2>1 DEF RenamePartial, Goto, PCs, TypeOK, env
    <2>2. CASE ~Exists("partial")
      BY <1>14, <2>2, ThrowType DEF RenamePartial, TypeOK, env
    <2> QED BY <2>1, <2>2
  <1>15. ASSUME NEW c \in Callers, Validate(c)
         PROVE  TypeOK'
    <2>1. CASE IsValidLocalModel
      <3>1. ReturnTrue(c) /\ UNCHANGED names
        BY <1>15, <2>1 DEF Validate
      <3> QED BY <1>15, <3>1, ReturnTrueType DEF Validate, TypeOK, env
    <2>2. CASE ~IsValidLocalModel
      <3>1. /\ ReturnFalse(c) /\ UNCHANGED announced
            /\ names' = [names EXCEPT !["final"] = None]
        BY <1>15, <2>2 DEF Validate
      <3> QED BY <1>15, <3>1, ReturnFalseType DEF Validate, TypeOK, env
    <2> QED BY <2>1, <2>2
  <1>16. CASE CancelDownload
    BY <1>16 DEF CancelDownload, AtWork, TypeOK, disk
  <1>17. CASE DeleteModel
    BY <1>17 DEF DeleteModel, TypeOK, disk, call
  <1>18. CASE DeleteFile
    BY <1>18 DEF DeleteFile, TypeOK, call, env
  <1>19. CASE Crash
    <2>1. sink' \in [Callers -> Sinks]
      BY <1>19, NoSinkType DEF Crash
    <2>2. /\ pc' \in [Callers -> PCs]
          /\ attempt' \in [Callers -> Nat] /\ existing' \in [Callers -> Nat]
      BY <1>19 DEF Crash, PCs
    <2>3. /\ ranged' \in [Callers -> BOOLEAN]
          /\ cancelled' \in [Callers -> BOOLEAN]
      BY <1>19 DEF Crash
    <2>4. /\ orphans' \in SUBSET Sinks /\ deleting' \in {"no", "final", "partial"}
          /\ UNCHANGED <<names, data, downloading>>
          /\ up' \in BOOLEAN /\ cancelFlag' \in BOOLEAN
          /\ progress' \in BOOLEAN /\ announced' \in BOOLEAN
      BY <1>19 DEF Crash, disk
    <2>5. faults' \in Nat /\ cancels' \in Nat /\ deletes' \in Nat /\ crashes' \in Nat
      BY <1>19 DEF Crash, TypeOK
    <2> QED BY <2>1, <2>2, <2>3, <2>4, <2>5 DEF TypeOK
  <1>20. CASE Restart
    BY <1>20 DEF Restart, TypeOK, call, env
  <1>21. CASE UNCHANGED vars
    BY <1>21 DEF vars, disk, call, app, env, TypeOK
  <1> QED
    BY <1>1, <1>2, <1>3, <1>4, <1>5, <1>6, <1>7, <1>8, <1>9, <1>10, <1>11,
       <1>12, <1>13, <1>14, <1>15, <1>16, <1>17, <1>18, <1>19, <1>20, <1>21
       DEF Next, Step

(* The variables of ModelDownload keep their types, for any number of      *)
(* callers, chunks, faults and crashes.                                    *)
THEOREM TypeCorrect == Spec => []TypeOK
  <1>1. Init => TypeOK
    <2> SUFFICES ASSUME Init PROVE TypeOK
      OBVIOUS
    <2>1. data \in [Inodes -> Seq(0..FileSize)]
      BY EmptySeq DEF Init
    <2>2. sink \in [Callers -> Sinks]
      BY NoSinkType DEF Init
    <2> QED BY <2>1, <2>2 DEF Init, TypeOK, PCs
  <1> QED BY <1>1, TypeStep, PTL DEF Spec

(***************************************************************************)
(* No trace of a finished download, for any number of callers.             *)
(***************************************************************************)

(* The preference is set only while some call is between its request and   *)
(* its end; the progress entry only while a loop that publishes it is at   *)
(* work.                                                                   *)
Busy == {"response", "stream", "close", "drop", "rename", "validate"}
TraceInv ==
    /\ downloading /\ up => \E c \in Callers : pc[c] \in Busy
    /\ progress => \E c \in Publishers : AtWork(c)

(* Every step keeps the preference and the progress entry to calls at work. *)
LEMMA TraceStep == TypeOK /\ TraceInv /\ [Next]_vars => TraceInv'
  <1> SUFFICES ASSUME TypeOK, TraceInv, [Next]_vars
               PROVE  TraceInv'
    OBVIOUS
  <1> USE DEF TraceInv, AtWork, Busy, Publish
  <1> pc \in [Callers -> PCs] /\ Publishers \subseteq Callers
    BY CallersAssumption DEF TypeOK
  <1>1. ASSUME NEW c \in Callers, Start(c) \/ Retry(c)
        PROVE  TraceInv'
    BY <1>1 DEF Start, Retry, BeginCall, Goto, disk, app
  <1>2. ASSUME NEW c \in Callers, CheckFinal(c) \/ PurgeFinal(c)
        PROVE  TraceInv'
    <2>1. CASE CheckFinal(c) /\ IsValidLocalModel
      BY <1>2, <2>1 DEF CheckFinal, ReturnTrue, Goto, disk
    <2>2. CASE CheckFinal(c) /\ ~IsValidLocalModel
      BY <1>2, <2>2 DEF CheckFinal, Goto, disk
    <2>3. CASE PurgeFinal(c)
      BY <1>2, <2>3 DEF PurgeFinal, Goto, disk, app
    <2> QED BY <1>2, <2>1, <2>2, <2>3
  <1>3. ASSUME NEW c \in Callers, SendRequest(c)
        PROVE  TraceInv'
    BY <1>3 DEF SendRequest, Throw, ReturnFalse, Goto
  <1>4. ASSUME NEW c \in Callers, GetResponse(c)
        PROVE  TraceInv'
    <2>1. CASE Refused(c)
      BY <1>4, <2>1 DEF GetResponse, Refused, Throw, ReturnFalse, Goto
    <2>2. CASE Resume(c) \/ StartOver(c)
      BY <1>4, <2>2 DEF GetResponse, Resume, StartOver, Goto
    <2> QED BY <1>4, <2>1, <2>2 DEF GetResponse
  <1>5. ASSUME NEW c \in Callers, ReceiveChunk(c) \/ StreamEnds(c)
        PROVE  TraceInv'
    <2>1. CASE ReceiveChunk(c) /\ cancelFlag
      BY <1>5, <2>1 DEF ReceiveChunk, Goto, disk
    <2>2. CASE ReceiveChunk(c) /\ ~cancelFlag
      BY <1>5, <2>2 DEF ReceiveChunk, Goto, disk
    <2>3. CASE StreamEnds(c)
      BY <1>5, <2>3 DEF StreamEnds, Goto, disk, app
    <2> QED BY <1>5, <2>1, <2>2, <2>3
  <1>6. ASSUME NEW c \in Callers, StreamFails(c)
        PROVE  TraceInv'
    BY <1>6 DEF StreamFails, Throw, ReturnFalse, Goto
  <1>7. ASSUME NEW c \in Callers, WriteBack(c)
        PROVE  TraceInv'
    BY <1>7 DEF WriteBack, app
  <1>8. ASSUME NEW o \in orphans, OrphanWrites(o)
        PROVE  TraceInv'
    BY <1>8 DEF OrphanWrites, call
  <1>9. ASSUME NEW c \in Callers, CloseSink(c) \/ DropPartial(c)
        PROVE  TraceInv'
    BY <1>9 DEF CloseSink, DropPartial, Goto, disk, app
  <1>10. ASSUME NEW c \in Callers, RenamePartial(c)
         PROVE  TraceInv'
    BY <1>10 DEF RenamePartial, Throw, ReturnFalse, Goto
  <1>11. ASSUME NEW c \in Callers, Validate(c)
         PROVE  TraceInv'
    BY <1>11 DEF Validate, ReturnTrue, ReturnFalse, Goto
  <1>12. CASE CancelDownload \/ DeleteModel \/ DeleteFile
    BY <1>12 DEF CancelDownload, DeleteModel, DeleteFile, disk, call
  <1>13. CASE Crash \/ Restart
    BY <1>13 DEF Crash, Restart, disk, call
  <1>14. CASE UNCHANGED vars
    BY <1>14 DEF vars, disk, call, app
  <1> QED
    BY <1>1, <1>2, <1>3, <1>4, <1>5, <1>6, <1>7, <1>8, <1>9, <1>10, <1>11,
       <1>12, <1>13, <1>14 DEF Next, Step

(* Whenever no call is at work, the preference and the progress entry are  *)
(* cleared: whatever the number of callers, their retries and the crashes. *)
THEOREM NoTrace == Spec => []NoTraceOfFinishedDownload
  <1>1. Init => TraceInv
    BY DEF Init, TraceInv
  <1>2. TraceInv => NoTraceOfFinishedDownload
    BY CallersAssumption DEF TraceInv, NoTraceOfFinishedDownload, AtWork, Busy
  <1> QED BY <1>1, <1>2, TraceStep, TypeCorrect, PTL DEF Spec

(***************************************************************************)
(* An accepted file is the file of the server, as long as one caller asks  *)
(* for it and the sink of a failed call is drained before the next call.   *)
(*                                                                         *)
(* The proof rests on what resuming can do to a .partial file.  Either it  *)
(* is a prefix of the server's file, and the next chunk written is the one *)
(* that follows; or deleteModel() removed it between the reading of its    *)
(* length and the opening of the sink, and then it begins with a chunk     *)
(* other than the first, which no later resumption repairs and the GGUF    *)
(* magic gives away.                                                       *)
(***************************************************************************)

Prefix(d) == \A k \in 1..Len(d) : d[k] = k
Headless(d) == d # <<>> /\ d[1] # 1

(* A sink writes at the end of its file, and continues what is there.      *)
Honest(w, content) ==
    LET d == content[w.ino]
    IN  /\ w.ino \in Inodes
        /\ w.pos = Len(d)
        /\ \/ Prefix(d) /\ w.wrote = Len(d)
           \/ d = <<>> /\ w.wrote > 0
           \/ Headless(d)

Writing == {"stream", "close", "drop", "rename"}

(* What can be under the final name, and under the .partial one.           *)
FinalInv ==
    names["final"] # None =>
        /\ names["partial"] = None
        /\ \/ data[names["final"]] = ServerFile
           \/ data[names["final"]] = <<>>
           \/ Headless(data[names["final"]])
PartialInv ==
    names["partial"] # None =>
        Prefix(data[names["partial"]]) \/ Headless(data[names["partial"]])

(* A drained sink is forgotten; one that is not waits alone, with no call  *)
(* under way and no final file.                                            *)
OrphanInv(c) ==
    /\ \A o \in orphans : Honest(o, data)
    /\ \A o, w \in orphans : o = w
    /\ orphans # {} => pc[c] \in {"idle", "retry"} /\ names["final"] = None

(* The call of caller c, from its request to its rename.                   *)
CallInv(c) ==
    /\ pc[c] \in {"request", "response"} \cup Writing => names["final"] = None
    /\ pc[c] = "purge" /\ names["final"] # None =>
           data[names["final"]] = <<>> \/ Headless(data[names["final"]])
    /\ pc[c] = "response" /\ names["partial"] # None =>
           ranged[c] /\ existing[c] = Len(data[names["partial"]])
    /\ pc[c] \in {"check", "purge", "request", "response", "stream"} =>
           ~cancelled[c]
SinkInv(c) ==
    /\ pc[c] \in Writing =>
           /\ Honest(sink[c], data)
           /\ names["partial"] \in {None, sink[c].ino}
    /\ pc[c] \notin Writing => ~Pending(sink[c])
    /\ pc[c] = "close" /\ ~cancelled[c] => sink[c].recv = FileSize
    /\ pc[c] = "rename" => sink[c].wrote = FileSize

ExactInv(c) ==
    FinalInv /\ PartialInv /\ OrphanInv(c) /\ CallInv(c) /\ SinkInv(c)

(* What a prefix of the server's file has to do with its length, its head  *)
(* and the chunk that comes next.                                          *)
LEMMA PrefixFacts ==
    /\ Prefix(<<>>) /\ Len(<<>>) = 0
    /\ \A d \in Seq(0..FileSize) : Prefix(d) /\ Len(d) = FileSize => d = ServerFile
    /\ Len(ServerFile) = FileSize /\ ServerFile[1] = 1
  <1>1. Prefix(<<>>) /\ Len(<<>>) = 0
    BY DEF Prefix
  <1>2. ServerFile \in Seq(0..FileSize) /\ Len(ServerFile) = FileSize
    BY SizeAssumption DEF ServerFile
  <1>3. ASSUME NEW d \in Seq(0..FileSize), Prefix(d), Len(d) = FileSize
        PROVE  d = ServerFile
    <2>1. \A k \in 1..Len(d) : d[k] = ServerFile[k]
      BY <1>3 DEF Prefix, ServerFile
    <2> QED BY <1>2, <1>3, <2>1, SeqEqual
  <1> QED BY <1>1, <1>2, <1>3, SizeAssumption DEF ServerFile

(* A write of an honest sink leaves it honest, and its file a prefix of    *)
(* the server's or headless.                                               *)
LEMMA HonestWrite ==
    ASSUME TypeOK, NEW w \in Sinks, Honest(w, data), Pending(w)
    PROVE  /\ Honest(Written(w), DiskAfter(w))
           /\ \A i \in Inodes \ {w.ino} : DiskAfter(w)[i] = data[i]
           /\ \/ Prefix(DiskAfter(w)[w.ino])
              \/ Headless(DiskAfter(w)[w.ino])
           /\ Written(w).ino = w.ino
           /\ Written(w).recv = w.recv
           /\ Written(w).wrote = w.wrote + 1
  <1> DEFINE d == data[w.ino]
             e == Append(d, w.wrote + 1)
  <1>1. /\ w.ino \in Inodes /\ w.pos = Len(d) /\ d \in Seq(0..FileSize)
        /\ w.wrote \in Nat /\ w.wrote + 1 \in 0..FileSize
    BY SizeAssumption DEF Honest, TypeOK, Sinks, Pending
  <1>2. DiskAfter(w) = [data EXCEPT ![w.ino] = e]
    BY <1>1 DEF DiskAfter, WriteAt
  <1>3. /\ DiskAfter(w)[w.ino] = e
        /\ \A i \in Inodes \ {w.ino} : DiskAfter(w)[i] = data[i]
    BY <1>1, <1>2 DEF TypeOK
  <1>4. /\ Len(e) = Len(d) + 1
        /\ \A k \in 1..Len(d) : e[k] = d[k]
        /\ e[Len(d) + 1] = w.wrote + 1
        /\ e # <<>>
    BY <1>1
  <1>5. /\ Written(w).ino = w.ino
        /\ Written(w).recv = w.recv
        /\ Written(w).wrote = w.wrote + 1
        /\ Written(w).pos = w.pos + 1
    BY DEF Written, Sinks
  <1>6. \/ Prefix(e) /\ w.wrote + 1 = Len(e)
        \/ Headless(e)
    <2> HIDE DEF e
    <2>1. CASE Prefix(d) /\ w.wrote = Len(d)
      BY <1>1, <1>4, <2>1 DEF Prefix
    <2>2. CASE d = <<>> /\ w.wrote > 0
      BY <1>1, <1>4, <2>2 DEF Headless
    <2>3. CASE Headless(d)
      <3>1. 1 \in 1..Len(d)
        BY <1>1, <2>3, EmptySeq DEF Headless
      <3> QED BY <1>4, <2>3, <3>1 DEF Headless
    <2> QED BY <2>1, <2>2, <2>3 DEF Honest
  <1> HIDE DEF d, e
  <1> QED BY <1>1, <1>3, <1>4, <1>5, <1>6 DEF Honest

(* The steps of a call, and of its environment, keep the invariant.        *)
LEMMA ExactStep ==
    ASSUME NEW c, Callers = {c}, DrainFirst,
           TypeOK, ExactInv(c), [Next]_vars
    PROVE  ExactInv(c)'
  <1> c \in Callers
    OBVIOUS
  <1>1. CASE Start(c) \/ Retry(c)
    BY <1>1 DEF Start, Retry, BeginCall, Settled, Goto, disk, app,
                ExactInv, FinalInv, PartialInv, OrphanInv, CallInv, SinkInv,
                Writing, TypeOK, PCs
  <1>2. CASE CheckFinal(c)
    <2>1. CASE IsValidLocalModel
      <3>1. ReturnTrue(c)
        BY <1>2, <2>1 DEF CheckFinal
      <3> QED BY <1>2, <3>1
              DEF CheckFinal, ReturnTrue, Goto, disk, ExactInv, FinalInv,
                  PartialInv, OrphanInv, CallInv, SinkInv, Writing, TypeOK,
                  PCs, NoSink, Pending
    <2>2. CASE ~IsValidLocalModel
      <3>1. /\ pc' = [pc EXCEPT ![c] =
                        IF names["final"] # None THEN "purge" ELSE "request"]
            /\ UNCHANGED sink
        BY <1>2, <2>2 DEF CheckFinal, Goto, Exists
      <3>2. names["final"] # None =>
              \/ data[names["final"]] = <<>> \/ Headless(data[names["final"]])
        BY <2>2, PrefixFacts, SizeAssumption
           DEF IsValidLocalModel, Exists, ExactInv, FinalInv
      <3> QED BY <1>2, <3>1, <3>2
              DEF CheckFinal, disk, ExactInv, FinalInv, PartialInv, OrphanInv,
                  CallInv, SinkInv, Writing, TypeOK, PCs
    <2> QED BY <2>1, <2>2
  <1>3. CASE PurgeFinal(c)
    BY <1>3 DEF PurgeFinal, Goto, app,
                ExactInv, FinalInv, PartialInv, OrphanInv, CallInv, SinkInv,
                Writing, TypeOK, PCs
  <1>4. CASE SendRequest(c)
    <2>1. CASE Throw(c)
      <3>1. /\ pc'[c] \in {"idle", "retry"}
            /\ sink'[c] = NoSink
            /\ orphans' = orphans
        BY <1>4, <2>1 DEF SendRequest, Throw, ReturnFalse, Goto, TypeOK,
                          ExactInv, SinkInv, Writing
      <3> QED BY <1>4, <3>1
              DEF SendRequest, ExactInv, FinalInv, PartialInv, OrphanInv,
                  CallInv, SinkInv, Writing, NoSink, Pending
    <2>2. CASE ~Throw(c)
      <3>1. /\ pc'[c] = "response"
            /\ names["partial"] # None =>
                  ranged'[c] /\ existing'[c] = Len(data[names["partial"]])
            /\ UNCHANGED <<sink, orphans, names, data, cancelled>>
        BY <1>4, <2>2 DEF SendRequest, Goto, TypeOK, Exists
      <3> QED BY <1>4, <3>1
              DEF SendRequest, ExactInv, FinalInv, PartialInv, OrphanInv,
                  CallInv, SinkInv, Writing
    <2> QED BY <2>1, <2>2
  <1>5. CASE GetResponse(c)
    <2>0. /\ pc[c] = "response" /\ names["final"] = None /\ orphans = {}
          /\ UNCHANGED cancelled /\ ~cancelled[c]
      BY <1>5 DEF GetResponse, ExactInv, OrphanInv, CallInv
    <2>1. CASE Resume(c) \/ StartOver(c)
      <3>1. PICK i \in Inodes :
               /\ names' = [names EXCEPT !["partial"] = i]
               /\ sink'[c].ino = i
               /\ Honest(sink'[c], data')
               /\ Prefix(data'[i]) \/ Headless(data'[i])
        <4>1. CASE Resume(c) /\ names["partial"] # None /\ existing[c] > 0
          <5>1. /\ names["partial"] \in Inodes
                /\ existing[c] = Len(data[names["partial"]])
            BY <2>0, <4>1 DEF TypeOK, ExactInv, CallInv
          <5>2. /\ names' = [names EXCEPT !["partial"] = names["partial"]]
                /\ data' = data
                /\ sink'[c] = [ino |-> names["partial"],
                               pos |-> Len(data[names["partial"]]),
                               wrote |-> existing[c], recv |-> existing[c]]
            BY <4>1, <5>1 DEF Resume, Exists, OpenSink, TypeOK
          <5>3. /\ sink'[c].ino = names["partial"]
                /\ Honest(sink'[c], data')
                /\ \/ Prefix(data'[names["partial"]])
                   \/ Headless(data'[names["partial"]])
            BY <4>1, <5>1, <5>2 DEF Honest, ExactInv, PartialInv
          <5> QED BY <5>1, <5>2, <5>3
        <4>2. CASE Resume(c) /\ names["partial"] # None /\ ~(existing[c] > 0)
          <5>1. names["partial"] \in Inodes /\ existing[c] = 0
            BY <4>2 DEF TypeOK
          <5>2. /\ names' = [names EXCEPT !["partial"] = names["partial"]]
                /\ data'[names["partial"]] = <<>>
                /\ sink'[c] = [ino |-> names["partial"], pos |-> 0,
                               wrote |-> 0, recv |-> 0]
            BY <4>2, <5>1 DEF Resume, Exists, OpenSink, TypeOK
          <5>3. /\ sink'[c].ino = names["partial"]
                /\ Honest(sink'[c], data')
                /\ Prefix(data'[names["partial"]])
            BY <5>1, <5>2, PrefixFacts DEF Honest
          <5> QED BY <5>1, <5>2, <5>3
        <4>3. CASE Resume(c) /\ names["partial"] = None
          <5>1. FreeInode \in Inodes /\ existing[c] \in Nat
            BY <4>3, FreeInodeIsFree DEF Resume, Exists, TypeOK
          <5>2. /\ names' = [names EXCEPT !["partial"] = FreeInode]
                /\ data'[FreeInode] = <<>>
                /\ sink'[c] = [ino |-> FreeInode, pos |-> 0,
                               wrote |-> existing[c], recv |-> existing[c]]
            BY <4>3, <5>1 DEF Resume, Exists, OpenSink, TypeOK
          <5>3. /\ sink'[c].ino = FreeInode
                /\ Honest(sink'[c], data')
                /\ Prefix(data'[FreeInode])
            BY <5>1, <5>2, PrefixFacts DEF Honest
          <5> QED BY <5>1, <5>2, <5>3
        <4>4. CASE StartOver(c)
          <5>1. FreeInode \in Inodes
            BY <4>4, FreeInodeIsFree DEF StartOver
          <5>2. /\ names' = [names EXCEPT !["partial"] = FreeInode]
                /\ data'[FreeInode] = <<>>
                /\ sink'[c] = [ino |-> FreeInode, pos |-> 0,
                               wrote |-> 0, recv |-> 0]
            BY <4>4, <5>1 DEF StartOver, OpenSink, TypeOK
          <5>3. /\ sink'[c].ino = FreeInode
                /\ Honest(sink'[c], data')
                /\ Prefix(data'[FreeInode])
            BY <5>1, <5>2, PrefixFacts DEF Honest
          <5> QED BY <5>1, <5>2, <5>3
        <4> QED BY <2>1, <4>1, <4>2, <4>3, <4>4
      <3>2. /\ pc'[c] = "stream" /\ UNCHANGED orphans
            /\ names'["final"] = None /\ names'["partial"] = i
        BY <2>0, <2>1, <3>1 DEF Resume, StartOver, Goto, TypeOK
      <3> QED BY <2>0, <3>1, <3>2
              DEF ExactInv, FinalInv, PartialInv, OrphanInv, CallInv, SinkInv,
                  Writing
    <2>2. CASE Refused(c)
      <3>1. /\ pc'[c] \in {"idle", "retry"}
            /\ sink'[c] = NoSink
            /\ UNCHANGED <<orphans, names, data>>
        BY <2>0, <2>2 DEF Refused, Throw, ReturnFalse, Goto, TypeOK,
                          ExactInv, SinkInv, Writing
      <3> QED BY <2>0, <3>1
              DEF ExactInv, FinalInv, PartialInv, OrphanInv, CallInv, SinkInv,
                  Writing, NoSink, Pending
    <2> QED BY <1>5, <2>1, <2>2 DEF GetResponse
  <1>6. CASE ReceiveChunk(c)
    <2>1. /\ pc[c] = "stream" /\ UNCHANGED <<names, data, orphans>>
          /\ Honest(sink[c], data)
      BY <1>6 DEF ReceiveChunk, disk, ExactInv, SinkInv, Writing
    <2>2. CASE cancelFlag
      BY <1>6, <2>1, <2>2
         DEF ReceiveChunk, Goto, ExactInv, FinalInv, PartialInv, OrphanInv,
             CallInv, SinkInv, Writing, TypeOK
    <2>3. CASE ~cancelFlag
      <3>1. /\ UNCHANGED <<pc, cancelled>>
            /\ sink'[c] = [sink[c] EXCEPT !.recv = @ + 1]
        BY <1>6, <2>3 DEF ReceiveChunk, TypeOK
      <3>2. /\ sink'[c].ino = sink[c].ino /\ sink'[c].pos = sink[c].pos
            /\ sink'[c].wrote = sink[c].wrote
        BY <3>1 DEF TypeOK, Sinks
      <3>3. Honest(sink'[c], data)
        BY <2>1, <3>2 DEF Honest
      <3> QED BY <2>1, <3>1, <3>2, <3>3
              DEF ExactInv, FinalInv, PartialInv, OrphanInv, CallInv, SinkInv,
                  Writing
    <2> QED BY <2>2, <2>3
  <1>7. CASE StreamEnds(c)
    BY <1>7 DEF StreamEnds, Goto, disk, app,
                ExactInv, FinalInv, PartialInv, OrphanInv, CallInv, SinkInv,
                Writing, TypeOK, PCs
  <1>8. CASE StreamFails(c)
    <2>1. /\ pc[c] = "stream" /\ UNCHANGED <<names, data, cancelled>>
          /\ pc'[c] \in {"idle", "retry"} /\ sink'[c] = NoSink
          /\ orphans' = orphans \cup (IF Pending(sink[c]) THEN {sink[c]} ELSE {})
      BY <1>8 DEF StreamFails, Throw, ReturnFalse, Goto, TypeOK
    <2> QED BY <2>1
            DEF ExactInv, FinalInv, PartialInv, OrphanInv, CallInv, SinkInv,
                Writing, NoSink, Pending
  <1>9. CASE WriteBack(c)
    <2>1. /\ pc[c] \in Writing /\ Honest(sink[c], data) /\ Pending(sink[c])
          /\ sink[c] \in Sinks
      BY <1>9 DEF WriteBack, ExactInv, SinkInv, TypeOK
    <2>2. /\ names["final"] = None /\ orphans = {}
          /\ pc[c] # "rename"
      BY <2>1, SizeAssumption
         DEF ExactInv, OrphanInv, CallInv, SinkInv, Writing, Pending, Sinks
    <2>3. /\ data' = DiskAfter(sink[c]) /\ sink'[c] = Written(sink[c])
          /\ UNCHANGED <<names, pc, orphans, cancelled, ranged, existing>>
      BY <1>9 DEF WriteBack, TypeOK, app
    <2>4. /\ Honest(sink'[c], data')
          /\ sink'[c].ino = sink[c].ino /\ sink'[c].recv = sink[c].recv
          /\ Prefix(data'[sink[c].ino]) \/ Headless(data'[sink[c].ino])
      BY <2>1, <2>3, HonestWrite
    <2> QED BY <2>1, <2>2, <2>3, <2>4
            DEF ExactInv, FinalInv, PartialInv, OrphanInv, CallInv, SinkInv,
                Writing
  <1>10. ASSUME NEW o \in orphans, OrphanWrites(o)
         PROVE  ExactInv(c)'
    <2>1. /\ Honest(o, data) /\ Pending(o) /\ o \in Sinks
          /\ names["final"] = None /\ pc[c] \in {"idle", "retry"}
          /\ orphans = {o}
      BY <1>10 DEF OrphanWrites, ExactInv, OrphanInv, TypeOK
    <2>2. /\ data' = DiskAfter(o)
          /\ orphans' \subseteq {Written(o)}
          /\ UNCHANGED <<names, pc, sink, cancelled>>
      BY <1>10, <2>1 DEF OrphanWrites, call
    <2>3. /\ Honest(Written(o), data')
          /\ Prefix(data'[o.ino]) \/ Headless(data'[o.ino])
          /\ \A i \in Inodes \ {o.ino} : data'[i] = data[i]
      BY <2>1, <2>2, HonestWrite
    <2>4. PartialInv'
      BY <2>2, <2>3 DEF ExactInv, PartialInv, TypeOK
    <2> QED BY <2>1, <2>2, <2>3, <2>4
            DEF ExactInv, FinalInv, OrphanInv, CallInv, SinkInv, Writing
  <1>11. CASE CloseSink(c)
    BY <1>11 DEF CloseSink, Goto, disk, app,
                ExactInv, FinalInv, PartialInv, OrphanInv, CallInv, SinkInv,
                Writing, TypeOK, PCs, Pending, Sinks
  <1>12. CASE DropPartial(c)
    BY <1>12 DEF DropPartial, Goto,
                ExactInv, FinalInv, PartialInv, OrphanInv, CallInv, SinkInv,
                Writing, TypeOK, PCs, NoSink, Pending
  <1>13. CASE RenamePartial(c)
    <2>1. /\ pc[c] = "rename" /\ names["final"] = None /\ orphans = {}
          /\ Honest(sink[c], data) /\ sink[c].wrote = FileSize
          /\ names["partial"] \in {None, sink[c].ino}
          /\ ~Pending(sink[c])
          /\ UNCHANGED <<data, cancelled>>
      BY <1>13, SizeAssumption
         DEF RenamePartial, ExactInv, OrphanInv, CallInv, SinkInv, Writing,
             Pending, Sinks, TypeOK
    <2>2. CASE names["partial"] # None
      <3>1. /\ names'["final"] = sink[c].ino /\ names'["partial"] = None
            /\ pc'[c] = "validate" /\ UNCHANGED <<sink, orphans>>
        BY <1>13, <2>1, <2>2 DEF RenamePartial, Exists, Goto, TypeOK
      <3>2. /\ sink[c].ino \in Inodes
            /\ \/ data[sink[c].ino] = ServerFile
               \/ data[sink[c].ino] = <<>>
               \/ Headless(data[sink[c].ino])
        BY <2>1, PrefixFacts DEF Honest, TypeOK
      <3> QED BY <2>1, <3>1, <3>2
              DEF ExactInv, FinalInv, PartialInv, OrphanInv, CallInv, SinkInv,
                  Writing
    <2>3. CASE names["partial"] = None
      <3>1. /\ pc'[c] \in {"idle", "retry"} /\ sink'[c] = NoSink
            /\ UNCHANGED <<names, orphans>>
        BY <1>13, <2>1, <2>3
           DEF RenamePartial, Exists, Throw, ReturnFalse, Goto, TypeOK
      <3> QED BY <2>1, <3>1
              DEF ExactInv, FinalInv, PartialInv, OrphanInv, CallInv, SinkInv,
                  Writing, NoSink, Pending
    <2> QED BY <2>2, <2>3
  <1>14. CASE Validate(c)
    <2>1. /\ pc[c] = "validate" /\ UNCHANGED <<data, orphans, cancelled>>
          /\ pc'[c] \in {"idle", "retry"} /\ sink'[c] = NoSink
          /\ names' = names \/ names' = [names EXCEPT !["final"] = None]
      BY <1>14 DEF Validate, ReturnTrue, ReturnFalse, Goto, TypeOK
    <2>2. /\ names'["final"] \in {None, names["final"]}
          /\ names'["partial"] = names["partial"]
      BY <2>1 DEF TypeOK
    <2> QED BY <2>1, <2>2
            DEF ExactInv, FinalInv, PartialInv, OrphanInv, CallInv, SinkInv,
                Writing, NoSink, Pending
  <1>15. CASE CancelDownload \/ DeleteModel
    BY <1>15 DEF CancelDownload, DeleteModel, disk, call,
                ExactInv, FinalInv, PartialInv, OrphanInv, CallInv, SinkInv
  <1>16. CASE DeleteFile
    BY <1>16 DEF DeleteFile, call, ExactInv, FinalInv, PartialInv, OrphanInv,
                 CallInv, SinkInv, TypeOK
  <1>17. CASE Crash
    BY <1>17 DEF Crash, disk, ExactInv, FinalInv, PartialInv, OrphanInv,
                 CallInv, SinkInv, Writing, NoSink, Pending
  <1>18. CASE Restart
    BY <1>18 DEF Restart, call, ExactInv, FinalInv, PartialInv, OrphanInv,
                 CallInv, SinkInv
  <1>19. CASE UNCHANGED vars
    BY <1>19 DEF vars, disk, call, app, ExactInv, FinalInv, PartialInv,
                 OrphanInv, CallInv, SinkInv
  <1> QED
    BY <1>1, <1>2, <1>3, <1>4, <1>5, <1>6, <1>7, <1>8, <1>9, <1>10, <1>11,
       <1>12, <1>13, <1>14, <1>15, <1>16, <1>17, <1>18, <1>19 DEF Next, Step

(* With one caller, whose retries wait for the sink of the failed call, a  *)
(* file that isValidLocalModel() accepts is the file of the server: for    *)
(* every file size and size gate, and any number of faults, cancels,       *)
(* deletes, crashes and retries.                                           *)
THEOREM AcceptedIsExact ==
    ASSUME NEW c, Callers = {c}, DrainFirst
    PROVE  Spec => []AcceptedFileIsExact
  <1>1. Init => ExactInv(c)
    BY DEF Init, ExactInv, FinalInv, PartialInv, OrphanInv, CallInv, SinkInv,
           Writing, NoSink, Pending
  <1>2. TypeOK /\ ExactInv(c) => AcceptedFileIsExact
    BY SizeAssumption
       DEF ExactInv, FinalInv, Headless, AcceptedFileIsExact,
           IsValidLocalModel, Exists
  <1>3. TypeOK /\ ExactInv(c) /\ [Next]_vars => ExactInv(c)'
    BY ExactStep
  <1> QED BY <1>1, <1>2, <1>3, TypeCorrect, PTL DEF Spec

(* Under the same conditions an accepted model is lost through             *)
(* deleteModel() only.                                                     *)
THEOREM AcceptedStays ==
    ASSUME NEW c, Callers = {c}, DrainFirst
    PROVE  Spec => AcceptedModelStays
  <1> c \in Callers
    OBVIOUS
  <1>1. Init => ExactInv(c)
    BY DEF Init, ExactInv, FinalInv, PartialInv, OrphanInv, CallInv, SinkInv,
           Writing, NoSink, Pending
  <1>2. ASSUME TypeOK, ExactInv(c), [Next]_vars, IsValidLocalModel,
               deleting = "no"
        PROVE  IsValidLocalModel'
    <2>1. /\ names["final"] \in Inodes /\ names["partial"] = None
          /\ data[names["final"]] = ServerFile
          /\ orphans = {}
          /\ pc[c] \notin {"purge", "request", "response"} \cup Writing
      BY <1>2, SizeAssumption, PrefixFacts
         DEF IsValidLocalModel, Exists, TypeOK, ExactInv, FinalInv, OrphanInv,
             CallInv, Headless
    <2>2. UNCHANGED <<names, data>>
      BY <1>2, <2>1
         DEF Next, Step, Start, Retry, BeginCall, CheckFinal, PurgeFinal,
             SendRequest, GetResponse, ReceiveChunk, StreamEnds, StreamFails,
             WriteBack, CloseSink, DropPartial, RenamePartial, Validate,
             CancelDownload, DeleteModel, DeleteFile, Crash, Restart, Writing,
             ExactInv, SinkInv, disk, vars
    <2> QED BY <1>2, <2>2 DEF IsValidLocalModel, Exists
  <1>3. TypeOK /\ ExactInv(c) /\ [Next]_vars => ExactInv(c)'
    BY ExactStep
  <1>4. TypeOK /\ ExactInv(c) /\ [Next]_vars =>
          [IsValidLocalModel => IsValidLocalModel' \/ deleting # "no"]_vars
    BY <1>2
  <1> QED BY <1>1, <1>3, <1>4, TypeCorrect, PTL DEF Spec, AcceptedModelStays

=============================================================================
