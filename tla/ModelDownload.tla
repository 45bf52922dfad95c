--------------------------- MODULE ModelDownload ---------------------------
(***************************************************************************)
(* OculaModelManager.download() for one model file: the resumable HTTP     *)
(* download of `<file>.gguf` through `<file>.gguf.partial`, the loops that *)
(* call it, cancelDownload(), deleteModel() and the death and restart of   *)
(* the app.                                                                *)
(*                                                                         *)
(* One action is one stretch of Dart code between two awaits.  Nothing in  *)
(* the code keeps two calls for the same file apart, so a call belongs to  *)
(* a caller (splash screen, home banner, settings page, vision query), and *)
(* the callers interleave.                                                 *)
(*                                                                         *)
(* A file is the sequence of the server's chunks found in it: the intact   *)
(* file is <<1, ..., FileSize>>, and a 0 is a hole.  Names map to inodes,  *)
(* because an open sink keeps writing to its inode after a rename or a     *)
(* delete.  A sink has its own file position: dart:io opens an append sink *)
(* by seeking once to the end of the file, not with O_APPEND.              *)
(***************************************************************************)
EXTENDS Naturals, Sequences, FiniteSets

CONSTANTS
    Callers,        \* the code that calls download() for this file
    Attempts,       \* Attempts[c]: how often the loop of caller c calls it
    Publishers,     \* the callers that publish progress and announce tiers
    Inodes,         \* the files the disk can hold
    None,           \* no file
    FileSize,       \* chunks of the file on the server
    MinChunks,      \* the least number of chunks that passes the 95 % gate
    MaxLag,         \* chunks a sink holds before they reach the disk
    HonoursRange,   \* the server answers a Range request with 206
    DrainFirst,     \* a retry comes after the sink of the failed call drained
    MaxFaults,      \* bound: connection failures
    MaxCancels,     \* bound: calls of cancelDownload()
    MaxDeletes,     \* bound: calls of deleteModel()
    MaxCrashes      \* bound: deaths of the app process

ASSUME CallersAssumption ==
    /\ Callers # {}
    /\ Attempts \in [Callers -> Nat \ {0}]
    /\ Publishers \subseteq Callers
ASSUME DiskAssumption == None \notin Inodes
ASSUME SizeAssumption ==
    /\ FileSize \in Nat \ {0}
    /\ MinChunks \in 1..FileSize
    /\ MaxLag \in Nat \ {0}
ASSUME EnvironmentAssumption ==
    /\ HonoursRange \in BOOLEAN
    /\ DrainFirst \in BOOLEAN
    /\ MaxFaults \in Nat
    /\ MaxCancels \in Nat
    /\ MaxDeletes \in Nat
    /\ MaxCrashes \in Nat

VARIABLES
    names,          \* the two directory entries, final and partial
    data,           \* the content of each inode
    downloading,    \* the preference downloading_<file>
    up,             \* the app process is alive and past its splash screen
    cancelFlag,     \* <file> \in _cancelledDownloads
    progress,       \* <file> has an entry in _downloadProgress
    announced,      \* tierReadyStream has announced the model
    pc,             \* where the call of each caller is
    attempt,        \* the attempt its loop is in
    ranged,         \* its request carries a Range header
    existing,       \* existingBytes of its call
    cancelled,      \* the local variable of the same name
    sink,           \* the sink its call writes through
    orphans,        \* sinks a failed call left open with chunks to write
    deleting,       \* where deleteModel() is
    faults, cancels, deletes, crashes   \* what has happened of the bounds

disk == <<names, data, downloading>>
call == <<pc, attempt, ranged, existing, cancelled, sink>>
app  == <<up, cancelFlag, progress, announced, orphans, deleting>>
env  == <<faults, cancels, deletes, crashes>>
vars == <<disk, call, app, env>>

PCs == {"idle", "check", "purge", "request", "response", "stream", "close",
        "drop", "rename", "validate", "retry"}

ServerFile == [i \in 1..FileSize |-> i]

(* A sink writes the server's chunks in order: chunk wrote + 1 goes to     *)
(* offset pos + 1; the chunks up to recv have been handed to it.           *)
Sinks  == [ino: Inodes \cup {None}, pos: Nat,
           wrote: 0..FileSize, recv: 0..FileSize]
NoSink == [ino |-> None, pos |-> 0, wrote |-> 0, recv |-> 0]

(* The values of the variables; a sink never gets ahead of the stream.     *)
TypeOK ==
    /\ names \in [{"final", "partial"} -> Inodes \cup {None}]
    /\ data \in [Inodes -> Seq(0..FileSize)]
    /\ downloading \in BOOLEAN
    /\ up \in BOOLEAN
    /\ cancelFlag \in BOOLEAN
    /\ progress \in BOOLEAN
    /\ announced \in BOOLEAN
    /\ pc \in [Callers -> PCs]
    /\ attempt \in [Callers -> Nat]
    /\ ranged \in [Callers -> BOOLEAN]
    /\ existing \in [Callers -> Nat]
    /\ cancelled \in [Callers -> BOOLEAN]
    /\ sink \in [Callers -> Sinks]
    /\ orphans \in SUBSET Sinks
    /\ deleting \in {"no", "final", "partial"}
    /\ faults \in Nat
    /\ cancels \in Nat
    /\ deletes \in Nat
    /\ crashes \in Nat

(***************************************************************************)
(* The file system.                                                        *)
(***************************************************************************)

Exists(n) == names[n] # None

Used == {names["final"], names["partial"]}
            \cup {sink[c].ino : c \in Callers}
            \cup {o.ino : o \in orphans}

Room == \E i \in Inodes : i \notin Used
FreeInode == CHOOSE i \in Inodes : i \notin Used

(* Chunk k written at offset p: past the end, the gap is a hole.           *)
WriteAt(s, p, k) ==
    IF p = Len(s) + 1 THEN Append(s, k)
    ELSE IF p <= Len(s) THEN [s EXCEPT ![p] = k]
    ELSE [i \in 1..p |-> IF i <= Len(s) THEN s[i]
                         ELSE IF i < p THEN 0 ELSE k]

(* One pending chunk of sink s reaches the disk.                           *)
Written(s) == [s EXCEPT !.pos = s.pos + 1, !.wrote = s.wrote + 1]
DiskAfter(s) == [data EXCEPT ![s.ino] = WriteAt(@, s.pos + 1, s.wrote + 1)]
MutantPendingOffByOne(s) == s.wrote <= s.recv
Pending(s) == s.wrote < s.recv

(* Mutant: the GGUF magic is not looked at.                                *)
MutantNoMagicCheck ==
    /\ Exists("final")
    /\ ~Exists("partial")
    /\ Len(data[names["final"]]) >= MinChunks

(* isValidLocalModel(): no .partial sibling, the size gate and the GGUF    *)
(* magic, which is in the first chunk.                                     *)
IsValidLocalModel ==
    /\ Exists("final")
    /\ ~Exists("partial")
    /\ Len(data[names["final"]]) >= MinChunks
    /\ data[names["final"]][1] = 1

(***************************************************************************)
(* The initial state: a fresh install.                                     *)
(***************************************************************************)

Init ==
    /\ names = [n \in {"final", "partial"} |-> None]
    /\ data = [i \in Inodes |-> <<>>]
    /\ downloading = FALSE
    /\ up = TRUE
    /\ cancelFlag = FALSE
    /\ progress = FALSE
    /\ announced = FALSE
    /\ pc = [c \in Callers |-> "idle"]
    /\ attempt = [c \in Callers |-> 0]
    /\ ranged = [c \in Callers |-> FALSE]
    /\ existing = [c \in Callers |-> 0]
    /\ cancelled = [c \in Callers |-> FALSE]
    /\ sink = [c \in Callers |-> NoSink]
    /\ orphans = {}
    /\ deleting = "no"
    /\ faults = 0
    /\ cancels = 0
    /\ deletes = 0
    /\ crashes = 0

Goto(c, l) == pc' = [pc EXCEPT ![c] = l]
AtWork(c) == pc[c] # "idle"

(* onProgress() of the loops that show the download in the home banner.    *)
Publish(c, entry) == progress' = IF c \in Publishers THEN entry ELSE progress

(***************************************************************************)
(* How a call ends.  The loop of its caller takes over: it tries again     *)
(* after a delay, with the error in the progress entry meanwhile, or gives *)
(* up and clears the entry, or announces the model.                        *)
(***************************************************************************)

ReturnFalse(c) ==
    /\ IF attempt[c] < Attempts[c]
       THEN Goto(c, "retry") /\ Publish(c, TRUE)
       ELSE Goto(c, "idle") /\ Publish(c, FALSE)
    /\ sink' = [sink EXCEPT ![c] = NoSink]

ReturnTrue(c) ==
    /\ Goto(c, "idle")
    /\ Publish(c, FALSE)
    /\ announced' = (announced \/ c \in Publishers)
    /\ sink' = [sink EXCEPT ![c] = NoSink]

(* Mutant: the catch block forgets the preference.                         *)
MutantThrowKeepsFlag(c) ==
    /\ UNCHANGED downloading
    /\ orphans' = orphans \cup (IF Pending(sink[c]) THEN {sink[c]} ELSE {})
    /\ ReturnFalse(c)

(* The catch block: the flag is cleared, the .partial file stays, and so   *)
(* does the open sink with the chunks it has yet to write.                 *)
Throw(c) ==
    /\ downloading' = FALSE
    /\ orphans' = orphans \cup (IF Pending(sink[c]) THEN {sink[c]} ELSE {})
    /\ ReturnFalse(c)

Fault == faults < MaxFaults /\ faults' = faults + 1

(***************************************************************************)
(* download(), from await to await.                                        *)
(***************************************************************************)

Settled == DrainFirst => orphans = {}

(* Mutant: the loop does not count its attempts.                           *)
MutantUncountedCall(c, n) ==
    /\ up
    /\ Settled
    /\ Goto(c, "check")
    /\ attempt' = [attempt EXCEPT ![c] = 1]
    /\ cancelled' = [cancelled EXCEPT ![c] = FALSE]
    /\ UNCHANGED <<disk, ranged, existing, sink, app, env>>

BeginCall(c, n) ==
    /\ up
    /\ Settled
    /\ Goto(c, "check")
    /\ attempt' = [attempt EXCEPT ![c] = n]
    /\ cancelled' = [cancelled EXCEPT ![c] = FALSE]
    /\ UNCHANGED <<disk, ranged, existing, sink, app, env>>

Start(c) ==
    /\ pc[c] = "idle"
    /\ BeginCall(c, 1)

Retry(c) ==
    /\ pc[c] = "retry"
    /\ BeginCall(c, attempt[c] + 1)

(* Mutant: a file that is there is never kept.                             *)
MutantAlwaysPurge(c) ==
    /\ pc[c] = "check"
    /\ Goto(c, IF Exists("final") THEN "purge" ELSE "request")
    /\ UNCHANGED <<disk, attempt, ranged, existing, cancelled, sink,
                   app, env>>

CheckFinal(c) ==
    /\ pc[c] = "check"
    /\ IF IsValidLocalModel
       THEN ReturnTrue(c)
       ELSE /\ Goto(c, IF Exists("final") THEN "purge" ELSE "request")
            /\ UNCHANGED <<sink, progress, announced>>
    /\ UNCHANGED <<disk, attempt, ranged, existing, cancelled,
                   up, cancelFlag, orphans, deleting, env>>

PurgeFinal(c) ==
    /\ pc[c] = "purge"
    /\ names' = [names EXCEPT !["final"] = None]
    /\ Goto(c, "request")
    /\ UNCHANGED <<data, downloading, attempt, ranged, existing, cancelled,
                   sink, app, env>>

(* The preference is set, the connection is made, and the length of the    *)
(* .partial file, read now, becomes the Range header.                      *)
SendRequest(c) ==
    /\ pc[c] = "request"
    /\ \/ /\ ranged' = [ranged EXCEPT ![c] = Exists("partial")]
          /\ existing' = [existing EXCEPT ![c] =
                 IF Exists("partial") THEN Len(data[names["partial"]]) ELSE 0]
          /\ downloading' = TRUE
          /\ Publish(c, TRUE)
          /\ Goto(c, "response")
          /\ UNCHANGED <<sink, orphans, faults>>
       \/ /\ Fault
          /\ Throw(c)
          /\ UNCHANGED <<ranged, existing>>
    /\ UNCHANGED <<names, data, attempt, cancelled,
                   up, cancelFlag, announced, deleting,
                   cancels, deletes, crashes>>

OpenSink(c, i, p, k) ==
    sink' = [sink EXCEPT ![c] = [ino |-> i, pos |-> p, wrote |-> k, recv |-> k]]

(* 206: the sink goes on at the end of the .partial file, or of a new one  *)
(* if it has vanished since; with nothing to resume it truncates.          *)
Resume(c) ==
    /\ HonoursRange /\ ranged[c] /\ existing[c] < FileSize
    /\ Exists("partial") \/ Room
    /\ LET i == IF Exists("partial") THEN names["partial"] ELSE FreeInode
           keep == Exists("partial") /\ existing[c] > 0
       IN  /\ names' = [names EXCEPT !["partial"] = i]
           /\ data' = [data EXCEPT ![i] = IF keep THEN @ ELSE <<>>]
           /\ OpenSink(c, i, IF keep THEN Len(data[i]) ELSE 0, existing[c])
    /\ Goto(c, "stream")
    /\ UNCHANGED <<downloading, existing, progress, orphans, faults>>

(* 200: the .partial file is deleted and written anew from the start.      *)
StartOver(c) ==
    /\ ~HonoursRange \/ ~ranged[c]
    /\ Room
    /\ names' = [names EXCEPT !["partial"] = FreeInode]
    /\ data' = [data EXCEPT ![FreeInode] = <<>>]
    /\ existing' = [existing EXCEPT ![c] = 0]
    /\ OpenSink(c, FreeInode, 0, 0)
    /\ Goto(c, "stream")
    /\ UNCHANGED <<downloading, progress, orphans, faults>>

(* Any other status: 416, when there is nothing after the existing bytes,  *)
(* or what a failing server sends.                                         *)
Refused(c) ==
    /\ \/ /\ HonoursRange /\ ranged[c] /\ existing[c] >= FileSize
          /\ UNCHANGED faults
       \/ Fault
    /\ Throw(c)
    /\ UNCHANGED <<names, data, existing>>

GetResponse(c) ==
    /\ pc[c] = "response"
    /\ Resume(c) \/ StartOver(c) \/ Refused(c)
    /\ UNCHANGED <<attempt, ranged, cancelled, up, cancelFlag, announced,
                   deleting, cancels, deletes, crashes>>

(* The body of `await for`: the cancel flag is looked at before a chunk is *)
(* handed to the sink, and only then.                                      *)
ReceiveChunk(c) ==
    /\ pc[c] = "stream"
    /\ sink[c].recv < FileSize
    /\ IF cancelFlag
       THEN /\ cancelled' = [cancelled EXCEPT ![c] = TRUE]
            /\ Goto(c, "close")
            /\ UNCHANGED <<sink, progress>>
       ELSE /\ sink[c].recv - sink[c].wrote < MaxLag
            /\ sink' = [sink EXCEPT ![c].recv = @ + 1]
            /\ Publish(c, TRUE)
            /\ UNCHANGED <<cancelled, pc>>
    /\ UNCHANGED <<disk, attempt, ranged, existing, up, cancelFlag, announced,
                   orphans, deleting, env>>

StreamEnds(c) ==
    /\ pc[c] = "stream"
    /\ sink[c].recv = FileSize
    /\ Goto(c, "close")
    /\ UNCHANGED <<disk, attempt, ranged, existing, cancelled, sink, app, env>>

(* The connection breaks, or no chunk arrives for 90 seconds.              *)
StreamFails(c) ==
    /\ pc[c] = "stream"
    /\ Fault
    /\ Throw(c)
    /\ UNCHANGED <<names, data, attempt, ranged, existing, cancelled, up,
                   cancelFlag, announced, deleting, cancels, deletes, crashes>>

(* A sink writes one of the chunks it was handed.                          *)
WriteBack(c) ==
    /\ Pending(sink[c])
    /\ data' = DiskAfter(sink[c])
    /\ sink' = [sink EXCEPT ![c] = Written(@)]
    /\ UNCHANGED <<names, downloading, pc, attempt, ranged, existing, cancelled, app, env>>

OrphanWrites(o) ==
    /\ Pending(o)
    /\ data' = DiskAfter(o)
    /\ orphans' = (orphans \ {o})
                    \cup (IF Pending(Written(o)) THEN {Written(o)} ELSE {})
    /\ UNCHANGED <<names, downloading, call, up, cancelFlag, progress,
                   announced, deleting, env>>

(* sink.flush() and sink.close() return once everything is written.        *)
CloseSink(c) ==
    /\ pc[c] = "close"
    /\ ~Pending(sink[c])
    /\ Goto(c, IF cancelled[c] THEN "drop" ELSE "rename")
    /\ UNCHANGED <<disk, attempt, ranged, existing, cancelled, sink, app, env>>

DropPartial(c) ==
    /\ pc[c] = "drop"
    /\ cancelFlag' = FALSE
    /\ names' = [names EXCEPT !["partial"] = None]
    /\ downloading' = FALSE
    /\ progress' = FALSE
    /\ Goto(c, IF attempt[c] < Attempts[c] THEN "retry" ELSE "idle")
    /\ sink' = [sink EXCEPT ![c] = NoSink]
    /\ UNCHANGED <<data, attempt, ranged, existing, cancelled, up, announced,
                   orphans, deleting, env>>

RenamePartial(c) ==
    /\ pc[c] = "rename"
    /\ IF Exists("partial")
       THEN /\ names' = [names EXCEPT !["final"] = names["partial"],
                                    !["partial"] = None]
            /\ Goto(c, "validate")
            /\ UNCHANGED <<downloading, progress, sink, orphans>>
       ELSE /\ Throw(c)
            /\ UNCHANGED names
    /\ UNCHANGED <<data, attempt, ranged, existing, cancelled, up, cancelFlag,
                   announced, deleting, env>>

Validate(c) ==
    /\ pc[c] = "validate"
    /\ downloading' = FALSE
    /\ IF IsValidLocalModel
       THEN ReturnTrue(c) /\ UNCHANGED names
       ELSE /\ names' = [names EXCEPT !["final"] = None]
            /\ ReturnFalse(c)
            /\ UNCHANGED announced
    /\ UNCHANGED <<data, attempt, ranged, existing, cancelled, up, cancelFlag,
                   orphans, deleting, env>>

(***************************************************************************)
(* The user: cancelDownload(), and deleteModel() with its two awaits.      *)
(***************************************************************************)

CancelDownload ==
    /\ up
    /\ cancels < MaxCancels
    /\ cancels' = cancels + 1
    /\ cancelFlag' = TRUE
    /\ UNCHANGED <<disk, pc, attempt, ranged, existing, cancelled, sink, up, progress,
                   announced, orphans, deleting, faults, deletes, crashes>>

DeleteModel ==
    /\ up
    /\ deleting = "no"
    /\ deletes < MaxDeletes
    /\ deletes' = deletes + 1
    /\ deleting' = "final"
    /\ UNCHANGED <<disk, call, up, cancelFlag, progress, announced, orphans,
                   faults, cancels, crashes>>

DeleteFile ==
    /\ deleting # "no"
    /\ names' = [names EXCEPT ![deleting] = None]
    /\ deleting' = IF deleting = "final" THEN "partial" ELSE "no"
    /\ UNCHANGED <<data, downloading, call, up, cancelFlag, progress,
                   announced, orphans, env>>

(***************************************************************************)
(* The process dies: the disk and the preference stay, the rest is gone.   *)
(* The splash screen of the next session calls clearStaleDownloadFlags()   *)
(* before any download.                                                    *)
(***************************************************************************)

Crash ==
    /\ up
    /\ crashes < MaxCrashes
    /\ crashes' = crashes + 1
    /\ up' = FALSE
    /\ cancelFlag' = FALSE
    /\ progress' = FALSE
    /\ announced' = FALSE
    /\ pc' = [c \in Callers |-> "idle"]
    /\ attempt' = [c \in Callers |-> 0]
    /\ ranged' = [c \in Callers |-> FALSE]
    /\ existing' = [c \in Callers |-> 0]
    /\ cancelled' = [c \in Callers |-> FALSE]
    /\ sink' = [c \in Callers |-> NoSink]
    /\ orphans' = {}
    /\ deleting' = "no"
    /\ UNCHANGED <<disk, faults, cancels, deletes>>

Restart ==
    /\ ~up
    /\ up' = TRUE
    /\ downloading' = FALSE
    /\ UNCHANGED <<names, data, call, cancelFlag, progress, announced,
                   orphans, deleting, env>>

(***************************************************************************)
(* The specification.                                                      *)
(***************************************************************************)

Step(c) ==
    \/ Retry(c) \/ CheckFinal(c) \/ PurgeFinal(c) \/ SendRequest(c)
    \/ GetResponse(c) \/ ReceiveChunk(c) \/ StreamEnds(c)
    \/ WriteBack(c) \/ CloseSink(c) \/ DropPartial(c) \/ RenamePartial(c)
    \/ Validate(c)

Next ==
    \/ \E c \in Callers : Start(c) \/ Step(c) \/ StreamFails(c)
    \/ \E o \in orphans : OrphanWrites(o)
    \/ CancelDownload
    \/ DeleteModel
    \/ DeleteFile
    \/ Crash
    \/ Restart

Spec == Init /\ [][Next]_vars

(***************************************************************************)
(* Scheduling.  Dart runs what an await was waiting for; a connection that *)
(* makes no progress is broken by its timeouts; the user asks for the      *)
(* model again as long as it is missing.  Nothing makes the connection     *)
(* fail, the user cancel or the process die.                               *)
(***************************************************************************)

FairSpec ==
    /\ Spec
    /\ \A c \in Callers : WF_vars(Start(c)) /\ WF_vars(Step(c))
    /\ WF_vars(\E o \in orphans : OrphanWrites(o))
    /\ WF_vars(DeleteFile)
    /\ WF_vars(Restart)

(***************************************************************************)
(* Properties.                                                             *)
(***************************************************************************)

(* "Post-download GGUF validation - catch corrupt / truncated files before *)
(* signalling ready": a file that isValidLocalModel() accepts is, chunk    *)
(* for chunk, the file of the server, however often its download was       *)
(* interrupted, resumed, cancelled or restarted, and whatever deleteModel  *)
(* did in between.                                                         *)
AcceptedFileIsExact == IsValidLocalModel => data[names["final"]] = ServerFile

(* The preference `downloading_<file>` and the progress entry are all the  *)
(* UI has to tell a download from none: whenever no call is at work, both  *)
(* are cleared, on every way out of download() and after a crash.          *)
NoTraceOfFinishedDownload ==
    (up /\ \A c \in Callers : ~AtWork(c)) => ~downloading /\ ~progress

(* A model once accepted is lost through deleteModel() only: no later call *)
(* of download(), and no sink left open by a failed one, spoils it.        *)
AcceptedModelStays ==
    [][IsValidLocalModel => IsValidLocalModel' \/ deleting # "no"]_vars

(* The loops of the callers end: a download always comes to a result.      *)
EveryLoopEnds == \A c \in Callers : AtWork(c) ~> ~AtWork(c)

(* download(): "Supports resume via Range header if partial file exists".  *)
(* Once the faults are over, a user who keeps asking gets the model.       *)
EventuallyInstalled == <>[]IsValidLocalModel

=============================================================================
