------------------------------ MODULE Indexer ------------------------------
(***************************************************************************)
(* The search index of the app: Indexer.runFullIndex() walks contacts,     *)
(* files, photos, calendar and mail, and RAGEngine.index() writes each     *)
(* item's chunks into the database, beside indexFilePath() for a file that *)
(* the user attaches.                                                      *)
(*                                                                         *)
(* Every await of the two is a step, so that the two interleave, the world *)
(* changes and the process dies between any two statements. An item stands *)
(* for a source id; its content is a version number, and so is its         *)
(* fingerprint (mtime and size of a file, hash of a contact). Left out:    *)
(* vectors, the text of chunks, the knowledge graph, links found in a      *)
(* text, chat turns, the throttle of five minutes, and trimChunks(), which *)
(* acts only above the limit of entries.                                   *)
(***************************************************************************)
EXTENDS Naturals, Sequences, FiniteSets, Functions

CONSTANTS
    Items,      \* what may be indexed
    Kind,       \* the step of a pass that an item belongs to
    Scanned,    \* the items a pass finds when they are there (all but the
                \* attached files outside of the scanned directories)
    Aliased,    \* photos whose library id, used by the pass, is not their
                \* path, used by indexPhoto()
    NChunks,    \* chunks that an item's text is cut into
    Events,     \* what may happen from outside
    MaxEvents   \* bound on how often

Steps == <<"contact", "file", "photo", "calendar", "email">>
Fingerprinted == {"contact", "file"}
Procs == {"pass", "upload"}
None == 0
Versions == 1 .. MaxEvents + 1

ASSUME KindAssumption == Kind \in [Items -> Range(Steps)]
ASSUME PlacesAssumption ==
    /\ Items # {} /\ Scanned \subseteq Items
    /\ \A i \in Items \ Scanned : Kind[i] = "file"
    /\ \A i \in Aliased : i \in Items /\ Kind[i] = "photo"
ASSUME BoundsAssumption == NChunks \in Nat \ {0} /\ MaxEvents \in Nat

VARIABLES
    version,      \* the content of each item, now or when it was last there
    here,         \* the items that are there
    chunks,       \* table rag_chunks: the chunks of each item
    fp,           \* table rag_meta: the fingerprint stored for each item
    links,        \* table asset_links: the items that can be opened
    isRunning,    \* Indexer._isRunning
    initialized,  \* RAGEngine._isInitialized
    step,         \* the step of the pass, an index of Steps
    scan,         \* what the step has listed: item to fingerprint
    rest,         \* the listed items the step has not come to
    pc, job,      \* the await each process is at, and the item it indexes
    spoilt,       \* history: items whose entry was left half done
    events        \* how much has happened from outside

world == <<version, here>>
tables == <<chunks, fp, links>>
flags == <<isRunning, initialized>>
cursor == <<step, scan, rest>>
vars == <<world, tables, flags, cursor, pc, job, spoilt, events>>

Full(v) == [k \in 1 .. NChunks |-> <<v, k>>]
StepItems == {i \in Items : Kind[i] = Steps[step]}

PCs == {"idle", "init", "list", "next", "check", "has", "read", "stat", "getFp",
        "verify", "dedup", "setFp", "delete", "insert", "link",
        "pruneChunks", "pruneLinks", "pruneFps"}

TypeOK ==
    /\ version \in [Items -> Versions] /\ here \subseteq Items
    /\ DOMAIN chunks = Items /\ links \subseteq Items
    /\ \A i \in Items : Range(chunks[i]) \subseteq Versions \X (1 .. NChunks)
    /\ fp \in [Items -> Versions \cup {None}]
    /\ isRunning \in BOOLEAN /\ initialized \in BOOLEAN
    /\ step \in 1 .. Len(Steps)
    /\ rest \subseteq DOMAIN scan /\ DOMAIN scan \subseteq StepItems
    /\ pc \in [Procs -> PCs]
    /\ \A p \in Procs : /\ job[p].item \in Items
                        /\ job[p].ver \in Versions \cup {None}
                        /\ job[p].print \in Versions \cup {None}
                        /\ job[p].done \in 0 .. NChunks
    /\ spoilt \subseteq Items /\ events \in 0 .. MaxEvents

NoJob == [item |-> CHOOSE i \in Items : TRUE, ver |-> None, print |-> None,
          done |-> 0]

Init ==
    /\ version = [i \in Items |-> 1] /\ here = Items
    /\ chunks = [i \in Items |-> <<>>] /\ fp = [i \in Items |-> None]
    /\ links = {}
    /\ isRunning = FALSE /\ initialized = FALSE
    /\ step = 1 /\ scan = << >> /\ rest = {}
    /\ pc = [p \in Procs |-> "idle"] /\ job = [p \in Procs |-> NoJob]
    /\ spoilt = {} /\ events = 0

Goto(p, l) == pc' = [pc EXCEPT ![p] = l]
At(p, l) == pc[p] = l
Item(p) == job[p].item
Happens(e) == e \in Events /\ events < MaxEvents /\ events' = events + 1

-----------------------------------------------------------------------------
(* What goes wrong with an entry. A process writes from the fingerprint    *)
(* (or the check for duplicates) to the link.                              *)
Writes(p, i) == Item(p) = i /\ pc[p] \in {"delete", "insert"}
Meets(p, i) == \E q \in Procs \ {p} : Writes(q, i)

(* The entries that a process leaves half done if it goes no further.      *)
HalfDone(p) ==
    CASE pc[p] \in {"delete", "insert", "link"} -> {Item(p)}
      [] pc[p] \in {"pruneLinks", "pruneFps"} -> StepItems \ DOMAIN scan
      [] OTHER -> {}

(* A fresh start mends what was spoilt before, unless two processes write  *)
(* at once or the text is older than the fingerprint.                      *)
Afresh(p) ==
    IF Meets(p, Item(p)) \/ fp[Item(p)] # job[p].print \/ job[p].ver < job[p].print
    THEN spoilt \cup {Item(p)} ELSE spoilt \ {Item(p)}

-----------------------------------------------------------------------------
(* runFullIndex(), and RAGEngine.init() of both processes.                 *)
BeginPass ==
    /\ At("pass", "idle") /\ ~isRunning
    /\ isRunning' = TRUE
    /\ Goto("pass", "init")
    /\ UNCHANGED <<world, tables, initialized, cursor, job, spoilt, events>>

RagInit(p) ==
    /\ At(p, "init")
    /\ initialized' = TRUE
    /\ \/ p = "pass" /\ Goto(p, "list") /\ step' = 1
       \/ p = "upload" /\ Goto(p, "read") /\ UNCHANGED step
    /\ UNCHANGED <<world, tables, isRunning, scan, rest, job, spoilt, events>>

(* The database cannot be opened. Nothing resets _isRunning.               *)
InitFails(p) ==
    /\ At(p, "init") /\ ~initialized
    /\ Happens("fault")
    /\ Goto(p, "idle")
    /\ UNCHANGED <<world, tables, flags, cursor, job, spoilt>>

-----------------------------------------------------------------------------
(* A step of the pass: list, go through the list, prune.                   *)
Listed(S) ==
    /\ At("pass", "list")
    /\ scan' = [i \in S |-> version[i]] /\ rest' = S
    /\ Goto("pass", "next")
    /\ UNCHANGED <<world, tables, flags, step, job, spoilt>>

Found == StepItems \cap here \cap Scanned

List == Listed(Found) /\ UNCHANGED events

(* The readers swallow errors and return what they have: nothing, or all   *)
(* but an unreadable directory, photo or calendar.                         *)
ListPartly ==
    /\ Happens("fault")
    /\ \E S \in SUBSET Found : /\ S # Found
                               /\ Steps[step] \in {"contact", "email"} => S = {}
                               /\ Listed(S)

(* Where RAGEngine.index() begins.                                         *)
IndexFrom(j) == IF j.print = None THEN "dedup" ELSE "getFp"

NextItem ==
    /\ At("pass", "next")
    /\ \E i \in rest :
          LET k == Kind[i]
              j == [NoJob EXCEPT !.item = i, !.ver = scan[i], !.print =
                       IF k \in Fingerprinted THEN scan[i] ELSE None]
          IN  /\ rest' = rest \ {i}
              /\ job' = [job EXCEPT !["pass"] = j]
              /\ Goto("pass", CASE k = "file" -> "check"
                                [] k \in {"photo", "calendar"} -> "has"
                                [] OTHER -> IndexFrom(j))
    /\ UNCHANGED <<world, tables, flags, step, scan, spoilt, events>>

Advance ==
    \/ /\ step < Len(Steps)
       /\ step' = step + 1 /\ scan' = << >> /\ rest' = {}
       /\ Goto("pass", "list") /\ UNCHANGED isRunning
    \/ /\ step = Len(Steps)
       /\ isRunning' = FALSE
       /\ scan' = << >> /\ rest' = {}
       /\ Goto("pass", "idle") /\ UNCHANGED step

(* Mail is never pruned, and nothing is when the list was empty.           *)
EndStep ==
    /\ At("pass", "next") /\ rest = {}
    /\ \/ /\ DOMAIN scan # {} /\ Steps[step] # "email"
          /\ Goto("pass", "pruneChunks") /\ UNCHANGED <<isRunning, cursor>>
       \/ /\ DOMAIN scan = {} \/ Steps[step] = "email"
          /\ Advance
    /\ UNCHANGED <<world, tables, initialized, job, spoilt, events>>

(* pruneSourceData(): three statements. A photo's chunks are stored under  *)
(* its path and kept if its library id was listed.                         *)
Pruned == StepItems \ DOMAIN scan

PruneChunks ==
    /\ At("pass", "pruneChunks")
    /\ LET gone == Pruned \cup (StepItems \cap Aliased)
       IN  /\ chunks' = [i \in Items |-> IF i \in gone THEN <<>> ELSE chunks[i]]
           /\ spoilt' = spoilt \cup {i \in gone : Writes("upload", i)}
    /\ Goto("pass", "pruneLinks")
    /\ UNCHANGED <<world, fp, links, flags, cursor, job, events>>

PruneLinks ==
    /\ At("pass", "pruneLinks")
    /\ links' = links \ Pruned
    /\ Goto("pass", "pruneFps")
    /\ UNCHANGED <<world, chunks, fp, flags, cursor, job, spoilt, events>>

PruneFps ==
    /\ At("pass", "pruneFps")
    /\ fp' = [i \in Items |-> IF i \in Pruned THEN None ELSE fp[i]]
    /\ Advance
    /\ UNCHANGED <<world, chunks, links, initialized, job, spoilt, events>>

-----------------------------------------------------------------------------
(* One item. After it the pass takes the next, and indexFilePath() returns.*)
Leave(p) ==
    /\ Goto(p, IF p = "pass" THEN "next" ELSE "idle")
    /\ job' = [job EXCEPT ![p] = NoJob]
GoOn(p, l) == Goto(p, l) /\ UNCHANGED job

(* index() has returned false: all but the files of a pass are linked.     *)
Unchanged(p) ==
    \/ p = "pass" /\ Kind[Item(p)] = "file" /\ Leave(p)
    \/ ~(p = "pass" /\ Kind[Item(p)] = "file") /\ GoOn(p, "link")

(* _indexFiles(): a file with its old fingerprint is not looked at.        *)
CheckFingerprint ==
    /\ At("pass", "check")
    /\ \/ fp[Item("pass")] = job["pass"].print /\ Leave("pass")
       \/ fp[Item("pass")] # job["pass"].print /\ GoOn("pass", "read")
    /\ UNCHANGED <<world, tables, flags, cursor, spoilt, events>>

(* _indexPhotos(), _indexCalendar(): nor is an entry that has chunks.      *)
CheckChunks ==
    /\ At("pass", "has")
    /\ LET i == Item("pass")
           known == i \notin Aliased /\ chunks[i] # <<>>
       IN  \/ known /\ Leave("pass")
           \/ ~known /\ GoOn("pass", "dedup")
    /\ UNCHANGED <<world, tables, flags, cursor, spoilt, events>>

ReadContent(p) ==
    /\ At(p, "read") /\ Item(p) \in here
    /\ job' = [job EXCEPT ![p].ver = version[Item(p)]]
    /\ Goto(p, IF p = "pass" THEN "getFp" ELSE "stat")
    /\ UNCHANGED <<world, tables, flags, cursor, spoilt, events>>

(* readFileContent() returns null: the file is gone or cannot be read.     *)
NoContent(p) ==
    /\ At(p, "read")
    /\ \/ Item(p) \notin here /\ UNCHANGED events
       \/ Happens("fault")
    /\ Leave(p)
    /\ UNCHANGED <<world, tables, flags, cursor, spoilt>>

(* indexFilePath() takes the fingerprint after it has read the file.       *)
FileFingerprint ==
    /\ At("upload", "stat")
    /\ LET i == Item("upload")
       IN  job' = [job EXCEPT !["upload"].print =
                      IF i \in here THEN version[i] ELSE None]
    /\ Goto("upload", IndexFrom(job'["upload"]))
    /\ UNCHANGED <<world, tables, flags, cursor, spoilt, events>>

-----------------------------------------------------------------------------
(* RAGEngine.index().                                                      *)
GetFingerprint(p) ==
    /\ At(p, "getFp")
    /\ Goto(p, IF fp[Item(p)] = job[p].print THEN "verify" ELSE "setFp")
    /\ UNCHANGED <<world, tables, flags, cursor, job, spoilt, events>>

(* Mutant: the fingerprint alone decides.                                  *)
MutantTrustsFingerprint(p) ==
    /\ At(p, "verify")
    /\ Unchanged(p)
    /\ UNCHANGED <<world, tables, flags, cursor, spoilt, events>>

(* An old fingerprint counts only if the chunks are still there.           *)
Verify(p) ==
    /\ At(p, "verify")
    /\ \/ chunks[Item(p)] # <<>> /\ Unchanged(p)
       \/ chunks[Item(p)] = <<>> /\ GoOn(p, "setFp")
    /\ UNCHANGED <<world, tables, flags, cursor, spoilt, events>>

Dedup(p) ==
    /\ At(p, "dedup")
    /\ \/ chunks[Item(p)] # <<>> /\ Unchanged(p) /\ UNCHANGED spoilt
       \/ chunks[Item(p)] = <<>> /\ GoOn(p, "insert") /\ spoilt' = Afresh(p)
    /\ UNCHANGED <<world, tables, flags, cursor, events>>

SetFingerprint(p) ==
    /\ At(p, "setFp")
    /\ fp' = [fp EXCEPT ![Item(p)] = job[p].print]
    /\ spoilt' = IF Meets(p, Item(p)) THEN spoilt \cup {Item(p)} ELSE spoilt
    /\ Goto(p, "delete")
    /\ UNCHANGED <<world, chunks, links, flags, cursor, job, events>>

(* Mutant: the new chunks are added to the old ones.                       *)
MutantKeepsChunks(p) ==
    /\ At(p, "delete")
    /\ spoilt' = Afresh(p)
    /\ Goto(p, "insert")
    /\ UNCHANGED <<world, tables, flags, cursor, job, events>>

DeleteChunks(p) ==
    /\ At(p, "delete")
    /\ chunks' = [chunks EXCEPT ![Item(p)] = <<>>]
    /\ spoilt' = Afresh(p)
    /\ Goto(p, "insert")
    /\ UNCHANGED <<world, fp, links, flags, cursor, job, events>>

(* Mutant: the loop runs once too often.                                   *)
MutantOneTooMany(p) ==
    /\ At(p, "insert")
    /\ LET k == job[p].done + 1
       IN  /\ chunks' = [chunks EXCEPT ![Item(p)] = Append(@, <<job[p].ver, k>>)]
           /\ job' = [job EXCEPT ![p].done = k]
           /\ Goto(p, IF k > NChunks THEN "link" ELSE "insert")
    /\ UNCHANGED <<world, fp, links, flags, cursor, spoilt, events>>

InsertChunk(p) ==
    /\ At(p, "insert")
    /\ LET k == job[p].done + 1
       IN  /\ chunks' = [chunks EXCEPT ![Item(p)] = Append(@, <<job[p].ver, k>>)]
           /\ job' = [job EXCEPT ![p].done = k]
           /\ Goto(p, IF k = NChunks THEN "link" ELSE "insert")
    /\ UNCHANGED <<world, fp, links, flags, cursor, spoilt, events>>

LinkAsset(p) ==
    /\ At(p, "link")
    /\ links' = links \cup {Item(p)}
    /\ Leave(p)
    /\ UNCHANGED <<world, chunks, fp, flags, cursor, spoilt, events>>

-----------------------------------------------------------------------------
(* What happens from outside.                                              *)

(* indexFilePath(): the user attaches, shares or imports a file.           *)
BeginUpload(i) ==
    /\ At("upload", "idle") /\ Kind[i] = "file" /\ i \in here
    /\ Happens("upload")
    /\ job' = [job EXCEPT !["upload"] = [NoJob EXCEPT !.item = i]]
    /\ Goto("upload", "init")
    /\ UNCHANGED <<world, tables, flags, cursor, spoilt>>

(* RAGEngine.init() and clear(), when the embedding model has changed (and *)
(* the last count of chunks, which is left out, was not zero).             *)
Clear ==
    /\ Happens("clear")
    /\ initialized' = TRUE
    /\ chunks' = [i \in Items |-> <<>>]
    /\ spoilt' = spoilt \cup {i \in Items :
                    \/ \E p \in Procs : Writes(p, i)
                    \/ Kind[i] = "file" /\ fp[i] # None}
    /\ UNCHANGED <<world, fp, links, isRunning, cursor, pc, job>>

(* Mutant: the steps of a pass have no handler of their own.               *)
MutantNoHandler(p) ==
    /\ pc[p] \in PCs \ {"idle", "init", "list", "next", "read", "stat"}
    /\ Happens("fault")
    /\ spoilt' = spoilt \cup HalfDone(p)
    /\ Goto(p, "idle") /\ job' = [job EXCEPT ![p] = NoJob]
    /\ UNCHANGED <<world, tables, flags, cursor>>

(* A statement on the database throws. A file of a pass has a handler of   *)
(* its own, any other error ends the step, or indexFilePath().             *)
Throws(p) ==
    /\ pc[p] \in PCs \ {"idle", "init", "list", "next", "read", "stat"}
    /\ Happens("fault")
    /\ spoilt' = spoilt \cup HalfDone(p)
    /\ LET handled == Kind[Item(p)] = "file"
                      /\ pc[p] \notin {"check", "pruneChunks", "pruneLinks",
                                       "pruneFps"}
       IN  \/ /\ p = "upload" \/ handled
              /\ Leave(p) /\ UNCHANGED <<isRunning, cursor>>
           \/ /\ p = "pass" /\ ~handled
              /\ Advance
              /\ job' = [job EXCEPT ![p] = NoJob]
    /\ UNCHANGED <<world, tables, initialized>>

Crash ==
    /\ Happens("crash")
    /\ spoilt' = spoilt \cup HalfDone("pass") \cup HalfDone("upload")
    /\ pc' = [p \in Procs |-> "idle"] /\ job' = [p \in Procs |-> NoJob]
    /\ isRunning' = FALSE /\ initialized' = FALSE
    /\ step' = 1 /\ scan' = << >> /\ rest' = {}
    /\ UNCHANGED <<world, tables>>

(* The text of a file, contact or event changes, an item goes or is back.  *)
WorldChanges(i) ==
    /\ \/ /\ Happens("edit") /\ i \in here
          /\ Kind[i] \in {"contact", "file", "calendar"}
          /\ version' = [version EXCEPT ![i] = @ + 1] /\ UNCHANGED here
       \/ /\ Happens("remove") /\ i \in here
          /\ here' = here \ {i} /\ UNCHANGED version
       \/ /\ Happens("return") /\ i \notin here
          /\ here' = here \cup {i} /\ UNCHANGED version
    /\ UNCHANGED <<tables, flags, cursor, pc, job, spoilt>>

-----------------------------------------------------------------------------
Index(p) ==
    \/ RagInit(p) \/ ReadContent(p) \/ (Item(p) \notin here /\ NoContent(p))
    \/ GetFingerprint(p) \/ Verify(p) \/ Dedup(p) \/ SetFingerprint(p)
    \/ DeleteChunks(p) \/ InsertChunk(p) \/ LinkAsset(p)

PassStep ==
    \/ BeginPass \/ List \/ NextItem \/ CheckFingerprint \/ CheckChunks
    \/ EndStep \/ PruneChunks \/ PruneLinks \/ PruneFps \/ Index("pass")

UploadStep == FileFingerprint \/ Index("upload")

Next ==
    \/ PassStep \/ UploadStep
    \/ ListPartly
    \/ \E p \in Procs : InitFails(p) \/ NoContent(p) \/ Throws(p)
    \/ \E i \in Items : BeginUpload(i) \/ WorldChanges(i)
    \/ Clear \/ Crash

Spec == Init /\ [][Next]_vars
FairSpec == Spec /\ WF_vars(PassStep) /\ WF_vars(UploadStep)

-----------------------------------------------------------------------------
(* Change detection rests on this: a stored fingerprint promises all the   *)
(* chunks of a text at least as new, and an entry without one is empty or  *)
(* whole, whenever nobody is writing or pruning it. (A file that is edited *)
(* while a pass reads it has newer chunks, and is read again.)             *)
EntryIsWhole ==
    \A i \in Items \ spoilt :
        \/ \E p \in Procs : Writes(p, i)
        \/ pc["pass"] \in {"pruneLinks", "pruneFps"} /\ i \in Pruned
        \/ chunks[i] = <<>> /\ (Kind[i] = "file" => fp[i] = None)
        \/ \E v \in Versions : v >= fp[i] /\ chunks[i] = Full(v)

(* A pass that has opened the database ends, whatever changes or throws on *)
(* the way: _isRunning does not stay set and keep out every later pass.    *)
PassEnds == At("pass", "list") ~> ~isRunning

(* The entry that passes should arrive at. Photos and events are not read  *)
(* again; what is gone is pruned with the next list that is not empty.     *)
Mirrored(i) ==
    IF i \in here \cap Scanned
    THEN /\ i \in links
         /\ \E v \in Versions : /\ chunks[i] = Full(v)
                                /\ Kind[i] \in Fingerprinted => v = version[i]
    ELSE \/ Kind[i] = "email"
         \/ \A j \in here \cap Scanned : Kind[j] # Kind[i]
         \/ chunks[i] = <<>> /\ fp[i] = None /\ i \notin links

(* Once the world is quiet, the passes make every entry what it should be, *)
(* but for those spoilt, and for photos pruned under another id.           *)
MirrorsEventually ==
    <>[](\/ isRunning /\ At("pass", "idle")
         \/ \A i \in Items \ (spoilt \cup Aliased) : Mirrored(i))

(* index(): "If chunks were evicted/lost [...] we must re-index even       *)
(* though the content hasn't changed."                                     *)
LostIsReindexed ==
    \A i \in Items : i \in here /\ chunks[i] = <<>>
                        ~> i \notin here \/ chunks[i] # <<>>
=============================================================================
