--------------------------- MODULE IndexerProofs ---------------------------
(***************************************************************************)
(* Proofs about Indexer, for any set of items, any number of chunks, any   *)
(* bound on what happens from outside: the variables keep their types, and *)
(* every entry that is not spoilt is whole.                                *)
(*                                                                         *)
(* EntryIsWhole is not inductive: it says nothing of an entry while it is  *)
(* written or pruned.  EntryInv says what is known then: an entry that is  *)
(* not spoilt has one writer, whose chunks so far are all there is of it   *)
(* and are no older than its fingerprint; and a pruned entry has all of    *)
(* its chunks or none, whatever its fingerprint.                           *)
(***************************************************************************)
EXTENDS Indexer, SequenceTheorems, TLAPS

Jobs == [item : Items, ver : Versions \cup {None},
         print : Versions \cup {None}, done : 0 .. NChunks]
Chunks == Versions \X (1 .. NChunks)

(* Versions are bounded by what has happened; a list knows the versions it *)
(* has listed.                                                             *)
ShapeInv ==
    /\ chunks \in [Items -> Seq(Chunks)]
    /\ job \in [Procs -> Jobs]
    /\ \A i \in Items : version[i] <= events + 1
    /\ \A i \in DOMAIN scan : scan[i] \in Versions

(* Between passes nothing is listed.                                       *)
IdleInv == pc["pass"] \in {"idle", "init"} => DOMAIN scan = {}

(* At the await l with the job j: the text has been read where it is       *)
(* needed, and the chunks are counted from the start.                      *)
JobOK(l, j) ==
    /\ l \in {"has", "stat", "getFp", "verify", "dedup", "setFp", "delete",
              "insert"} => j.ver \in Versions
    /\ l = "insert" => j.done < NChunks
    /\ l \notin {"insert", "link"} => j.done = 0

JobInv == \A p \in Procs : JobOK(pc[p], job[p])

(* The first n chunks of a version.                                        *)
Part(v, n) == [k \in 1 .. n |-> <<v, k>>]

Pruning(i) == pc["pass"] \in {"pruneLinks", "pruneFps"} /\ i \in Pruned

(* The entry i, written by somebody or at rest.                            *)
EntryOK(i) ==
    /\ \A p, q \in Procs : Writes(p, i) /\ Writes(q, i) => p = q
    /\ \A p \in Procs : Item(p) = i /\ pc[p] = "insert" =>
           /\ chunks[i] = Part(job[p].ver, job[p].done)
           /\ fp[i] <= job[p].ver
    /\ (\A p \in Procs : ~Writes(p, i)) =>
           \/ /\ chunks[i] = <<>>
              /\ Pruning(i) \/ (Kind[i] = "file" => fp[i] = None)
           \/ \E v \in Versions : /\ chunks[i] = Full(v)
                                  /\ Pruning(i) \/ fp[i] <= v

EntryInv == \A i \in Items \ spoilt : EntryOK(i)

IInv == TypeOK /\ ShapeInv /\ IdleInv /\ JobInv /\ EntryInv
-----------------------------------------------------------------------------
(* A step takes one process to the await l with the job j.                 *)
Move(p, l, j) ==
    /\ l \in PCs /\ j \in Jobs /\ JobOK(l, j)
    /\ pc' = [pc EXCEPT ![p] = l] /\ job' = [job EXCEPT ![p] = j]

(* What the model's constants are made of.                                 *)
LEMMA ConstantFacts ==
    /\ None \in Nat /\ None \notin Versions /\ Versions \subseteq Nat
    /\ 1 \in Versions /\ NChunks \in Nat \ {0} /\ MaxEvents \in Nat
    /\ NoJob \in Jobs /\ NoJob.done = 0
    /\ Procs = {"pass", "upload"} /\ "pass" \in Procs /\ "upload" \in Procs
    /\ Len(Steps) = 5 /\ DOMAIN << >> = {}
  <1>1. /\ NChunks \in Nat \ {0} /\ MaxEvents \in Nat
    BY BoundsAssumption
  <1>2. /\ None \in Nat /\ None \notin Versions /\ Versions \subseteq Nat
        /\ 1 \in Versions
    BY <1>1 DEF None, Versions
  <1>3. (CHOOSE i \in Items : TRUE) \in Items
    BY PlacesAssumption
  <1>4. NoJob \in Jobs /\ NoJob.done = 0
    BY <1>1, <1>3 DEF NoJob, Jobs
  <1>5. Len(Steps) = 5 /\ DOMAIN << >> = {}
    BY DEF Steps
  <1> QED BY <1>1, <1>2, <1>4, <1>5 DEF Procs

(* A process leaves its item.                                              *)
LEMMA LeaveMoves ==
    ASSUME NEW p \in Procs, Leave(p)
    PROVE  /\ Move(p, IF p = "pass" THEN "next" ELSE "idle", NoJob)
           /\ job'= [job EXCEPT ![p] = NoJob]
  BY ConstantFacts DEF Leave, Goto, Move, PCs, JobOK

(* A process keeps its item.                                               *)
LEMMA GoOnMoves ==
    ASSUME ShapeInv, NEW p \in Procs, NEW l \in PCs, Goto(p, l), UNCHANGED job,
           JobOK(l, job[p])
    PROVE  Move(p, l, job[p])
  BY DEF Goto, Move, ShapeInv

(* A step that moves a process keeps the types of pc and job and what is   *)
(* known of the jobs.                                                      *)
LEMMA MoveKeeps ==
    ASSUME TypeOK, ShapeInv, JobInv, NEW p \in Procs, NEW l, NEW j,
           Move(p, l, j)
    PROVE  /\ pc' \in [Procs -> PCs] /\ job' \in [Procs -> Jobs]
           /\ pc'[p] = l /\ job'[p] = j
           /\ \A q \in Procs \ {p} : pc'[q] = pc[q] /\ job'[q] = job[q]
           /\ JobInv'
  <1>1. /\ pc' \in [Procs -> PCs] /\ job' \in [Procs -> Jobs]
        /\ pc'[p] = l /\ job'[p] = j
        /\ \A q \in Procs \ {p} : pc'[q] = pc[q] /\ job'[q] = job[q]
    BY DEF Move, TypeOK, ShapeInv
  <1>2. ASSUME NEW q \in Procs
        PROVE  JobOK(pc'[q], job'[q])
    BY <1>1 DEF Move, JobInv
  <1> QED BY <1>1, <1>2 DEF JobInv

-----------------------------------------------------------------------------
(* A step of a process that neither writes an entry nor begins to, and     *)
(* spoils the ones it was writing.                                         *)
QuietMove(p) ==
    \E l, j : /\ Move(p, l, j) /\ l \notin {"delete", "insert"}
              /\ UNCHANGED <<chunks, fp>> /\ spoilt \subseteq spoilt'
              /\ \A i \in Items \ spoilt' :
                    ~Writes(p, i) /\ (Pruning(i) => Pruning(i)')

(* Most steps are quiet because their process is not writing or pruning.   *)
LEMMA QuietIntro ==
    ASSUME TypeOK, ShapeInv, JobInv, NEW p \in Procs, NEW l, NEW j,
           Move(p, l, j), l \notin {"delete", "insert"},
           pc[p] \notin {"delete", "insert"},
           UNCHANGED <<chunks, fp, spoilt>>,
           p = "upload" => UNCHANGED cursor,
           p = "pass" => pc[p] \notin {"pruneLinks", "pruneFps"}
    PROVE  QuietMove(p)
  <1>1. CASE p = "pass"
    BY <1>1 DEF QuietMove, Writes, Pruning
  <1>2. CASE p = "upload"
    <2>1. pc'["pass"] = pc["pass"]
      BY <1>2, MoveKeeps, ConstantFacts
    <2>2. \A i \in Items : Pruning(i)' <=> Pruning(i)
      BY <1>2, <2>1 DEF Pruning, Pruned, StepItems, cursor
    <2> QED BY <2>2 DEF QuietMove, Writes
  <1> QED BY <1>1, <1>2, ConstantFacts

(* The pass begins, lists and goes to the next item or step.               *)
LEMMA PassQuiet ==
    ASSUME TypeOK, ShapeInv, JobInv,
           BeginPass \/ List \/ ListPartly \/ NextItem \/ EndStep
    PROVE  QuietMove("pass")
  <1> USE ConstantFacts DEF At
  <1> DEFINE p == "pass"
  <1>0. /\ pc[p] \in {"idle", "list", "next"} => JobOK("idle", job[p])
        /\ JobOK("idle", job[p]) => JobOK("init", job[p]) /\ JobOK("list", job[p])
              /\ JobOK("next", job[p]) /\ JobOK("pruneChunks", job[p])
    BY DEF JobInv, JobOK
  <1>1. CASE BeginPass
    <2>1. Move(p, "init", job[p])
      BY <1>0, <1>1, GoOnMoves DEF BeginPass, PCs
    <2> QED BY <1>1, <2>1, QuietIntro DEF BeginPass, tables
  <1>2. CASE List \/ ListPartly
    <2>1. PICK S : Listed(S)
      BY <1>2 DEF List, ListPartly
    <2>2. Move(p, "next", job[p])
      BY <1>0, <2>1, GoOnMoves DEF Listed, PCs
    <2> QED BY <2>1, <2>2, QuietIntro DEF Listed, tables
  <1>3. CASE NextItem
    <2> DEFINE J(i) == [NoJob EXCEPT !.item = i, !.ver = scan[i], !.print =
                           IF Kind[i] \in Fingerprinted THEN scan[i] ELSE None]
    <2>1. PICK i \in rest :
              /\ job' = [job EXCEPT ![p] = J(i)]
              /\ Goto(p, CASE Kind[i] = "file" -> "check"
                            [] Kind[i] \in {"photo", "calendar"} -> "has"
                            [] OTHER -> IndexFrom(J(i)))
      BY <1>3 DEF NextItem
    <2>2. i \in Items /\ scan[i] \in Versions
      BY DEF TypeOK, ShapeInv, StepItems
    <2>3. J(i) \in Jobs /\ J(i).ver \in Versions /\ J(i).done = 0
      BY <2>2 DEF Jobs, NoJob
    <2> HIDE DEF J
    <2>4. IndexFrom(J(i)) \in {"dedup", "getFp"}
      BY DEF IndexFrom
    <2>5. PICK l \in {"check", "has", "dedup", "getFp"} : Goto(p, l)
      BY <2>1, <2>4
    <2>6. JobOK(l, J(i)) /\ l \in PCs
      BY <2>3, <2>5 DEF JobOK, PCs
    <2>7. Move(p, l, J(i))
      BY <2>1, <2>3, <2>5, <2>6 DEF Move, Goto
    <2> QED BY <1>3, <2>7, QuietIntro DEF NextItem, tables
  <1>4. CASE EndStep
    <2>1. \E l \in {"pruneChunks", "list", "idle"} : Goto(p, l)
      BY <1>4 DEF EndStep, Advance
    <2>2. PICK l \in {"pruneChunks", "list", "idle"} : Move(p, l, job[p])
      BY <1>0, <1>4, <2>1, GoOnMoves DEF EndStep, PCs
    <2> QED BY <1>4, <2>2, QuietIntro DEF EndStep, tables
  <1> QED BY <1>1, <1>2, <1>3, <1>4

(* The looks at an item that decide whether it is indexed.                 *)
LEMMA LookQuiet ==
    ASSUME TypeOK, ShapeInv, JobInv, NEW p \in Procs,
           \/ p = "pass" /\ (CheckFingerprint \/ CheckChunks)
           \/ p = "upload" /\ (FileFingerprint \/ \E i \in Items : BeginUpload(i))
           \/ RagInit(p) \/ InitFails(p) \/ ReadContent(p) \/ NoContent(p)
           \/ GetFingerprint(p) \/ Verify(p) \/ LinkAsset(p)
           \/ Dedup(p) /\ Unchanged(p) /\ UNCHANGED spoilt
    PROVE  QuietMove(p)
  <1> USE ConstantFacts DEF At
  <1>0. /\ job[p] \in Jobs /\ JobOK(pc[p], job[p])
        /\ {"idle", "init", "list", "next", "check", "has", "read", "stat",
            "getFp", "verify", "dedup", "setFp", "link"} \subseteq PCs
    BY DEF ShapeInv, JobInv, PCs
  <1>1. ASSUME Unchanged(p), pc[p] \in {"verify", "dedup"},
               UNCHANGED <<tables, cursor, spoilt>>
        PROVE  QuietMove(p)
    <2>1. JobOK("link", job[p])
      BY <1>0, <1>1 DEF JobOK
    <2>2. CASE Leave(p)
      BY <1>1, <2>2, LeaveMoves, QuietIntro DEF tables
    <2>3. CASE GoOn(p, "link")
      <3>1. Move(p, "link", job[p])
        BY <1>0, <2>1, <2>3, GoOnMoves DEF GoOn
      <3> QED BY <1>1, <3>1, QuietIntro DEF tables
    <2> QED BY <1>1, <2>2, <2>3 DEF Unchanged
  <1>2. ASSUME Leave(p), pc[p] \in {"check", "has", "read", "link"},
               UNCHANGED <<chunks, fp, cursor, spoilt>>
        PROVE  QuietMove(p)
    BY <1>2, LeaveMoves, QuietIntro
  <1>3. CASE p = "pass" /\ CheckFingerprint
    <2>1. CASE Leave(p)
      BY <1>2, <1>3, <2>1 DEF CheckFingerprint, tables
    <2>2. CASE GoOn(p, "read")
      <3>1. Move(p, "read", job[p])
        BY <1>0, <1>3, <2>2, GoOnMoves DEF GoOn, CheckFingerprint, JobOK
      <3> QED BY <1>3, <3>1, QuietIntro DEF CheckFingerprint, tables
    <2> QED BY <1>3, <2>1, <2>2 DEF CheckFingerprint
  <1>4. CASE p = "pass" /\ CheckChunks
    <2>1. CASE Leave(p)
      BY <1>2, <1>4, <2>1 DEF CheckChunks, tables
    <2>2. CASE GoOn(p, "dedup")
      <3>1. Move(p, "dedup", job[p])
        BY <1>0, <1>4, <2>2, GoOnMoves DEF GoOn, CheckChunks, JobOK
      <3> QED BY <1>4, <3>1, QuietIntro DEF CheckChunks, tables
    <2> QED BY <1>4, <2>1, <2>2 DEF CheckChunks
  <1>5. CASE p = "upload" /\ FileFingerprint
    <2> DEFINE i == Item("upload")
               j == [job["upload"] EXCEPT !.print =
                        IF i \in here THEN version[i] ELSE None]
    <2>1. job' = [job EXCEPT !["upload"] = j] /\ pc["upload"] = "stat"
      BY <1>5 DEF FileFingerprint, ShapeInv, Jobs
    <2>2. j \in Jobs /\ j.ver \in Versions /\ j.done = 0
      BY <1>0, <1>5, <2>1 DEF Jobs, JobOK, TypeOK, Item
    <2>3. PICK l \in {"dedup", "getFp"} : Goto("upload", l)
      BY <1>5 DEF FileFingerprint, IndexFrom
    <2> HIDE DEF j
    <2>4. Move("upload", l, j)
      BY <1>0, <2>1, <2>2, <2>3 DEF Move, Goto, JobOK
    <2> QED BY <1>5, <2>1, <2>4, QuietIntro DEF FileFingerprint, tables
  <1>6. ASSUME p = "upload", NEW i \in Items, BeginUpload(i)
        PROVE  QuietMove(p)
    <2> DEFINE j == [NoJob EXCEPT !.item = i]
    <2>1. j \in Jobs /\ j.done = 0
      BY DEF Jobs, NoJob
    <2>2. job' = [job EXCEPT ![p] = j] /\ Goto(p, "init")
      BY <1>6 DEF BeginUpload
    <2> HIDE DEF j
    <2>3. Move(p, "init", j)
      BY <1>0, <2>1, <2>2 DEF Move, Goto, JobOK
    <2> QED BY <1>6, <2>3, QuietIntro DEF BeginUpload, tables
  <1>7. CASE RagInit(p)
    <2>1. PICK l \in {"list", "read"} : Goto(p, l)
      BY <1>7 DEF RagInit
    <2>2. Move(p, l, job[p])
      BY <1>0, <1>7, <2>1, GoOnMoves DEF RagInit, JobOK
    <2>3. p = "upload" => UNCHANGED cursor
      BY <1>7 DEF RagInit, cursor
    <2> QED BY <1>7, <2>2, <2>3, QuietIntro DEF RagInit, tables
  <1>8. CASE InitFails(p)
    <2>1. Move(p, "idle", job[p])
      BY <1>0, <1>8, GoOnMoves DEF InitFails, JobOK
    <2> QED BY <1>8, <2>1, QuietIntro DEF InitFails, tables
  <1>9. CASE ReadContent(p)
    <2> DEFINE j == [job[p] EXCEPT !.ver = version[Item(p)]]
    <2>1. job' = [job EXCEPT ![p] = j] /\ pc[p] = "read"
      BY <1>9 DEF ReadContent, ShapeInv, Jobs
    <2>2. j \in Jobs /\ j.ver \in Versions /\ j.done = 0
      BY <1>0, <2>1 DEF Jobs, JobOK, TypeOK, Item
    <2>3. PICK l \in {"getFp", "stat"} : Goto(p, l)
      BY <1>9 DEF ReadContent
    <2> HIDE DEF j
    <2>4. Move(p, l, j)
      BY <1>0, <2>1, <2>2, <2>3 DEF Move, Goto, JobOK
    <2> QED BY <1>9, <2>1, <2>4, QuietIntro DEF ReadContent, tables
  <1>10. CASE NoContent(p)
    BY <1>2, <1>10 DEF NoContent, tables
  <1>11. CASE GetFingerprint(p)
    <2>1. PICK l \in {"verify", "setFp"} : Goto(p, l)
      BY <1>11 DEF GetFingerprint
    <2>2. Move(p, l, job[p])
      BY <1>0, <1>11, <2>1, GoOnMoves DEF GetFingerprint, JobOK
    <2> QED BY <1>11, <2>2, QuietIntro DEF GetFingerprint, tables
  <1>12. CASE Verify(p)
    <2>1. CASE Unchanged(p)
      BY <1>1, <1>12, <2>1 DEF Verify
    <2>2. CASE GoOn(p, "setFp")
      <3>1. Move(p, "setFp", job[p])
        BY <1>0, <1>12, <2>2, GoOnMoves DEF GoOn, Verify, JobOK
      <3> QED BY <1>12, <3>1, QuietIntro DEF Verify, tables
    <2> QED BY <1>12, <2>1, <2>2 DEF Verify
  <1>13. CASE LinkAsset(p)
    BY <1>2, <1>13 DEF LinkAsset
  <1>14. CASE Dedup(p) /\ Unchanged(p) /\ UNCHANGED spoilt
    BY <1>1, <1>14 DEF Dedup
  <1> QED BY <1>3, <1>4, <1>5, <1>6, <1>7, <1>8, <1>9, <1>10, <1>11, <1>12,
             <1>13, <1>14

(* A statement that throws spoils what its process was writing or pruning. *)
LEMMA ThrowsQuiet ==
    ASSUME TypeOK, ShapeInv, JobInv, NEW p \in Procs, Throws(p)
    PROVE  QuietMove(p)
  <1> USE ConstantFacts
  <1>1. PICK l \in {"next", "idle", "list"} : Move(p, l, NoJob)
    <2>1. CASE Leave(p)
      BY <2>1, LeaveMoves
    <2>2. CASE /\ Goto("pass", "list") \/ Goto("pass", "idle")
               /\ p = "pass" /\ job' = [job EXCEPT ![p] = NoJob]
      <3>1. PICK k \in {"list", "idle"} : Goto("pass", k)
        BY <2>2
      <3>2. k \in PCs /\ JobOK(k, NoJob)
        BY <3>1 DEF PCs, JobOK
      <3> QED BY <2>2, <3>1, <3>2 DEF Move, Goto
    <2> QED BY <2>1, <2>2 DEF Throws, Advance
  <1>2. UNCHANGED <<chunks, fp>> /\ spoilt' = spoilt \cup HalfDone(p)
    BY DEF Throws, tables
  <1>3. ASSUME NEW i \in Items \ spoilt'
        PROVE  ~Writes(p, i) /\ (Pruning(i) => Pruning(i)')
    <2>1. ~Writes(p, i)
      BY <1>2, <1>3 DEF HalfDone, Writes
    <2>2. CASE p = "pass"
      <3>1. pc["pass"] \in {"pruneLinks", "pruneFps"} => Pruned \subseteq spoilt'
        BY <1>2, <2>2 DEF HalfDone, Pruned
      <3> QED BY <2>1, <3>1 DEF Pruning
    <2>3. CASE p = "upload"
      <3>1. UNCHANGED cursor /\ pc'["pass"] = pc["pass"]
        BY <1>1, <2>3, MoveKeeps DEF Throws
      <3> QED BY <2>1, <3>1 DEF Pruning, Pruned, StepItems, cursor
    <2> QED BY <2>2, <2>3
  <1> QED BY <1>1, <1>2, <1>3 DEF QuietMove

(* The second statement of a prune leaves the entries pruned.              *)
LEMMA PruneLinksQuiet ==
    ASSUME TypeOK, ShapeInv, JobInv, PruneLinks
    PROVE  QuietMove("pass")
  <1> USE ConstantFacts
  <1>1. Move("pass", "pruneFps", job["pass"])
    BY GoOnMoves DEF PruneLinks, At, JobInv, JobOK, PCs
  <1>2. pc'["pass"] = "pruneFps"
    BY <1>1, MoveKeeps
  <1>3. \A i \in Items : Pruning(i) => Pruning(i)'
    BY <1>2 DEF PruneLinks, Pruning, Pruned, StepItems, cursor
  <1> QED BY <1>1, <1>3 DEF QuietMove, PruneLinks, At, Writes

-----------------------------------------------------------------------------
(* An entry stays as it should be if it is not touched and nobody begins   *)
(* or ends to write it.                                                    *)
LEMMA FrameEntry ==
    ASSUME NEW i \in Items, EntryOK(i),
           chunks'[i] = chunks[i], fp'[i] = fp[i],
           \A q \in Procs : \/ pc'[q] = pc[q] /\ job'[q] = job[q]
                            \/ ~Writes(q, i) /\ ~Writes(q, i)',
           Pruning(i) => Pruning(i)'
    PROVE  EntryOK(i)'
  <1>1. \A q \in Procs : Writes(q, i)' <=> Writes(q, i)
    BY DEF Writes, Item
  <1>2. ASSUME NEW p \in Procs, Item(p)' = i, pc'[p] = "insert"
        PROVE  /\ chunks'[i] = Part(job'[p].ver, job'[p].done)
               /\ fp'[i] <= job'[p].ver
    <2>1. Writes(p, i)'
      BY <1>2 DEF Writes
    <2>2. pc'[p] = pc[p] /\ job'[p] = job[p]
      BY <2>1, <1>1
    <2> QED BY <1>2, <2>2 DEF EntryOK, Item
  <1>3. ASSUME \A p \in Procs : ~Writes(p, i)'
        PROVE  \/ /\ chunks'[i] = <<>>
                  /\ Pruning(i)' \/ (Kind[i] = "file" => fp'[i] = None)
               \/ \E v \in Versions : /\ chunks'[i] = Full(v)
                                      /\ Pruning(i)' \/ fp'[i] <= v
    BY <1>1, <1>3 DEF EntryOK
  <1> QED BY <1>1, <1>2, <1>3 DEF EntryOK

(* A quiet step keeps the entries.                                         *)
LEMMA QuietKeepsEntries ==
    ASSUME TypeOK, ShapeInv, JobInv, EntryInv, NEW p \in Procs, QuietMove(p)
    PROVE  EntryInv'
  <1>1. PICK l, j : /\ Move(p, l, j) /\ l \notin {"delete", "insert"}
                    /\ UNCHANGED <<chunks, fp>> /\ spoilt \subseteq spoilt'
                    /\ \A i \in Items \ spoilt' :
                          ~Writes(p, i) /\ (Pruning(i) => Pruning(i)')
    BY DEF QuietMove
  <1>2. /\ pc'[p] = l
        /\ \A q \in Procs \ {p} : pc'[q] = pc[q] /\ job'[q] = job[q]
    BY <1>1, MoveKeeps
  <1>3. ASSUME NEW i \in Items \ spoilt'
        PROVE  EntryOK(i)'
    <2>1. EntryOK(i)
      BY <1>1, <1>3 DEF EntryInv
    <2>2. ~Writes(p, i) /\ ~Writes(p, i)' /\ (Pruning(i) => Pruning(i)')
      BY <1>1, <1>2, <1>3 DEF Writes
    <2> QED BY <1>1, <1>2, <2>1, <2>2, FrameEntry
  <1> QED BY <1>3 DEF EntryInv

(* A step of one process on its item keeps the other entries.              *)
LEMMA OtherEntries ==
    ASSUME TypeOK, ShapeInv, JobInv, EntryInv, NEW p \in Procs, NEW l, NEW j,
           Move(p, l, j), j.item = job[p].item, UNCHANGED cursor,
           p = "pass" => pc[p] \notin {"pruneLinks", "pruneFps"},
           NEW i \in Items \ spoilt, i # Item(p),
           chunks'[i] = chunks[i], fp'[i] = fp[i]
    PROVE  EntryOK(i)'
  <1>1. /\ job'[p] = j
        /\ \A q \in Procs \ {p} : pc'[q] = pc[q] /\ job'[q] = job[q]
    BY MoveKeeps
  <1>2. ~Writes(p, i) /\ ~Writes(p, i)'
    BY <1>1 DEF Writes, Item
  <1>3. Pruning(i) => Pruning(i)'
    <2>1. CASE p = "pass"
      BY <2>1 DEF Pruning
    <2>2. CASE p # "pass"
      BY <1>1, <2>2, ConstantFacts DEF Pruning, Pruned, StepItems, cursor
    <2> QED BY <2>1, <2>2
  <1> QED BY <1>1, <1>2, <1>3, FrameEntry DEF EntryInv

(* To begin afresh is to be the only writer, with a text no older than the *)
(* fingerprint.                                                            *)
LEMMA AfreshKeepsEntries ==
    ASSUME TypeOK, ShapeInv, JobInv, EntryInv, NEW p \in Procs,
           Move(p, "insert", job[p]), pc[p] \in {"dedup", "delete"},
           chunks'[Item(p)] = <<>>, UNCHANGED <<fp, cursor>>,
           \A i \in Items \ {Item(p)} : chunks'[i] = chunks[i],
           spoilt' = Afresh(p)
    PROVE  EntryInv'
  <1>0. /\ pc'[p] = "insert" /\ job'[p] = job[p]
        /\ \A q \in Procs \ {p} : pc'[q] = pc[q] /\ job'[q] = job[q]
    BY MoveKeeps
  <1>1. ASSUME NEW i \in Items \ spoilt', i # Item(p)
        PROVE  EntryOK(i)'
    <2>1. i \notin spoilt
      BY <1>1 DEF Afresh
    <2> QED BY <1>1, <2>1, OtherEntries
  <1>2. ASSUME NEW i \in Items \ spoilt', i = Item(p)
        PROVE  EntryOK(i)'
    <2>1. ~Meets(p, i) /\ fp[i] = job[p].print /\ ~(job[p].ver < job[p].print)
      BY <1>2 DEF Afresh
    <2>2. \A q \in Procs \ {p} : ~Writes(q, i)
      BY <2>1 DEF Meets
    <2>3. \A q \in Procs : Writes(q, i)' <=> q = p
      BY <1>0, <1>2, <2>2 DEF Writes, Item
    <2>4. Part(job[p].ver, 0) = <<>> /\ job[p].done = 0
      BY DEF Part, JobInv, JobOK
    <2>5. fp[i] <= job[p].ver
      <3>1. job[p].ver \in Nat /\ job[p].print \in Nat
        BY ConstantFacts DEF ShapeInv, Jobs
      <3> QED BY <2>1, <3>1
    <2>6. ASSUME NEW q \in Procs, Item(q)' = i, pc'[q] = "insert"
          PROVE  /\ chunks'[i] = Part(job'[q].ver, job'[q].done)
                 /\ fp'[i] <= job'[q].ver
      <3>1. q = p
        BY <2>3, <2>6 DEF Writes
      <3> QED BY <1>0, <1>2, <2>4, <2>5, <3>1
    <2> QED BY <2>3, <2>6 DEF EntryOK
  <1> QED BY <1>1, <1>2 DEF EntryInv

(* Dedup() and the DELETE begin afresh.                                    *)
LEMMA BeginWriting ==
    ASSUME TypeOK, ShapeInv, JobInv, EntryInv, NEW p \in Procs,
           \/ DeleteChunks(p)
           \/ /\ Dedup(p) /\ chunks[Item(p)] = <<>>
              /\ GoOn(p, "insert") /\ spoilt' = Afresh(p)
    PROVE  EntryInv' /\ Move(p, "insert", job[p])
  <1> USE ConstantFacts DEF At
  <1>1. Item(p) \in Items /\ pc[p] \in {"dedup", "delete"}
    BY DEF ShapeInv, Jobs, Item, DeleteChunks, Dedup
  <1>2. Move(p, "insert", job[p])
    BY <1>1, GoOnMoves DEF DeleteChunks, Dedup, GoOn, JobInv, JobOK, PCs
  <1>3. chunks'[Item(p)] = <<>> /\ \A i \in Items \ {Item(p)} : chunks'[i] = chunks[i]
    BY <1>1 DEF DeleteChunks, Dedup, tables, ShapeInv
  <1>4. UNCHANGED <<fp, cursor>> /\ spoilt' = Afresh(p)
    BY DEF DeleteChunks, Dedup, tables
  <1> QED BY <1>1, <1>2, <1>3, <1>4, AfreshKeepsEntries

(* The fingerprint is written first; until the chunks are, the entry is in *)
(* the hands of its writer.                                                *)
LEMMA SetFingerprintKeeps ==
    ASSUME TypeOK, ShapeInv, JobInv, EntryInv, NEW p \in Procs, SetFingerprint(p)
    PROVE  EntryInv' /\ Move(p, "delete", job[p])
  <1> USE ConstantFacts DEF At
  <1>1. Item(p) \in Items /\ pc[p] = "setFp"
    BY DEF ShapeInv, Jobs, Item, SetFingerprint
  <1>2. Move(p, "delete", job[p])
    BY <1>1, GoOnMoves DEF SetFingerprint, JobInv, JobOK, PCs
  <1>3. /\ pc'[p] = "delete" /\ job'[p] = job[p]
        /\ \A q \in Procs \ {p} : pc'[q] = pc[q] /\ job'[q] = job[q]
    BY <1>2, MoveKeeps
  <1>4. ASSUME NEW i \in Items \ spoilt', i # Item(p)
        PROVE  EntryOK(i)'
    <2>1. i \notin spoilt
      BY <1>4 DEF SetFingerprint
    <2>2. UNCHANGED cursor /\ chunks'[i] = chunks[i] /\ fp'[i] = fp[i]
      BY <1>1, <1>4 DEF SetFingerprint, TypeOK
    <2> QED BY <1>1, <1>2, <1>4, <2>1, <2>2, OtherEntries
  <1>5. ASSUME NEW i \in Items \ spoilt', i = Item(p)
        PROVE  EntryOK(i)'
    <2>1. \A q \in Procs \ {p} : ~Writes(q, i)
      BY <1>5 DEF SetFingerprint, Meets
    <2>2. \A q \in Procs : Writes(q, i)' <=> q = p
      BY <1>3, <1>5, <2>1 DEF Writes, Item
    <2>3. \A q \in Procs : ~(Item(q)' = i /\ pc'[q] = "insert")
      BY <1>3, <2>2 DEF Writes
    <2> QED BY <2>2, <2>3 DEF EntryOK
  <1> QED BY <1>2, <1>4, <1>5 DEF EntryInv

(* One more chunk, and after the last one the entry is whole.              *)
LEMMA InsertChunkKeeps ==
    ASSUME TypeOK, ShapeInv, JobInv, EntryInv, NEW p \in Procs, InsertChunk(p)
    PROVE  EntryInv' /\ \E l, j : Move(p, l, j)
  <1> USE ConstantFacts DEF At
  <1>0. PICK i, v, k : i = Item(p) /\ v = job[p].ver /\ k = job[p].done + 1
    OBVIOUS
  <1>a. PICK j : j = [job[p] EXCEPT !.done = k]
    OBVIOUS
  <1>1. /\ i \in Items /\ pc[p] = "insert" /\ v \in Versions
        /\ job[p].done \in Nat /\ k \in 1 .. NChunks /\ job[p] \in Jobs
        /\ chunks[i] \in Seq(Chunks) /\ <<v, k>> \in Chunks
    <2>1. pc[p] = "insert" /\ job[p] \in Jobs /\ JobOK(pc[p], job[p])
      BY DEF InsertChunk, ShapeInv, JobInv
    <2>2. i \in Items /\ job[p].done \in 0 .. NChunks
      BY <1>0, <2>1 DEF Jobs, Item
    <2>3. v \in Versions /\ job[p].done < NChunks
      BY <1>0, <2>1 DEF JobOK
    <2>4. job[p].done \in Nat /\ k \in 1 .. NChunks
      BY <1>0, <2>2, <2>3
    <2>5. chunks[i] \in Seq(Chunks) /\ <<v, k>> \in Chunks
      BY <2>2, <2>3, <2>4 DEF ShapeInv, Chunks
    <2> QED BY <2>1, <2>2, <2>3, <2>4, <2>5
  <1>2. /\ job' = [job EXCEPT ![p] = j] /\ UNCHANGED <<fp, spoilt, cursor>>
        /\ chunks' = [chunks EXCEPT ![i] = Append(chunks[i], <<v, k>>)]
    BY <1>0, <1>a DEF InsertChunk, ShapeInv, Jobs
  <1>3. /\ j \in Jobs /\ j.done = k /\ j.ver = v /\ j.item = i
    BY <1>0, <1>1, <1>a DEF Jobs, Item
  <1>4. PICK l \in {"link", "insert"} :
            Goto(p, l) /\ (l = "link" <=> k = NChunks)
    BY <1>0 DEF InsertChunk
  <1>5. Move(p, l, j)
    BY <1>1, <1>2, <1>3, <1>4 DEF Move, Goto, PCs, JobOK
  <1>6. /\ pc'[p] = l /\ job'[p] = j
        /\ \A q \in Procs \ {p} : pc'[q] = pc[q] /\ job'[q] = job[q]
    BY <1>5, MoveKeeps
  <1>7. ASSUME NEW e \in Items \ spoilt', e # i
        PROVE  EntryOK(e)'
    <2>1. e \in Items \ spoilt /\ chunks'[e] = chunks[e] /\ fp'[e] = fp[e]
      BY <1>2, <1>7 DEF ShapeInv
    <2>2. j.item = job[p].item
      BY <1>0, <1>3 DEF Item
    <2> QED BY <1>0, <1>1, <1>2, <1>5, <1>7, <2>1, <2>2, OtherEntries
  <1>8. ASSUME i \notin spoilt'
        PROVE  EntryOK(i)'
    <2>1. EntryOK(i) /\ Writes(p, i)
      BY <1>0, <1>1, <1>2, <1>8 DEF EntryInv, Writes
    <2>2. \A q \in Procs \ {p} : ~Writes(q, i) /\ ~Writes(q, i)'
      BY <1>6, <2>1 DEF EntryOK, Writes, Item
    <2>3. chunks[i] = Part(v, job[p].done) /\ fp[i] <= v
      BY <1>0, <1>1, <2>1 DEF EntryOK
    <2>4. chunks'[i] = Part(v, k)
      <3>1. chunks'[i] = Append(Part(v, job[p].done), <<v, k>>)
        BY <1>1, <1>2, <2>3 DEF ShapeInv
      <3> QED BY <1>0, <1>1, <3>1 DEF Part
    <2>5. fp'[i] <= v
      BY <1>2, <2>3
    <2>6. Item(p)' = i
      BY <1>3, <1>6 DEF Item
    <2>7. CASE l = "insert"
      <3>1. \A q \in Procs : Writes(q, i)' <=> q = p
        BY <1>6, <2>2, <2>6, <2>7 DEF Writes
      <3>2. ASSUME NEW q \in Procs, Item(q)' = i, pc'[q] = "insert"
            PROVE  /\ chunks'[i] = Part(job'[q].ver, job'[q].done)
                   /\ fp'[i] <= job'[q].ver
        <4>1. q = p
          BY <3>1, <3>2 DEF Writes
        <4> QED BY <1>3, <1>6, <2>4, <2>5, <4>1
      <3> QED BY <3>1, <3>2 DEF EntryOK
    <2>8. CASE l = "link"
      <3>1. \A q \in Procs : ~Writes(q, i)'
        BY <1>6, <2>2, <2>8 DEF Writes
      <3>2. chunks'[i] = Full(v)
        BY <1>4, <2>4, <2>8 DEF Part, Full
      <3> QED BY <1>1, <2>5, <3>1, <3>2 DEF EntryOK, Writes
    <2> QED BY <1>4, <2>7, <2>8
  <1> QED BY <1>5, <1>7, <1>8 DEF EntryInv

(* The first statement of a prune.                                         *)
LEMMA PruneChunksKeeps ==
    ASSUME TypeOK, ShapeInv, JobInv, EntryInv, PruneChunks
    PROVE  EntryInv' /\ Move("pass", "pruneLinks", job["pass"])
  <1> USE ConstantFacts DEF At
  <1> DEFINE gone == Pruned \cup (StepItems \cap Aliased)
  <1>1. Move("pass", "pruneLinks", job["pass"])
    BY GoOnMoves DEF PruneChunks, JobInv, JobOK, PCs
  <1>2. /\ pc["pass"] = "pruneChunks" /\ pc'["pass"] = "pruneLinks"
        /\ pc'["upload"] = pc["upload"] /\ job'["upload"] = job["upload"]
    BY <1>1, MoveKeeps DEF PruneChunks
  <1>3. ASSUME NEW i \in Items \ spoilt'
        PROVE  EntryOK(i)'
    <2>1. /\ i \notin spoilt /\ (i \in gone => ~Writes("upload", i))
          /\ fp'[i] = fp[i] /\ chunks'[i] = IF i \in gone THEN <<>> ELSE chunks[i]
      BY <1>3 DEF PruneChunks
    <2>2. ~Writes("pass", i) /\ ~Writes("pass", i)'
      BY <1>2 DEF Writes
    <2>3. CASE i \in gone
      <3>1. \A q \in Procs : ~Writes(q, i)'
        BY <1>2, <2>1, <2>2, <2>3 DEF Writes, Item
      <3>2. i \in Pruned => Pruning(i)'
        BY <1>2 DEF PruneChunks, Pruning, Pruned, StepItems, cursor
      <3>3. i \in Aliased => Kind[i] = "photo"
        BY PlacesAssumption
      <3> QED BY <2>1, <2>3, <3>1, <3>2, <3>3 DEF EntryOK, Writes
    <2>4. CASE i \notin gone
      <3>1. ~Pruning(i)
        BY <1>2 DEF Pruning
      <3> QED BY <1>2, <2>1, <2>2, <2>4, <3>1, FrameEntry DEF EntryInv
    <2> QED BY <2>3, <2>4
  <1> QED BY <1>1, <1>3 DEF EntryInv

(* The last statement of a prune.                                          *)
LEMMA PruneFpsKeeps ==
    ASSUME TypeOK, ShapeInv, JobInv, EntryInv, PruneFps
    PROVE  EntryInv' /\ \E l : Move("pass", l, job["pass"])
  <1> USE ConstantFacts DEF At
  <1>0. PICK l \in {"list", "idle"} : Goto("pass", l)
    BY DEF PruneFps, Advance
  <1>1. Move("pass", l, job["pass"])
    BY <1>0, GoOnMoves DEF PruneFps, JobInv, JobOK, PCs
  <1>2. /\ pc["pass"] = "pruneFps" /\ pc'["pass"] = l
        /\ pc'["upload"] = pc["upload"] /\ job'["upload"] = job["upload"]
    BY <1>1, MoveKeeps DEF PruneFps
  <1>3. ASSUME NEW i \in Items \ spoilt'
        PROVE  EntryOK(i)'
    <2>1. /\ EntryOK(i) /\ chunks'[i] = chunks[i]
          /\ fp'[i] = IF i \in Pruned THEN None ELSE fp[i]
      BY <1>3 DEF PruneFps, EntryInv
    <2>2. ~Writes("pass", i) /\ ~Writes("pass", i)'
      BY <1>0, <1>2 DEF Writes
    <2>3. CASE i \notin Pruned
      <3>1. ~Pruning(i)
        BY <2>3 DEF Pruning
      <3> QED BY <1>2, <2>1, <2>2, <2>3, <3>1, FrameEntry
    <2>4. CASE i \in Pruned
      <3>1. fp'[i] = None /\ \A v \in Versions : None <= v
        BY <2>1, <2>4 DEF None, Versions
      <3>2. \A q \in Procs : Writes(q, i)' <=> Writes(q, i)
        BY <1>2, <2>2 DEF Writes, Item
      <3>3. ASSUME NEW q \in Procs, Item(q)' = i, pc'[q] = "insert"
            PROVE  /\ chunks'[i] = Part(job'[q].ver, job'[q].done)
                   /\ fp'[i] <= job'[q].ver
        <4>1. q = "upload"
          BY <2>2, <3>3 DEF Writes
        <4>2. job[q].ver \in Versions
          BY <1>2, <3>3, <4>1 DEF JobInv, JobOK
        <4> QED BY <1>2, <2>1, <3>1, <3>3, <4>1, <4>2 DEF EntryOK, Item
      <3>4. (\A q \in Procs : ~Writes(q, i)') =>
                \/ chunks'[i] = <<>>
                \/ \E v \in Versions : chunks'[i] = Full(v)
        BY <2>1, <3>2 DEF EntryOK
      <3> QED BY <2>1, <3>1, <3>2, <3>3, <3>4 DEF EntryOK
    <2> QED BY <2>3, <2>4
  <1> QED BY <1>1, <1>3 DEF EntryInv

(* clear() spoils what is being written, and the entries it leaves a       *)
(* fingerprint of.                                                         *)
LEMMA ClearKeeps ==
    ASSUME TypeOK, ShapeInv, JobInv, EntryInv, Clear
    PROVE  EntryInv'
  <1>1. ASSUME NEW i \in Items \ spoilt'
        PROVE  EntryOK(i)'
    <2>1. /\ \A p \in Procs : ~Writes(p, i)
          /\ Kind[i] = "file" => fp[i] = None
          /\ chunks'[i] = <<>> /\ fp'[i] = fp[i] /\ UNCHANGED <<pc, job>>
      BY <1>1 DEF Clear
    <2>2. \A p \in Procs : ~Writes(p, i)'
      BY <2>1 DEF Writes, Item
    <2> QED BY <2>1, <2>2 DEF EntryOK, Writes
  <1> QED BY <1>1 DEF EntryInv

(* A crash spoils what both processes were writing or pruning.             *)
LEMMA CrashKeeps ==
    ASSUME TypeOK, ShapeInv, JobInv, EntryInv, Crash
    PROVE  EntryInv'
  <1>1. ASSUME NEW i \in Items \ spoilt'
        PROVE  EntryOK(i)'
    <2>1. i \notin spoilt /\ i \notin HalfDone("pass") /\ i \notin HalfDone("upload")
      BY <1>1 DEF Crash
    <2>2. \A q \in Procs : ~Writes(q, i) /\ ~Writes(q, i)'
      BY <2>1, ConstantFacts DEF Crash, Writes, HalfDone
    <2>3. ~Pruning(i)
      BY <2>1 DEF HalfDone, Pruning, Pruned
    <2>4. chunks'[i] = chunks[i] /\ fp'[i] = fp[i]
      BY DEF Crash, tables
    <2> QED BY <2>1, <2>2, <2>3, <2>4, FrameEntry DEF EntryInv
  <1> QED BY <1>1 DEF EntryInv

(* A step of the indexer is quiet, or one of those that write or spoil.    *)
LEMMA StepKinds ==
    ASSUME TypeOK, ShapeInv, JobInv, Next
    PROVE  \/ \E p \in Procs : \/ QuietMove(p) \/ SetFingerprint(p)
                               \/ DeleteChunks(p) \/ InsertChunk(p)
                               \/ /\ Dedup(p) /\ chunks[Item(p)] = <<>>
                                  /\ GoOn(p, "insert") /\ spoilt' = Afresh(p)
           \/ PruneChunks \/ PruneFps \/ Clear \/ Crash
           \/ \E i \in Items : WorldChanges(i)
  <1> USE ConstantFacts
  <1>1. ASSUME NEW p \in Procs, Index(p)
        PROVE  \/ QuietMove(p) \/ SetFingerprint(p)
               \/ DeleteChunks(p) \/ InsertChunk(p)
               \/ /\ Dedup(p) /\ chunks[Item(p)] = <<>>
                  /\ GoOn(p, "insert") /\ spoilt' = Afresh(p)
    <2>1. CASE Dedup(p)
      BY <2>1, LookQuiet DEF Dedup
    <2>2. CASE \/ RagInit(p) \/ ReadContent(p) \/ NoContent(p)
               \/ GetFingerprint(p) \/ Verify(p) \/ LinkAsset(p)
      BY <2>2, LookQuiet
    <2> QED BY <1>1, <2>1, <2>2 DEF Index
  <1>2. CASE PassStep
    BY <1>1, <1>2, PassQuiet, LookQuiet, PruneLinksQuiet DEF PassStep
  <1>3. CASE UploadStep
    BY <1>1, <1>3, LookQuiet DEF UploadStep
  <1>4. CASE ListPartly
    BY <1>4, PassQuiet
  <1>5. ASSUME NEW p \in Procs, InitFails(p) \/ NoContent(p) \/ Throws(p)
        PROVE  QuietMove(p)
    BY <1>5, LookQuiet, ThrowsQuiet
  <1>6. ASSUME NEW i \in Items, BeginUpload(i)
        PROVE  QuietMove("upload")
    BY <1>6, LookQuiet
  <1> QED BY <1>2, <1>3, <1>4, <1>5, <1>6 DEF Next

(* Every step keeps the entries.                                           *)
LEMMA EntryStep ==
    ASSUME TypeOK, ShapeInv, JobInv, EntryInv, [Next]_vars
    PROVE  EntryInv'
  <1> USE ConstantFacts
  <1>1. ASSUME UNCHANGED <<tables, cursor, pc, job, spoilt>>
        PROVE  EntryInv'
    <2>1. ASSUME NEW i \in Items \ spoilt'
          PROVE  EntryOK(i)'
      BY <1>1, <2>1, FrameEntry
      DEF EntryInv, tables, cursor, Pruning, Pruned, StepItems
    <2> QED BY <2>1 DEF EntryInv
  <1>2. CASE UNCHANGED vars
    BY <1>1, <1>2 DEF vars
  <1>3. ASSUME NEW i \in Items, WorldChanges(i)
        PROVE  EntryInv'
    BY <1>1, <1>3 DEF WorldChanges
  <1> QED BY <1>2, <1>3, StepKinds, QuietKeepsEntries, SetFingerprintKeeps,
             BeginWriting, InsertChunkKeeps, PruneChunksKeeps, PruneFpsKeeps,
             ClearKeeps, CrashKeeps

-----------------------------------------------------------------------------
(* What TypeOK and ShapeInv say of pc and job, kept by every step.         *)
LEMMA JobStep ==
    ASSUME TypeOK, ShapeInv, JobInv, EntryInv, [Next]_vars
    PROVE  pc' \in [Procs -> PCs] /\ job' \in [Procs -> Jobs] /\ JobInv'
  <1> USE ConstantFacts
  <1>1. CASE UNCHANGED <<pc, job>>
    BY <1>1 DEF TypeOK, ShapeInv, JobInv
  <1>2. ASSUME NEW p \in Procs, NEW l, NEW j, Move(p, l, j)
        PROVE  pc' \in [Procs -> PCs] /\ job' \in [Procs -> Jobs] /\ JobInv'
    BY <1>2, MoveKeeps
  <1>3. CASE Crash
    <2>1. /\ pc' = [p \in Procs |-> "idle"] /\ job' = [p \in Procs |-> NoJob]
      BY <1>3 DEF Crash
    <2>2. "idle" \in PCs /\ JobOK("idle", NoJob)
      BY DEF PCs, JobOK
    <2> QED BY <2>1, <2>2 DEF JobInv
  <1>4. ASSUME NEW p \in Procs, QuietMove(p)
        PROVE  \E l, j : Move(p, l, j)
    BY <1>4 DEF QuietMove
  <1>5. Clear \/ (\E i \in Items : WorldChanges(i)) \/ UNCHANGED vars =>
            UNCHANGED <<pc, job>>
    BY DEF Clear, WorldChanges, vars
  <1> QED BY <1>1, <1>2, <1>3, <1>4, <1>5, StepKinds, SetFingerprintKeeps,
             BeginWriting, InsertChunkKeeps, PruneChunksKeeps, PruneFpsKeeps

(* The other variables.                                                    *)
WorldType ==
    /\ version \in [Items -> Versions] /\ here \subseteq Items
    /\ events \in 0 .. MaxEvents /\ \A i \in Items : version[i] <= events + 1

TablesType ==
    /\ chunks \in [Items -> Seq(Chunks)] /\ links \subseteq Items
    /\ fp \in [Items -> Versions \cup {None}] /\ spoilt \subseteq Items

CursorType ==
    /\ isRunning \in BOOLEAN /\ initialized \in BOOLEAN
    /\ step \in 1 .. Len(Steps)
    /\ rest \subseteq DOMAIN scan /\ DOMAIN scan \subseteq StepItems
    /\ \A i \in DOMAIN scan : scan[i] \in Versions

(* The invariants give these types.                                        *)
LEMMA TypesOf ==
    ASSUME TypeOK, ShapeInv
    PROVE  /\ WorldType /\ TablesType /\ CursorType
           /\ \A p \in Procs : /\ Item(p) \in Items
                               /\ job[p].print \in Versions \cup {None}
  <1>1. WorldType /\ TablesType /\ CursorType
    BY DEF TypeOK, ShapeInv, WorldType, TablesType, CursorType
  <1> QED BY <1>1 DEF ShapeInv, Jobs, Item

(* They follow from these types.                                           *)
LEMMA TypesSuffice ==
    WorldType /\ TablesType /\ CursorType
    /\ pc \in [Procs -> PCs] /\ job \in [Procs -> Jobs] => TypeOK /\ ShapeInv
  <1> SUFFICES ASSUME WorldType, TablesType, CursorType,
                      pc \in [Procs -> PCs], job \in [Procs -> Jobs]
               PROVE  TypeOK /\ ShapeInv
    OBVIOUS
  <1>1. ASSUME NEW i \in Items
        PROVE  Range(chunks[i]) \subseteq Versions \X (1 .. NChunks)
    <2>1. chunks[i] \in Seq(Chunks)
      BY DEF TablesType
    <2>2. \A k \in DOMAIN chunks[i] : chunks[i][k] \in Chunks
      BY <2>1
    <2> QED BY <2>2 DEF Range, Chunks
  <1>2. \A p \in Procs : /\ job[p].item \in Items
                         /\ job[p].ver \in Versions \cup {None}
                         /\ job[p].print \in Versions \cup {None}
                         /\ job[p].done \in 0 .. NChunks
    BY DEF Jobs
  <1>3. ShapeInv
    BY DEF ShapeInv, WorldType, TablesType, CursorType
  <1>4. TypeOK
    BY <1>1, <1>2 DEF TypeOK, WorldType, TablesType, CursorType
  <1> QED BY <1>3, <1>4

(* The world changes from outside, and each time is counted.               *)
LEMMA WorldStep ==
    ASSUME TypeOK, ShapeInv, [Next]_vars
    PROVE  WorldType'
  <1> USE ConstantFacts DEF world
  <1>0. WorldType
    BY TypesOf
  <1>1. CASE UNCHANGED world /\ (UNCHANGED events \/ \E e \in Events : Happens(e))
    <2>1. events' \in 0 .. MaxEvents /\ events <= events' /\ events \in Nat
      BY <1>0, <1>1 DEF Happens, WorldType
    <2>2. \A i \in Items : version[i] \in Nat
      BY <1>0 DEF WorldType
    <2> QED BY <1>0, <1>1, <2>1, <2>2 DEF WorldType
  <1>2. ASSUME NEW i \in Items, WorldChanges(i)
        PROVE  WorldType'
    <2>1. /\ events' = events + 1 /\ events' \in 0 .. MaxEvents /\ events \in Nat
          /\ here' \subseteq Items
      BY <1>0, <1>2 DEF WorldChanges, Happens, WorldType
    <2>2. \A e \in Items : version[e] \in Nat /\ version[e] <= events + 1
                           /\ version[e] >= 1
      BY <1>0 DEF WorldType, Versions
    <2>3. version' \in [Items -> Nat] /\ \A e \in Items : version'[e] <= events' + 1
                                                          /\ version'[e] >= 1
      BY <1>0, <1>2, <2>1, <2>2 DEF WorldChanges, WorldType
    <2>4. \A e \in Items : version'[e] \in Versions
      BY <2>1, <2>3 DEF Versions
    <2> QED BY <2>1, <2>3, <2>4 DEF WorldType
  <1>3. \/ UNCHANGED world /\ (UNCHANGED events \/ \E e \in Events : Happens(e))
        \/ \E i \in Items : WorldChanges(i)
    <2> DEFINE Keeps == /\ UNCHANGED world
                        /\ UNCHANGED events \/ \E e \in Events : Happens(e)
    <2>1. ASSUME NEW p \in Procs, Index(p)
          PROVE  Keeps
      BY <2>1 DEF Index, RagInit, ReadContent, NoContent, GetFingerprint, Verify,
         Dedup, SetFingerprint, DeleteChunks, InsertChunk, LinkAsset, Happens
    <2>2. CASE PassStep
      BY <2>1, <2>2 DEF PassStep, BeginPass, List, Listed, NextItem,
         CheckFingerprint, CheckChunks, EndStep, PruneChunks, PruneLinks, PruneFps
    <2>3. CASE UploadStep
      BY <2>1, <2>3 DEF UploadStep, FileFingerprint
    <2>4. CASE ListPartly \/ Clear \/ Crash
      BY <2>4 DEF ListPartly, Listed, Clear, Crash, Happens
    <2>5. ASSUME NEW p \in Procs, InitFails(p) \/ NoContent(p) \/ Throws(p)
          PROVE  Keeps
      BY <2>5 DEF InitFails, NoContent, Throws, Happens
    <2>6. ASSUME NEW i \in Items, BeginUpload(i)
          PROVE  Keeps
      BY <2>6 DEF BeginUpload, Happens
    <2>7. CASE UNCHANGED vars
      BY <2>7 DEF vars
    <2> QED BY <2>2, <2>3, <2>4, <2>5, <2>6, <2>7 DEF Next
  <1> QED BY <1>1, <1>2, <1>3

(* The tables, and what the history says of them.                          *)
LEMMA TablesStep ==
    ASSUME TypeOK, ShapeInv, JobInv, [Next]_vars
    PROVE  TablesType'
  <1> USE ConstantFacts DEF tables, At
  <1>0. TablesType /\ CursorType /\ \A p \in Procs : /\ Item(p) \in Items
                          /\ job[p].print \in Versions \cup {None}
    BY TypesOf
  <1>1. <<>> \in Seq(Chunks)
    BY EmptySeq
  <1>2. \A p \in Procs : HalfDone(p) \subseteq Items /\ Afresh(p) \subseteq Items
    BY <1>0 DEF HalfDone, Afresh, TablesType, StepItems
  <1>3. ASSUME UNCHANGED <<chunks, fp>>, links' \subseteq Items, spoilt' \subseteq Items
        PROVE  TablesType'
    BY <1>0, <1>3 DEF TablesType
  <1>4. ASSUME NEW p \in Procs, Index(p)
        PROVE  TablesType'
    <2>1. CASE SetFingerprint(p)
      BY <1>0, <2>1 DEF SetFingerprint, TablesType
    <2>2. CASE DeleteChunks(p)
      BY <1>0, <1>1, <1>2, <2>2 DEF DeleteChunks, TablesType
    <2>3. CASE InsertChunk(p)
      <3> DEFINE c == <<job[p].ver, job[p].done + 1>>
      <3>1. c \in Chunks
        BY SMTT(30), <2>3 DEF InsertChunk, JobInv, JobOK, ShapeInv, Jobs, Chunks
      <3>2. /\ chunks' = [chunks EXCEPT ![Item(p)] = Append(chunks[Item(p)], c)]
            /\ UNCHANGED <<fp, links, spoilt>>
        BY <2>3 DEF InsertChunk
      <3> HIDE DEF c
      <3>3. Append(chunks[Item(p)], c) \in Seq(Chunks)
        BY <1>0, <3>1, AppendProperties DEF TablesType
      <3> QED BY <1>0, <3>2, <3>3 DEF TablesType
    <2>4. CASE Dedup(p)
      BY <1>0, <1>2, <1>3, <2>4 DEF Dedup, TablesType
    <2>5. CASE LinkAsset(p)
      BY <1>0, <1>3, <2>5 DEF LinkAsset, TablesType
    <2>6. CASE \/ RagInit(p) \/ ReadContent(p) \/ NoContent(p)
               \/ GetFingerprint(p) \/ Verify(p)
      BY <1>0, <1>3, <2>6 DEF RagInit, ReadContent, NoContent, GetFingerprint,
         Verify, TablesType
    <2> QED BY <1>4, <2>1, <2>2, <2>3, <2>4, <2>5, <2>6 DEF Index
  <1>5. CASE PruneChunks
    <2>1. chunks' \in [Items -> Seq(Chunks)]
      BY <1>0, <1>1, <1>5 DEF PruneChunks, TablesType
    <2>2. spoilt' \subseteq Items
      BY <1>0, <1>5 DEF PruneChunks, TablesType, Pruned, StepItems
    <2> QED BY <1>0, <1>5, <2>1, <2>2 DEF PruneChunks, TablesType
  <1>6. CASE PruneLinks
    BY <1>0, <1>3, <1>6 DEF PruneLinks, TablesType
  <1>7. CASE PruneFps
    <2>1. fp' \in [Items -> Versions \cup {None}]
      BY <1>0, <1>7 DEF PruneFps, TablesType
    <2> QED BY <1>0, <1>7, <2>1 DEF PruneFps, TablesType
  <1>8. CASE Clear
    BY <1>0, <1>1, <1>8 DEF Clear, TablesType
  <1>9. CASE Crash
    BY <1>0, <1>2, <1>3, <1>9 DEF Crash, TablesType
  <1>10. ASSUME NEW p \in Procs, Throws(p)
         PROVE  TablesType'
    BY <1>0, <1>2, <1>3, <1>10 DEF Throws, TablesType
  <1>11. CASE \/ BeginPass \/ List \/ ListPartly \/ NextItem \/ CheckFingerprint
              \/ CheckChunks \/ EndStep \/ FileFingerprint
    BY <1>0, <1>3, <1>11 DEF BeginPass, List, ListPartly, Listed, NextItem,
       CheckFingerprint, CheckChunks, EndStep, FileFingerprint, TablesType
  <1>12. ASSUME NEW p \in Procs, InitFails(p) \/ NoContent(p)
         PROVE  TablesType'
    BY <1>0, <1>3, <1>12 DEF InitFails, NoContent, TablesType
  <1>13. ASSUME NEW i \in Items, BeginUpload(i) \/ WorldChanges(i)
         PROVE  TablesType'
    BY <1>0, <1>3, <1>13 DEF BeginUpload, WorldChanges, TablesType
  <1>14. CASE UNCHANGED vars
    BY <1>0, <1>3, <1>14 DEF vars, TablesType
  <1> QED BY <1>4, <1>5, <1>6, <1>7, <1>8, <1>9, <1>10, <1>11, <1>12, <1>13,
             <1>14 DEF Next, PassStep, UploadStep

(* The flags, and what the step of the pass has listed.                    *)
LEMMA CursorStep ==
    ASSUME TypeOK, ShapeInv, IdleInv, JobInv, [Next]_vars
    PROVE  CursorType'
  <1> USE ConstantFacts DEF cursor, flags
  <1>0. CursorType /\ WorldType
    BY TypesOf
  <1>1. ASSUME UNCHANGED cursor, isRunning' \in BOOLEAN, initialized' \in BOOLEAN
        PROVE  CursorType'
    BY <1>0, <1>1 DEF CursorType, StepItems
  <1>2. ASSUME step' \in 1 .. Len(Steps), scan' = << >>, rest' = {},
               isRunning' \in BOOLEAN, initialized' \in BOOLEAN
        PROVE  CursorType'
    BY <1>2 DEF CursorType
  <1>3. ASSUME Advance, UNCHANGED initialized
        PROVE  CursorType'
    <2>1. step' \in 1 .. Len(Steps)
      <3>1. step \in 1 .. Len(Steps) /\ Len(Steps) = 5
        BY <1>0 DEF CursorType
      <3>2. (step < Len(Steps) /\ step' = step + 1) \/ step' = step
        BY <1>3 DEF Advance
      <3> QED BY <3>1, <3>2
    <2>2. isRunning' \in BOOLEAN
      BY <1>0, <1>3, Zenon DEF Advance, CursorType
    <2>3. scan' = << >> /\ rest' = {}
      BY <1>3 DEF Advance
    <2>4. initialized' \in BOOLEAN
      BY <1>0, <1>3 DEF CursorType
    <2> QED BY <1>2, <2>1, <2>2, <2>3, <2>4
  <1>4. ASSUME NEW p \in Procs, Index(p)
        PROVE  CursorType'
    <2>1. CASE RagInit(p)
      <3>1. UNCHANGED cursor \/ (p = "pass" /\ step' = 1 /\ UNCHANGED <<scan, rest>>)
        BY <2>1 DEF RagInit
      <3>2. CASE UNCHANGED cursor
        BY <1>0, <1>1, <2>1, <3>2 DEF RagInit, CursorType
      <3>3. CASE p = "pass" /\ step' = 1 /\ UNCHANGED <<scan, rest>>
        <4>1. DOMAIN scan' = {} /\ rest' = {} /\ step' \in 1 .. Len(Steps)
          BY <1>0, <2>1, <3>3 DEF RagInit, At, IdleInv, CursorType
        <4>2. isRunning' \in BOOLEAN /\ initialized' \in BOOLEAN
          BY <1>0, <2>1 DEF RagInit, CursorType
        <4> QED BY <4>1, <4>2 DEF CursorType
      <3> QED BY <3>1, <3>2, <3>3
    <2>2. CASE \/ ReadContent(p) \/ NoContent(p) \/ GetFingerprint(p)
               \/ Verify(p) \/ Dedup(p) \/ SetFingerprint(p) \/ DeleteChunks(p)
               \/ InsertChunk(p) \/ LinkAsset(p)
      BY <1>0, <1>1, <2>2 DEF ReadContent, NoContent, GetFingerprint, Verify,
         Dedup, SetFingerprint, DeleteChunks, InsertChunk, LinkAsset, CursorType
    <2> QED BY <1>4, <2>1, <2>2 DEF Index
  <1>5. ASSUME NEW S, Listed(S), S \subseteq Found
        PROVE  CursorType'
    <2>1. S \subseteq StepItems /\ S \subseteq Items
      BY <1>5 DEF Found, StepItems
    <2>2. scan' = [i \in S |-> version[i]] /\ rest' = S /\ UNCHANGED <<step, flags>>
      BY <1>5 DEF Listed
    <2>3. DOMAIN scan' = S /\ \A i \in S : scan'[i] \in Versions
      BY <1>0, <2>1, <2>2 DEF WorldType
    <2> QED BY <1>0, <2>1, <2>2, <2>3 DEF CursorType, StepItems
  <1>6. CASE List \/ ListPartly
    BY <1>5, <1>6 DEF List, ListPartly
  <1>7. CASE NextItem
    BY <1>0, <1>7 DEF NextItem, CursorType, StepItems
  <1>8. CASE EndStep
    BY <1>0, <1>1, <1>3, <1>8 DEF EndStep, CursorType
  <1>9. CASE PruneFps
    BY <1>3, <1>9 DEF PruneFps
  <1>10. CASE BeginPass \/ CheckFingerprint \/ CheckChunks \/ PruneChunks
              \/ PruneLinks \/ FileFingerprint \/ Clear
    BY <1>0, <1>1, <1>10 DEF BeginPass, CheckFingerprint, CheckChunks,
       PruneChunks, PruneLinks, FileFingerprint, Clear, CursorType
  <1>11. ASSUME NEW p \in Procs, Throws(p)
         PROVE  CursorType'
    <2>1. UNCHANGED initialized /\ (Advance \/ UNCHANGED <<isRunning, cursor>>)
      BY <1>11 DEF Throws
    <2>2. CASE UNCHANGED <<isRunning, cursor>>
      <3>1. isRunning' \in BOOLEAN /\ initialized' \in BOOLEAN
        BY <1>0, <2>1, <2>2 DEF CursorType
      <3> QED BY <1>1, <2>2, <3>1
    <2> QED BY <1>3, <2>1, <2>2
  <1>12. CASE Crash
    <2>1. step' \in 1 .. Len(Steps) /\ scan' = << >> /\ rest' = {}
      BY <1>12 DEF Crash
    <2>2. isRunning' \in BOOLEAN /\ initialized' \in BOOLEAN
      BY <1>12, Zenon DEF Crash
    <2> QED BY <1>2, <2>1, <2>2
  <1>13. ASSUME NEW p \in Procs, InitFails(p) \/ NoContent(p)
         PROVE  CursorType'
    BY <1>0, <1>1, <1>13 DEF InitFails, NoContent, CursorType
  <1>14. ASSUME NEW i \in Items, BeginUpload(i) \/ WorldChanges(i)
         PROVE  CursorType'
    BY <1>0, <1>1, <1>14 DEF BeginUpload, WorldChanges, CursorType
  <1>15. CASE UNCHANGED vars
    BY <1>0, <1>1, <1>15 DEF vars, CursorType
  <1> QED BY <1>4, <1>6, <1>7, <1>8, <1>9, <1>10, <1>11, <1>12, <1>13, <1>14,
             <1>15 DEF Next, PassStep, UploadStep

(* Only the end of a pass leads to idle, and it drops the list.            *)
LEMMA IdleStep ==
    ASSUME TypeOK, ShapeInv, IdleInv, JobInv, [Next]_vars
    PROVE  IdleInv'
  <1> USE ConstantFacts DEF cursor, At
  <1>0. pc \in [Procs -> PCs]
    BY DEF TypeOK
  <1>1. ASSUME UNCHANGED scan, NEW p \in Procs, NEW l, Goto(p, l),
               p = "pass" => l \notin {"idle", "init"}
        PROVE  IdleInv'
    BY <1>0, <1>1 DEF Goto, IdleInv
  <1>2. ASSUME UNCHANGED scan, NEW p \in Procs, NEW l, Goto(p, l),
               pc["pass"] \in {"idle", "init"}
        PROVE  IdleInv'
    BY <1>0, <1>2 DEF Goto, IdleInv
  <1>3. CASE scan' = << >>
    BY <1>3 DEF IdleInv
  <1>4. ASSUME UNCHANGED scan, NEW p \in Procs, Leave(p)
        PROVE  IdleInv'
    BY <1>1, <1>4 DEF Leave
  <1>5. ASSUME NEW p \in Procs, Index(p)
        PROVE  IdleInv'
    <2>1. UNCHANGED scan
      BY <1>5 DEF Index, RagInit, ReadContent, NoContent, GetFingerprint, Verify,
         Dedup, SetFingerprint, DeleteChunks, InsertChunk, LinkAsset
    <2>2. \/ Leave(p)
          \/ \E l \in PCs \ {"idle", "init"} : Goto(p, l)
      BY <1>5 DEF Index, RagInit, ReadContent, NoContent, GetFingerprint, Verify,
         Dedup, SetFingerprint, DeleteChunks, InsertChunk, LinkAsset, Unchanged,
         GoOn, PCs
    <2> QED BY <1>1, <1>4, <2>1, <2>2
  <1>6. CASE BeginPass
    BY <1>2, <1>6 DEF BeginPass
  <1>7. CASE List \/ ListPartly
    <2>1. Goto("pass", "next")
      BY <1>7 DEF List, ListPartly, Listed
    <2> QED BY <1>0, <2>1 DEF Goto, IdleInv
  <1>8. CASE NextItem
    <2>1. UNCHANGED scan /\ \E l \in {"check", "has", "dedup", "getFp"} : Goto("pass", l)
      BY <1>8 DEF NextItem, IndexFrom
    <2> QED BY <1>1, <2>1
  <1>9. CASE CheckFingerprint \/ CheckChunks
    BY <1>1, <1>4, <1>9 DEF CheckFingerprint, CheckChunks, GoOn
  <1>10. CASE EndStep \/ PruneFps
    BY <1>1, <1>3, <1>10 DEF EndStep, PruneFps, Advance
  <1>11. CASE PruneChunks \/ PruneLinks
    BY <1>1, <1>11 DEF PruneChunks, PruneLinks
  <1>12. CASE FileFingerprint
    BY <1>1, <1>12 DEF FileFingerprint
  <1>13. ASSUME NEW p \in Procs, Throws(p)
         PROVE  IdleInv'
    BY <1>3, <1>4, <1>13 DEF Throws, Advance
  <1>14. ASSUME NEW p \in Procs, InitFails(p) \/ NoContent(p)
         PROVE  IdleInv'
    <2>1. CASE NoContent(p)
      BY <1>4, <2>1 DEF NoContent
    <2>2. CASE InitFails(p) /\ p = "pass"
      BY <1>2, <2>2 DEF InitFails
    <2>3. CASE InitFails(p) /\ p # "pass"
      BY <1>1, <2>3 DEF InitFails
    <2> QED BY <1>14, <2>1, <2>2, <2>3
  <1>15. ASSUME NEW i \in Items, BeginUpload(i)
         PROVE  IdleInv'
    BY <1>1, <1>15 DEF BeginUpload
  <1>16. CASE Crash
    BY <1>3, <1>16 DEF Crash
  <1>17. CASE Clear \/ (\E i \in Items : WorldChanges(i)) \/ UNCHANGED vars
    BY <1>17 DEF Clear, WorldChanges, vars, IdleInv
  <1> QED BY <1>5, <1>6, <1>7, <1>8, <1>9, <1>10, <1>11, <1>12, <1>13, <1>14,
             <1>15, <1>16, <1>17 DEF Next, PassStep, UploadStep

-----------------------------------------------------------------------------
(* The inductive invariant holds at the start.                             *)
LEMMA InitIInv ==
    ASSUME Init
    PROVE  IInv
  <1> USE ConstantFacts DEF Init
  <1>1. WorldType
    BY DEF WorldType
  <1>2. TablesType
    <2>1. <<>> \in Seq(Chunks)
      BY EmptySeq
    <2>2. chunks \in [Items -> Seq(Chunks)]
      BY <2>1
    <2> QED BY <2>2 DEF TablesType
  <1>3. CursorType /\ IdleInv
    <2>1. step \in 1 .. Len(Steps) /\ DOMAIN scan = {}
      OBVIOUS
    <2> QED BY <2>1 DEF CursorType, IdleInv
  <1>4. pc \in [Procs -> PCs] /\ job \in [Procs -> Jobs]
    BY DEF PCs
  <1>5. JobInv
    BY DEF JobInv, JobOK
  <1>6. EntryInv
    BY DEF EntryInv, EntryOK, Writes
  <1> QED BY <1>1, <1>2, <1>3, <1>4, <1>5, <1>6, TypesSuffice DEF IInv

(* Every step keeps it.                                                    *)
LEMMA NextIInv ==
    ASSUME IInv, [Next]_vars
    PROVE  IInv'
  <1>1. WorldType' /\ TablesType' /\ CursorType'
    BY WorldStep, TablesStep, CursorStep DEF IInv
  <1>2. pc' \in [Procs -> PCs] /\ job' \in [Procs -> Jobs] /\ JobInv'
    BY JobStep DEF IInv
  <1>3. (WorldType /\ TablesType /\ CursorType /\ pc \in [Procs -> PCs]
         /\ job \in [Procs -> Jobs] => TypeOK /\ ShapeInv)'
    BY TypesSuffice, PTL
  <1>4. EntryInv' /\ IdleInv'
    BY EntryStep, IdleStep DEF IInv
  <1> QED BY <1>1, <1>2, <1>3, <1>4 DEF IInv

(* It holds in every state of every behaviour.                             *)
LEMMA IInvHolds == Spec => []IInv
  BY InitIInv, NextIInv, PTL DEF Spec

(* The variables keep their types: no chunk of a version that never was is *)
(* stored, and what a pass has left to do is part of what it has listed.   *)
THEOREM TypeCorrect == Spec => []TypeOK
  <1>1. IInv => TypeOK
    BY DEF IInv
  <1> QED BY IInvHolds, <1>1, PTL

(* An entry that no crash, error, clear() or second writer has spoilt is   *)
(* whole: its fingerprint promises all the chunks of a text as new, in     *)
(* whatever order passes, uploads, edits and prunes interleave.            *)
THEOREM WholeEntries == Spec => []EntryIsWhole
  <1>1. IInv => EntryIsWhole
    <2>1. ASSUME IInv, NEW i \in Items \ spoilt,
                 \A p \in Procs : ~Writes(p, i), ~Pruning(i)
          PROVE  \/ chunks[i] = <<>> /\ (Kind[i] = "file" => fp[i] = None)
                 \/ \E v \in Versions : v >= fp[i] /\ chunks[i] = Full(v)
      <3>1. EntryOK(i) /\ fp[i] \in Nat
        BY <2>1, ConstantFacts DEF IInv, EntryInv, TypeOK
      <3>2. \A v \in Versions : fp[i] <= v => v >= fp[i]
        BY <3>1, ConstantFacts
      <3> QED BY <2>1, <3>1, <3>2 DEF EntryOK
    <2> QED BY <2>1 DEF EntryIsWhole, Pruning
  <1> QED BY IInvHolds, <1>1, PTL
=============================================================================
