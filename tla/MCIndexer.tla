----------------------------- MODULE MCIndexer -----------------------------
(* Instances of Indexer for TLC: two files that passes find and one that   *)
(* they do not, a contact, an event and a photo; and two of these. No mail: *)
(* it is indexed as a photo is, and never pruned.                          *)
EXTENDS Indexer, TLC

CONSTANTS f, g, u, c, e, ph

All == {f, g, u, c, e, ph}
KindOf == (f :> "file") @@ (g :> "file") @@ (u :> "file")
          @@ (c :> "contact") @@ (e :> "calendar") @@ (ph :> "photo")
FileAndContact == {f, c}
KindOfTwo == [i \in FileAndContact |-> KindOf[i]]
Faults == {"edit", "remove", "return", "upload", "fault", "crash", "clear"}
=============================================================================
