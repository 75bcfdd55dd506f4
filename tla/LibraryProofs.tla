---------------------------- MODULE LibraryProofs ----------------------------
(***************************************************************************)
(* The catalog stays consistent, originals are kept, no points stay of a   *)
(* removed document, no registered book is left without its job and what   *)
(* the page shows is so, for any paths, contents, scanners, disks and      *)
(* bounds.                                                                 *)
(***************************************************************************)
EXTENDS Library, TLAPS, FiniteSetTheorems

-----------------------------------------------------------------------------
(* Types.                                                                  *)

Record == [step : {"idle", "walk", "hash", "ingest", "register", "state", "enqueue", "ledger"},
           todo : SUBSET Path, list : SUBSET Path, budget : Nat, path : Maybe(Path),
           sha : Maybe(Content), same : BOOLEAN, copied : BOOLEAN, rev : Maybe(Rev),
           new : BOOLEAN]

\* With a file at hand a scan knows its path and hash, and once registered its revision.
Holds(rec) ==
    /\ rec.step \in {"hash", "ingest", "register", "state", "enqueue"} =>
           rec.path \in Path /\ rec.sha \in Content
    /\ rec.step \in {"state", "enqueue"} => rec.rev \in Rev

ScanType == scan \in [Scanner -> {rec \in Record : Holds(rec)}]
TypeInv == TypeOK /\ ScanType

Known == {"register", "state", "enqueue"}   \* steps in which the file is archived

LEMMA WalksType ==
    ASSUME NEW rec \in Record
    PROVE  Walks(rec) \in Record /\ Holds(Walks(rec)) /\ Walks(rec).step \notin Known
  BY DEF Walks, NotScanning, Record, Maybe, Holds, Known


\* What becomes of the record of a scanner that takes a step.
Becomes(s, rec) == rec \in Record /\ Holds(rec) /\ scan' = [scan EXCEPT ![s] = rec]

LEMMA ScanTypes ==
    ASSUME TypeInv, NEW s \in Scanner
    PROVE  /\ scan \in [Scanner -> Record] /\ scan[s] \in Record /\ Holds(scan[s])
           /\ disk \in [Path -> Maybe(Content)]
           /\ alias \in [Path -> Maybe(Rev)] /\ revs \subseteq Rev
  BY DEF TypeInv, TypeOK, ScanType

LEMMA StartScanStep ==
    ASSUME TypeInv, NEW s \in Scanner, StartScan(s)
    PROVE  \E rec : Becomes(s, rec) /\ rec.step \notin Known
<1>1. PICK limit \in Limits :
         scan' = [scan EXCEPT ![s] = [NotScanning EXCEPT !.step = "walk", !.todo = Path,
                                                          !.budget = limit]]
  BY DEF StartScan
<1> DEFINE r == [NotScanning EXCEPT !.step = "walk", !.todo = Path, !.budget = limit]
<1>2. limit \in Nat
  BY LibraryAssumption
<1>3. r \in Record /\ Holds(r) /\ r.step \notin Known
  BY <1>2 DEF NotScanning, Record, Maybe, Holds, Known
<1> QED
  BY <1>1, <1>3, Zenon DEF Becomes

LEMMA BrowseStep ==
    ASSUME TypeInv, NEW s \in Scanner, Browse(s)
    PROVE  \E rec : Becomes(s, rec) /\ rec.step \notin Known
<1>1. PICK list \in SUBSET Path \ {{}} :
         scan' = [scan EXCEPT ![s] = [NotScanning EXCEPT
                      !.step = IF \E p \in list : Present(p) THEN "walk" ELSE "ledger",
                      !.todo = {p \in list : Present(p)}, !.list = list]]
  BY DEF Browse
<1> DEFINE r == [NotScanning EXCEPT
                    !.step = IF \E p \in list : Present(p) THEN "walk" ELSE "ledger",
                    !.todo = {p \in list : Present(p)}, !.list = list]
<1>2. r \in Record /\ Holds(r) /\ r.step \notin Known
  BY DEF NotScanning, Record, Maybe, Holds, Known
<1> QED
  BY <1>1, <1>2, Zenon DEF Becomes

LEMMA NextFileStep ==
    ASSUME TypeInv, NEW s \in Scanner, NEW p \in Path, NextFile(s, p)
    PROVE  \E rec : Becomes(s, rec) /\ rec.step \notin Known
<1> DEFINE rec == scan[s]
           rest == rec.todo \ {p}
           left == [rec EXCEPT !.todo = rest]
           r == [rec EXCEPT !.step = "hash", !.todo = rest, !.path = p, !.sha = disk[p],
                            !.same = TRUE]
           sees == Present(p) /\ p \notin fresh
<1>0. rec \in Record /\ disk \in [Path -> Maybe(Content)] /\ scan \in [Scanner -> Record]
  BY ScanTypes
<1>1. left \in Record
  BY <1>0 DEF Record
<1>4. scan' = [scan EXCEPT ![s] = IF sees THEN r ELSE Walks(left)]
  BY Zenon DEF NextFile
<1>2. CASE sees
  <2>1. disk[p] \in Content
    BY <1>0, <1>2 DEF Present, Maybe
  <2>2. r \in Record /\ Holds(r) /\ r.step \notin Known
    BY <1>0, <2>1 DEF Record, Maybe, Holds, Known
  <2>3. scan' = [scan EXCEPT ![s] = r]
    BY <1>2, <1>4, Zenon
  <2> QED
    BY <2>2, <2>3, Zenon DEF Becomes
<1>3. CASE ~sees
  <2>1. scan' = [scan EXCEPT ![s] = Walks(left)]
    BY <1>3, <1>4, Zenon
  <2> QED
    BY <1>1, <2>1, WalksType DEF Becomes
<1> QED
  BY <1>2, <1>3

LEMMA HashedStep ==
    ASSUME TypeInv, NEW s \in Scanner, Hashed(s)
    PROVE  \E rec : Becomes(s, rec) /\ rec.step \notin Known
<1> DEFINE rec == scan[s]
           needs == Unregistered(rec.path, rec.sha)
           left == IF needs /\ rec.list = {} THEN rec.budget - 1 ELSE rec.budget
           r == [rec EXCEPT !.step = "ingest", !.budget = left]
           passed == ~rec.same \/ (needs /\ rec.list = {} /\ rec.budget = 0)
<1>0. rec \in Record /\ Holds(rec) /\ scan \in [Scanner -> Record] /\ rec.step = "hash"
  BY ScanTypes DEF Hashed
<1>1. CASE passed
  <2>1. scan' = [scan EXCEPT ![s] = Walks(rec)]
    BY <1>1, Zenon DEF Hashed
  <2> QED
    BY <1>0, <2>1, WalksType DEF Becomes
<1>2. CASE ~passed
  <2>1. scan' = [scan EXCEPT ![s] = r]
    BY <1>2, Zenon DEF Hashed
  <2>3. left \in Nat
    BY <1>0, <1>2 DEF Record
  <2> HIDE DEF left
  <2>2. r \in Record /\ Holds(r) /\ r.step \notin Known
    BY <1>0, <2>3 DEF Record, Maybe, Holds, Known
  <2> QED
    BY <2>1, <2>2, Zenon DEF Becomes
<1> QED
  BY <1>1, <1>2

LEMMA IngestStep ==
    ASSUME TypeInv, NEW s \in Scanner, Ingest(s)
    PROVE  \E rec : /\ Becomes(s, rec)
                    /\ \/ rec.step \notin Known
                       \/ rec.step = "register" /\ rec.sha \in archive'
<1> DEFINE rec == scan[s]
           r == [rec EXCEPT !.step = "register", !.copied = rec.sha \notin archive]
<1>0. rec \in Record /\ Holds(rec) /\ scan \in [Scanner -> Record] /\ rec.step = "ingest"
  BY ScanTypes DEF Ingest
<1>1. CASE Present(rec.path) /\ disk[rec.path] = rec.sha
  <2>1. scan' = [scan EXCEPT ![s] = r] /\ archive' = archive \cup {rec.sha}
    BY <1>0, <1>1 DEF Ingest
  <2>2. r \in Record /\ Holds(r) /\ r.step = "register" /\ r.sha = rec.sha
    BY <1>0 DEF Record, Maybe, Holds
  <2>3. r.sha \in archive'
    BY <2>1, <2>2
  <2> QED
    BY <2>1, <2>2, <2>3, Zenon DEF Becomes
<1>2. CASE ~(Present(rec.path) /\ disk[rec.path] = rec.sha) /\ rec.list = {}
  <2>1. scan' = [scan EXCEPT ![s] = NotScanning]
    BY <1>2 DEF Ingest
  <2>2. NotScanning \in Record /\ Holds(NotScanning) /\ NotScanning.step \notin Known
    BY DEF NotScanning, Record, Maybe, Holds, Known
  <2> QED
    BY <2>1, <2>2 DEF Becomes
<1>3. CASE ~(Present(rec.path) /\ disk[rec.path] = rec.sha) /\ rec.list # {}
  <2>1. scan' = [scan EXCEPT ![s] = Walks(rec)]
    BY <1>3 DEF Ingest
  <2> QED
    BY <1>0, <2>1, WalksType DEF Becomes
<1> QED
  BY <1>1, <1>2, <1>3

\* The revisions a registered file may be of: registered already, or made of its hash.
LEMMA RegisterStep ==
    ASSUME TypeInv, NEW s \in Scanner, Register(s)
    PROVE  \E r \in Rev, new \in BOOLEAN :
              /\ \E rec : /\ Becomes(s, rec) /\ rec.step = "state" /\ rec.rev = r
                          /\ rec.new = new
              /\ scan[s].step = "register" /\ scan[s].path \in Path
              /\ IF new THEN r[2] = scan[s].sha
                 ELSE r \in revs \/ r = alias[scan[s].path]
              /\ alias' = [alias EXCEPT ![scan[s].path] = r]
              /\ revs' = revs \cup {r}
              /\ active' = IF new THEN Activated(r) ELSE active
<1> DEFINE rec == scan[s]
           known == alias[rec.path] # None
           unchanged == known /\ alias[rec.path][2] = rec.sha
           changed == known /\ ~unchanged
           twins == Holding(rec.sha)
           new == changed \/ (~known /\ twins = {})
           choices == CASE unchanged -> {alias[rec.path]}
                        [] changed -> {<<alias[rec.path][1], rec.sha>>}
                        [] ~known /\ twins # {} -> twins
                        [] OTHER -> {<<rec.sha, rec.sha>>}
<1>0. /\ rec \in Record /\ rec.step = "register" /\ rec.path \in Path /\ rec.sha \in Content
      /\ alias \in [Path -> Maybe(Rev)] /\ revs \subseteq Rev /\ scan \in [Scanner -> Record]
  BY ScanTypes DEF Register, Holds
<1>1. PICK r \in choices :
              /\ alias' = [alias EXCEPT ![rec.path] = r]
              /\ revs' = revs \cup {r}
              /\ active' = IF new THEN Activated(r) ELSE active
              /\ scan' = [scan EXCEPT ![s].step = "state", ![s].copied = FALSE,
                                      ![s].rev = r, ![s].new = new]
  BY Zenon DEF Register
<1>2. alias[rec.path] \in Maybe(Rev)
  BY <1>0
<1>3. /\ r \in Rev
      /\ IF new THEN r[2] = rec.sha ELSE r \in revs \/ r = alias[rec.path]
  <2>1. CASE unchanged
    <3>1. r = alias[rec.path] /\ ~new
      BY <1>1, <2>1
    <3> QED
      BY <1>2, <2>1, <3>1 DEF Maybe
  <2>2. CASE changed
    <3>1. r = <<alias[rec.path][1], rec.sha>> /\ new
      BY <1>1, <2>2
    <3> QED
      BY <1>0, <1>2, <2>2, <3>1 DEF Maybe, Rev
  <2>3. CASE ~known /\ twins # {}
    <3>1. r \in twins /\ ~new
      BY <1>1, <2>3
    <3> QED
      BY <1>0, <3>1 DEF Holding
  <2>4. CASE ~known /\ twins = {}
    <3>1. r = <<rec.sha, rec.sha>> /\ new
      BY <1>1, <2>4
    <3> QED
      BY <1>0, <3>1 DEF Rev
  <2> QED
    BY <2>1, <2>2, <2>3, <2>4
<1> DEFINE then == [rec EXCEPT !.step = "state", !.copied = FALSE, !.rev = r, !.new = new]
<1>4. scan' = [scan EXCEPT ![s] = then]
  BY <1>0, <1>1
<1>5. new \in BOOLEAN
  OBVIOUS
<1>6. /\ then \in Record /\ Holds(then) /\ then.step = "state" /\ then.rev = r
      /\ then.new = new
  <2> HIDE DEF new
  <2> QED
    BY <1>0, <1>3, <1>5 DEF Record, Maybe, Holds
<1>7. Becomes(s, then)
  BY <1>4, <1>6, Zenon DEF Becomes
<1> HIDE DEF then, new
<1> QED
  BY <1>0, <1>1, <1>3, <1>5, <1>6, <1>7, Zenon

LEMMA SaveStateStep ==
    ASSUME TypeInv, NEW s \in Scanner, SaveState(s)
    PROVE  \E rec : /\ Becomes(s, rec)
                    /\ scan[s].step = "state" /\ rec.step = "enqueue"
                    /\ rec.rev = scan[s].rev /\ rec.new = scan[s].new
<1> DEFINE rec == scan[s]
           r == [rec EXCEPT !.step = "enqueue"]
<1>0. rec \in Record /\ Holds(rec) /\ scan \in [Scanner -> Record] /\ rec.step = "state"
  BY ScanTypes DEF SaveState
<1>1. scan' = [scan EXCEPT ![s] = r]
  BY <1>0 DEF SaveState
<1>2. r \in Record /\ Holds(r) /\ r.step = "enqueue" /\ r.rev = rec.rev /\ r.new = rec.new
  BY <1>0 DEF Record, Maybe, Holds
<1> QED
  BY <1>0, <1>1, <1>2, Zenon DEF Becomes

LEMMA EnqueueStep ==
    ASSUME TypeInv, NEW s \in Scanner, EnqueueExtract(s)
    PROVE  \E rec : Becomes(s, rec) /\ rec.step \notin Known
<1>1. scan' = [scan EXCEPT ![s] = Walks(scan[s])]
  BY DEF EnqueueExtract
<1> QED
  BY <1>1, ScanTypes, WalksType DEF Becomes

LEMMA SaveLedgerStep ==
    ASSUME TypeInv, NEW s \in Scanner, SaveLedger(s)
    PROVE  \E rec : Becomes(s, rec) /\ rec.step \notin Known
<1>1. scan' = [scan EXCEPT ![s] = NotScanning]
  BY DEF SaveLedger
<1>2. NotScanning \in Record /\ Holds(NotScanning) /\ NotScanning.step \notin Known
  BY DEF NotScanning, Record, Maybe, Holds, Known
<1> QED
  BY <1>1, <1>2 DEF Becomes

\* A scanner's step touches its own record only.
LEMMA ScanStep ==
    ASSUME TypeInv, NEW s \in Scanner, Scans(s) \/ Browse(s)
    PROVE  \E rec : Becomes(s, rec)
  BY StartScanStep, BrowseStep, NextFileStep, HashedStep, IngestStep, RegisterStep,
     SaveStateStep, EnqueueStep, SaveLedgerStep DEF Scans, Goes

LEMMA BecomesType ==
    ASSUME TypeInv, NEW s \in Scanner, NEW rec, Becomes(s, rec)
    PROVE  ScanType'
  BY DEF TypeInv, ScanType, Becomes

\* The other parts of TypeOK.
DiskType == disk \in [Path -> Maybe(Content)] /\ up \in BOOLEAN /\ archive \subseteq Content
PathsType ==
    /\ stat \in [Path -> Maybe(Rev)] /\ alias \in [Path -> Maybe(Rev)]
    /\ ledger \in [Path -> Maybe(Rev)] /\ fresh \subseteq Path
RowsType == revs \subseteq Rev /\ active \subseteq Rev
IndexType ==
    /\ job \in [Rev -> {"none", "open", "running"} \cup Ended]
    /\ pubs \in [Rev -> {"none", "active", "superseded"}]
    /\ points \subseteq Rev /\ resumes \subseteq Rev
Removal == [step : {"idle", "points", "rows", "recount", "unlink"},
            doc : Maybe(Content), indexed : BOOLEAN, revs : SUBSET Rev,
            doomed : SUBSET Content, free : SUBSET Content]
Collection == [step : {"idle", "delete"}, doomed : SUBSET Content, pubs : SUBSET Rev,
               free : SUBSET Content]
PruneType == prune \in [step : {"idle", "prune"}, visible : SUBSET Path]
HistoryType ==
    /\ swept \subseteq Content /\ torn \subseteq Rev /\ stuck \subseteq Path
    /\ overtaken \subseteq Content /\ spent \subseteq Rev
    /\ events \in Nat
StoreType == DiskType /\ PathsType /\ RowsType /\ IndexType /\ HistoryType
ProcsType == rm \in Removal /\ gc \in Collection /\ PruneType

LEMMA TypeParts == TypeOK <=> StoreType /\ ProcsType /\ scan \in [Scanner -> Record]
  BY DEF TypeOK, StoreType, ProcsType, DiskType, PathsType, RowsType, IndexType, Removal,
         Collection, PruneType, HistoryType, Record

LEMMA TypePartsNext ==
    ASSUME StoreType', ProcsType', ScanType' PROVE TypeInv'
  BY DEF TypeInv, TypeOK, StoreType, ProcsType, DiskType, PathsType, RowsType, IndexType,
         Removal, Collection, PruneType, HistoryType, Record, ScanType

LEMMA ScansType ==
    ASSUME TypeInv, NEW s \in Scanner, Scans(s) \/ Browse(s)
    PROVE  TypeInv'
<1> USE DEF StoreType, ProcsType, DiskType, PathsType, RowsType, IndexType, PruneType,
            HistoryType, files, catalog, index, procs, history
<1>0. StoreType /\ ProcsType
  BY TypeParts DEF TypeInv
<1>t. scan[s] \in Record /\ Holds(scan[s])
  BY ScanTypes
<1>1. ASSUME StartScan(s) PROVE StoreType' /\ ProcsType'
  BY <1>0, <1>1 DEF StartScan
<1>2. ASSUME Browse(s) PROVE StoreType' /\ ProcsType'
  <2>1. /\ UNCHANGED <<files, catalog, archive, index, rm, gc, prune, history>>
        /\ events' = events + 1
    BY <1>2 DEF Browse, Happens
  <2> QED
    BY <1>0, <2>1
<1>3. ASSUME NEW p \in Path, NextFile(s, p) PROVE StoreType' /\ ProcsType'
  BY <1>0, <1>3 DEF NextFile
<1>4. ASSUME Hashed(s) PROVE StoreType' /\ ProcsType'
  BY <1>0, <1>4 DEF Hashed
<1>5. ASSUME Ingest(s) PROVE StoreType' /\ ProcsType'
  <2>1. scan[s].sha \in Content
    BY <1>5, <1>t DEF Ingest, Holds
  <2> QED
    BY <1>0, <1>5, <2>1 DEF Ingest
<1>6. ASSUME Register(s) PROVE StoreType' /\ ProcsType'
  <2>1. PICK r \in Rev, new \in BOOLEAN :
              /\ alias' = [alias EXCEPT ![scan[s].path] = r]
              /\ revs' = revs \cup {r}
              /\ active' = IF new THEN Activated(r) ELSE active
    BY <1>6, RegisterStep
  <2>2. Activated(r) \subseteq Rev
    BY <1>0, <2>1 DEF Activated
  <2>3. alias' \in [Path -> Maybe(Rev)]
    BY <1>0, <2>1 DEF Maybe
  <2>4. spent' \subseteq Rev
    BY <1>0, <1>6, <1>t DEF Register, Holds, Rev, Maybe, Holding
  <2> QED
    BY <1>0, <1>6, <2>1, <2>2, <2>3, <2>4 DEF Register
<1>7. ASSUME SaveState(s) PROVE StoreType' /\ ProcsType'
  BY <1>0, <1>7, <1>t DEF SaveState, Holds, Maybe
<1>8. ASSUME EnqueueExtract(s) PROVE StoreType' /\ ProcsType'
  BY <1>0, <1>8 DEF EnqueueExtract, Queued
<1>9. ASSUME SaveLedger(s) PROVE StoreType' /\ ProcsType'
  BY <1>0, <1>9 DEF SaveLedger, Maybe
<1>10. StoreType' /\ ProcsType'
  BY <1>1, <1>2, <1>3, <1>4, <1>5, <1>6, <1>7, <1>8, <1>9 DEF Scans, Goes
<1>11. ScanType'
  BY ScanStep, BecomesType
<1> QED
  BY <1>10, <1>11, TypePartsNext

LEMMA WorksType ==
    ASSUME TypeInv, NEW r \in Rev, Works(r) \/ CrashWorker(r)
    PROVE  TypeInv'
<1> USE DEF StoreType, ProcsType, DiskType, PathsType, RowsType, IndexType, PruneType,
            HistoryType, files, catalog, index, procs, history
<1>0. StoreType /\ ProcsType /\ ScanType
  BY TypeParts DEF TypeInv
<1>1. ASSUME Claim(r) PROVE StoreType' /\ ProcsType'
  BY <1>0, <1>1 DEF Claim, Rev
<1>2. ASSUME Publish(r) PROVE StoreType' /\ ProcsType'
  BY <1>0, <1>2 DEF Publish, Ended
<1>3. ASSUME GiveUp(r) PROVE StoreType' /\ ProcsType'
  BY <1>0, <1>3 DEF GiveUp, Ended
<1>4. ASSUME StoreResume(r) PROVE StoreType' /\ ProcsType'
  BY <1>0, <1>4 DEF StoreResume
<1>5. ASSUME CrashWorker(r) PROVE StoreType' /\ ProcsType'
  BY <1>0, <1>5 DEF CrashWorker, Happens
<1>6. UNCHANGED scan
  BY DEF Works, Claim, Publish, GiveUp, StoreResume, CrashWorker
<1> QED
  BY <1>0, <1>1, <1>2, <1>3, <1>4, <1>5, <1>6, TypePartsNext DEF Works, ScanType

LEMMA RemovesType ==
    ASSUME TypeInv, Removes
    PROVE  TypeInv'
<1> USE DEF StoreType, ProcsType, DiskType, PathsType, RowsType, IndexType, PruneType,
            HistoryType, files, catalog, index, procs, history
<1>0. StoreType /\ ProcsType /\ ScanType
  BY TypeParts DEF TypeInv
<1>n. NotRemoving \in Removal
  BY DEF NotRemoving, Removal, Maybe
<1>1. ASSUME NEW doc \in Content, RemoveBegin(doc) PROVE StoreType' /\ ProcsType'
  <2>1. PICK client \in BOOLEAN :
           rm' = [NotRemoving EXCEPT !.step = "points", !.doc = doc, !.revs = Of(doc),
                                     !.indexed = client /\ PointsOf(doc) # {}]
    BY <1>1 DEF RemoveBegin
  <2>2. Of(doc) \subseteq Rev
    BY <1>0 DEF Of
  <2>3. rm' \in Removal
    BY <2>1, <2>2 DEF NotRemoving, Removal, Maybe
  <2>4. /\ UNCHANGED <<files, catalog, archive, index, scan, gc, prune, history>>
        /\ events' = events + 1
    BY <1>1 DEF RemoveBegin, Happens
  <2> QED
    BY <1>0, <2>3, <2>4
<1>2. ASSUME RemovePoints PROVE StoreType' /\ ProcsType'
  BY <1>0, <1>2 DEF RemovePoints, Removal
<1>3. ASSUME RemoveRows PROVE StoreType' /\ ProcsType'
  BY <1>0, <1>3, <1>n DEF RemoveRows, Removal, Ended, Maybe
<1>4. ASSUME RemoveRecount PROVE StoreType' /\ ProcsType'
  <2>1. rm.revs \subseteq Rev
    BY <1>0 DEF Removal
  <2>2. ArchivePlan(rm.revs) \subseteq Content
    BY <2>1 DEF ArchivePlan, Rev
  <2> HIDE DEF ArchivePlan
  <2>3. rm' \in Removal
    BY <1>0, <1>4, <2>2 DEF RemoveRecount, Removal
  <2> QED
    BY <1>0, <1>4, <2>3 DEF RemoveRecount
<1>5. ASSUME NEW c \in Content, RemoveUnlink(c) PROVE StoreType' /\ ProcsType'
  BY <1>0, <1>5 DEF RemoveUnlink, Removal
<1>6. ASSUME RemoveEnd PROVE StoreType' /\ ProcsType'
  BY <1>0, <1>6, <1>n DEF RemoveEnd
<1>7. UNCHANGED scan
  BY DEF Removes, RemoveBegin, RemovePoints, RemoveRows, RemoveRecount, RemoveUnlink, RemoveEnd
<1> QED
  BY <1>0, <1>1, <1>2, <1>3, <1>4, <1>5, <1>6, <1>7, TypePartsNext DEF Removes, ScanType

LEMMA CollectsType ==
    ASSUME TypeInv, Collects
    PROVE  TypeInv'
<1> USE DEF StoreType, ProcsType, DiskType, PathsType, RowsType, IndexType, PruneType,
            HistoryType, files, catalog, index, procs, history
<1>0. StoreType /\ ProcsType /\ ScanType
  BY TypeParts DEF TypeInv
<1>1. ASSUME GcBegin PROVE StoreType' /\ ProcsType'
  <2>1. PICK doomed \in SUBSET Collectible :
           gc' = [step |-> "delete", doomed |-> doomed,
                  pubs |-> {r \in Rev : pubs[r] = "superseded"}, free |-> Content \ Referenced]
    BY <1>1 DEF GcBegin
  <2>2. doomed \subseteq Content
    BY <1>0 DEF Collectible
  <2>3. gc' \in Collection
    BY <2>1, <2>2 DEF Collection
  <2>4. /\ UNCHANGED <<files, catalog, archive, index, scan, rm, prune, history>>
        /\ events' = events + 1
    BY <1>1 DEF GcBegin, Happens
  <2> QED
    BY <1>0, <2>3, <2>4
<1>2. ASSUME NEW c \in Content, GcUnlink(c) PROVE StoreType' /\ ProcsType'
  BY <1>0, <1>2 DEF GcUnlink, Collection
<1>3. ASSUME NEW r \in Rev, GcPoints(r) PROVE StoreType' /\ ProcsType'
  BY <1>0, <1>3 DEF GcPoints, Collection
<1>4. ASSUME GcEnd PROVE StoreType' /\ ProcsType'
  BY <1>0, <1>4 DEF GcEnd, NotCollecting, Collection
<1>5. UNCHANGED scan
  BY DEF Collects, GcBegin, GcUnlink, GcPoints, GcEnd
<1> QED
  BY <1>0, <1>1, <1>2, <1>3, <1>4, <1>5, TypePartsNext DEF Collects, ScanType

\* The world, the reconcile command and the crashes of the other processes.
LEMMA OthersType ==
    ASSUME TypeInv,
           \/ \E p \in Path, c \in Content \cup {None} : Edit(p, c)
           \/ Mount \/ ReconcileLook \/ ReconcilePrune
           \/ CrashMaintenance
           \/ \E s \in Scanner : CrashScan(s)
    PROVE  TypeInv'
<1> USE DEF StoreType, ProcsType, DiskType, PathsType, RowsType, IndexType, PruneType,
            HistoryType, files, catalog, index, procs, history
<1>0. StoreType /\ ProcsType /\ ScanType
  BY TypeParts DEF TypeInv
<1>1. ASSUME NEW p \in Path, NEW c \in Content \cup {None}, Edit(p, c) PROVE TypeInv'
  <2>1. ScanType'
    <3>1. \A rec \in {k \in Record : Holds(k)} :
             [rec EXCEPT !.same = FALSE] \in {k \in Record : Holds(k)}
      BY DEF Record, Holds
    <3>2. scan' = [s \in Scanner |-> IF scan[s].path = p THEN [scan[s] EXCEPT !.same = FALSE]
                                     ELSE scan[s]]
      BY <1>1, Zenon DEF Edit
    <3> QED
      BY <1>0, <3>1, <3>2 DEF ScanType
  <2>2. disk' \in [Path -> Maybe(Content)] /\ events' \in Nat
    BY <1>0, <1>1 DEF Edit, Maybe, Happens
  <2>3. fresh' \subseteq Path
        /\ UNCHANGED <<up, stat, revs, active, alias, archive, index, rm, gc, prune, history>>
    BY <1>0, <1>1 DEF Edit
  <2> QED
    BY <1>0, <2>1, <2>2, <2>3, TypePartsNext
<1>2. ASSUME Mount PROVE TypeInv'
  BY <1>0, <1>2, TypePartsNext DEF Mount, Happens, ScanType
<1>3. ASSUME ReconcileLook PROVE TypeInv'
  BY <1>0, <1>3, TypePartsNext DEF ReconcileLook, Happens, ScanType
<1>4. ASSUME ReconcilePrune PROVE TypeInv'
  BY <1>0, <1>4, TypePartsNext DEF ReconcilePrune, NotPruning, ScanType, Stale, Maybe
<1>5. ASSUME CrashMaintenance PROVE TypeInv'
  <2>1. NotRemoving \in Removal /\ NotCollecting \in Collection
    BY DEF NotRemoving, Removal, Maybe, NotCollecting, Collection
  <2> QED
    BY <1>0, <1>5, <2>1, TypePartsNext DEF CrashMaintenance, Happens, ScanType
<1>6. ASSUME NEW s \in Scanner, CrashScan(s) PROVE TypeInv'
  <2>1. NotScanning \in {rec \in Record : Holds(rec)}
    BY DEF NotScanning, Record, Maybe, Holds
  <2>2. scan' = [scan EXCEPT ![s] = NotScanning]
    BY <1>6 DEF CrashScan
  <2>3. ScanType'
    BY <1>0, <2>1, <2>2 DEF ScanType
  <2>4. torn' \subseteq Rev
    BY <1>0, <1>6, ScanTypes DEF CrashScan, Holds
  <2>5. events' \in Nat
        /\ UNCHANGED <<files, catalog, archive, index, rm, gc, prune, swept, stuck, overtaken,
                       spent>>
    BY <1>0, <1>6 DEF CrashScan, Happens
  <2> QED
    BY <1>0, <2>3, <2>4, <2>5, TypePartsNext
<1> QED
  BY <1>1, <1>2, <1>3, <1>4, <1>5, <1>6

LEMMA TypeStep == TypeInv /\ [Next]_vars => TypeInv'
<1> SUFFICES ASSUME TypeInv, [Next]_vars PROVE TypeInv'
  OBVIOUS
<1>1. CASE UNCHANGED vars
  BY <1>1 DEF TypeInv, TypeOK, ScanType, vars, files, catalog, index, procs, history
<1> QED
  BY <1>1, ScansType, WorksType, RemovesType, CollectsType, OthersType DEF Next, Crash

LEMMA TypeInit == Init => TypeInv
<1> SUFFICES ASSUME Init PROVE TypeInv
  OBVIOUS
<1>1. ScanType
  BY DEF Init, ScanType, NotScanning, Record, Holds, Maybe
<1>2. ProcsType
  BY DEF Init, ProcsType, NotRemoving, NotCollecting, NotPruning, Removal, Collection,
         PruneType, Maybe
<1>3. StoreType
  BY LibraryAssumption DEF Init, StoreType, DiskType, PathsType, RowsType, IndexType,
         HistoryType, Maybe
<1> QED
  BY <1>1, <1>2, <1>3, TypeParts DEF TypeInv, ScanType

-----------------------------------------------------------------------------
(* The catalog.  Only a registration, the transaction of a removal and the *)
(* prune of reconcile write it.                                            *)

\* The one active revision of a document; counting them comes last.
IsActive(doc, r) == \A q \in active : q[1] = doc <=> q = r
CatalogInv ==
    /\ \A p \in Path : alias[p] # None => alias[p] \in revs
    /\ active \subseteq revs
    /\ \A doc \in Documents : \E r \in active : r[1] = doc /\ IsActive(doc, r)

LEMMA Untouched ==
    ASSUME CatalogInv, UNCHANGED <<revs, active, alias>>
    PROVE  CatalogInv'
  BY DEF CatalogInv, Documents, IsActive

LEMMA RegisterKeepsCatalog ==
    ASSUME TypeInv, CatalogInv, NEW s \in Scanner, Register(s)
    PROVE  CatalogInv'
<1>1. PICK r \in Rev, new \in BOOLEAN :
         /\ scan[s].path \in Path
         /\ IF new THEN r[2] = scan[s].sha ELSE r \in revs \/ r = alias[scan[s].path]
         /\ alias' = [alias EXCEPT ![scan[s].path] = r]
         /\ revs' = revs \cup {r}
         /\ active' = IF new THEN Activated(r) ELSE active
  BY RegisterStep
<1>2. alias \in [Path -> Maybe(Rev)] /\ r # None
  BY ScanTypes, LibraryAssumption DEF Rev
<1>3. \A p \in Path : alias'[p] # None => alias'[p] \in revs'
  BY <1>1, <1>2 DEF CatalogInv
<1>4. CASE new
  <2>1. active' = {q \in active : q[1] # r[1]} \cup {r}
    BY <1>1, <1>4 DEF Activated
  <2>2. ASSUME NEW doc \in Documents' PROVE (\E q \in active : q[1] = doc /\ IsActive(doc, q))'
    <3>1. CASE doc = r[1]
      BY <2>1, <3>1 DEF IsActive
    <3>2. CASE doc # r[1]
      <4>1. doc \in Documents
        BY <1>1, <2>2, <3>2 DEF Documents
      <4>2. PICK q \in active : q[1] = doc /\ IsActive(doc, q)
        BY <4>1 DEF CatalogInv
      <4> QED
        BY <2>1, <3>2, <4>2 DEF IsActive
    <3> QED
      BY <3>1, <3>2
  <2> QED
    BY <1>1, <1>3, <2>1, <2>2 DEF CatalogInv
<1>5. CASE ~new
  <2>1. UNCHANGED <<revs, active>>
    BY <1>1, <1>2, <1>5 DEF CatalogInv
  <2> QED
    BY <1>3, <2>1 DEF CatalogInv, Documents, IsActive
<1> QED
  BY <1>4, <1>5

LEMMA CatalogStep == TypeInv /\ CatalogInv /\ [Next]_vars => CatalogInv'
<1> SUFFICES ASSUME TypeInv, CatalogInv, [Next]_vars PROVE CatalogInv'
  OBVIOUS
<1> USE DEF files, catalog, index, procs, history
<1>1. ASSUME NEW s \in Scanner, Scans(s) \/ Browse(s) PROVE CatalogInv'
  <2>1. CASE ~Register(s)
    BY <1>1, <2>1, Untouched DEF Scans, Goes, StartScan, Browse, NextFile, Hashed, Ingest,
       SaveState, EnqueueExtract, SaveLedger
  <2> QED
    BY <2>1, RegisterKeepsCatalog
<1>2. ASSUME NEW r \in Rev, Works(r) \/ CrashWorker(r) PROVE CatalogInv'
  BY <1>2, Untouched DEF Works, Claim, Publish, GiveUp, StoreResume, CrashWorker
<1>3. ASSUME Removes PROVE CatalogInv'
  <2>1. CASE UNCHANGED <<revs, active, alias>>
    BY <2>1, Untouched
  <2>2. CASE ~UNCHANGED <<revs, active, alias>>
    <3>1. /\ alias' = [p \in Path |-> IF alias[p] \in Of(rm.doc) THEN None ELSE alias[p]]
          /\ revs' = revs \ Of(rm.doc) /\ active' = active \ Of(rm.doc)
      BY <1>3, <2>2 DEF Removes, RemoveBegin, RemovePoints, RemoveRows, RemoveRecount,
                        RemoveUnlink, RemoveEnd
    <3>2. ASSUME NEW doc \in Documents'
          PROVE  (\E q \in active : q[1] = doc /\ IsActive(doc, q))'
      <4>1. doc \in Documents /\ doc # rm.doc
        BY <3>1 DEF Documents, Of
      <4>2. PICK q \in active : q[1] = doc /\ IsActive(doc, q)
        BY <4>1 DEF CatalogInv
      <4>3. q \in active'
        BY <3>1, <4>1, <4>2 DEF Of
      <4> QED
        BY <3>1, <4>2, <4>3 DEF IsActive
    <3> QED
      BY <3>1, <3>2 DEF CatalogInv, Of
  <2> QED
    BY <2>1, <2>2
<1>4. ASSUME Collects PROVE CatalogInv'
  BY <1>4, Untouched DEF Collects, GcBegin, GcUnlink, GcPoints, GcEnd
<1>5. ASSUME ReconcilePrune PROVE CatalogInv'
  <2>1. UNCHANGED <<revs, active>> /\ \A p \in Path : alias'[p] \in {None, alias[p]}
    BY <1>5 DEF ReconcilePrune
  <2> QED
    BY <2>1 DEF CatalogInv, Documents, IsActive
<1>6. ASSUME \/ \E p \in Path, c \in Content \cup {None} : Edit(p, c)
             \/ Mount \/ ReconcileLook \/ CrashMaintenance
             \/ \E s \in Scanner : CrashScan(s)
      PROVE  CatalogInv'
  BY <1>6, Untouched DEF Edit, Mount, ReconcileLook, CrashMaintenance, CrashScan
<1>7. CASE UNCHANGED vars
  BY <1>7, Untouched DEF vars
<1> QED
  BY <1>1, <1>2, <1>3, <1>4, <1>5, <1>6, <1>7 DEF Next, Crash

LEMMA CatalogCounts == CatalogInv => OneActiveRevision
<1> SUFFICES ASSUME CatalogInv, NEW doc \in Documents
             PROVE  Cardinality({r \in active : r[1] = doc}) = 1
  BY DEF CatalogInv, OneActiveRevision
<1>1. PICK r \in active : r[1] = doc /\ IsActive(doc, r)
  BY DEF CatalogInv
<1>2. {q \in active : q[1] = doc} = {r}
  BY <1>1 DEF IsActive
<1> QED
  BY <1>2, FS_Singleton

-----------------------------------------------------------------------------
(* Originals.  What is planned for deletion was free when it was planned,  *)
(* so that a content leaves the archive only to be counted as swept.       *)

PlansInv == rm.doomed \subseteq rm.free /\ gc.doomed \subseteq gc.free
\* A scan that is to register a file has its content in the archive, or had.
ArchivedInv ==
    \A s \in Scanner : scan[s].step = "register" => scan[s].sha \in archive \cup swept
OriginalsInv == PlansInv /\ ArchivedInv /\ OriginalsKept

LEMMA PlansStep == TypeInv /\ PlansInv /\ [Next]_vars => PlansInv'
<1> SUFFICES ASSUME TypeInv, PlansInv, [Next]_vars PROVE PlansInv'
  OBVIOUS
<1> USE DEF PlansInv, files, catalog, index, procs, history
<1>0. rm \in Removal /\ gc \in Collection
  BY TypeParts DEF TypeInv, ProcsType
<1>1. CASE UNCHANGED <<rm, gc>>
  BY <1>1
<1>2. ASSUME Removes PROVE PlansInv'
  <2>1. UNCHANGED gc
    BY <1>2 DEF Removes, RemoveBegin, RemovePoints, RemoveRows, RemoveRecount, RemoveUnlink,
                RemoveEnd
  <2>2. ASSUME NEW doc \in Content, RemoveBegin(doc) PROVE rm'.doomed = {}
    BY <2>2 DEF RemoveBegin, NotRemoving
  <2>3. ASSUME RemovePoints PROVE rm'.doomed = rm.doomed /\ rm'.free = rm.free
    BY <1>0, <2>3 DEF RemovePoints, Removal
  <2>4. ASSUME RemoveRows PROVE \/ rm'.doomed = {}
                                \/ rm'.doomed = rm.doomed /\ rm'.free = rm.free
    BY <1>0, <2>4 DEF RemoveRows, NotRemoving, Removal
  <2>5. ASSUME RemoveRecount
        PROVE  rm'.doomed = ArchivePlan(rm.revs) /\ rm'.free = Content \ Referenced
    BY <1>0, <2>5 DEF RemoveRecount, Removal
  <2>6. ArchivePlan(rm.revs) \subseteq Content \ Referenced
    BY <1>0 DEF ArchivePlan, Removal, Rev
  <2>7. ASSUME NEW c \in Content, RemoveUnlink(c)
        PROVE  rm'.doomed \subseteq rm.doomed /\ rm'.free = rm.free
    BY <1>0, <2>7 DEF RemoveUnlink, Removal
  <2>8. ASSUME RemoveEnd PROVE rm'.doomed = {}
    BY <2>8 DEF RemoveEnd, NotRemoving
  <2>9. rm'.doomed \subseteq rm'.free
    BY <1>2, <2>2, <2>3, <2>4, <2>5, <2>6, <2>7, <2>8 DEF Removes
  <2> QED
    BY <2>1, <2>9
<1>3. ASSUME Collects PROVE PlansInv'
  <2>0. UNCHANGED rm /\ archive \subseteq Content
    BY <1>3, TypeParts DEF Collects, GcBegin, GcUnlink, GcPoints, GcEnd, TypeInv, StoreType,
                           DiskType
  <2>1. ASSUME GcBegin PROVE gc'.doomed \subseteq gc'.free
    BY <2>0, <2>1 DEF GcBegin, Collectible
  <2>2. ASSUME NEW c \in Content, GcUnlink(c) PROVE gc'.doomed \subseteq gc'.free
    BY <1>0, <2>2 DEF GcUnlink, Collection
  <2>3. ASSUME NEW r \in Rev, GcPoints(r) PROVE gc'.doomed \subseteq gc'.free
    BY <1>0, <2>3 DEF GcPoints, Collection
  <2>4. ASSUME GcEnd PROVE gc'.doomed \subseteq gc'.free
    BY <2>4 DEF GcEnd, NotCollecting
  <2> QED
    BY <1>3, <2>0, <2>1, <2>2, <2>3, <2>4 DEF Collects
<1>4. ASSUME CrashMaintenance PROVE PlansInv'
  BY <1>4 DEF CrashMaintenance, NotRemoving, NotCollecting
<1>5. CASE /\ ~Removes /\ ~Collects /\ ~CrashMaintenance
  <2>1. UNCHANGED <<rm, gc>>
    BY <1>5 DEF Next, Crash, Scans, Goes, Works, Edit, Mount, StartScan, Browse, NextFile,
                Hashed, Ingest, Register, SaveState, EnqueueExtract, SaveLedger, Claim, Publish,
                GiveUp, StoreResume, ReconcileLook, ReconcilePrune, CrashScan, CrashWorker, vars
  <2> QED
    BY <2>1
<1> QED
  BY <1>1, <1>2, <1>3, <1>4, <1>5

\* Nothing leaves the archive uncounted.
LEMMA ArchiveGrows ==
    TypeInv /\ PlansInv /\ [Next]_vars => archive \cup swept \subseteq archive' \cup swept'
<1> SUFFICES ASSUME TypeInv, PlansInv, [Next]_vars
             PROVE  archive \cup swept \subseteq archive' \cup swept'
  OBVIOUS
<1> USE DEF files, catalog, index, procs, history
<1>1. ASSUME NEW c \in Content, RemoveUnlink(c) \/ GcUnlink(c)
      PROVE  archive \cup swept \subseteq archive' \cup swept'
  BY <1>1 DEF RemoveUnlink, GcUnlink, PlansInv
<1>2. ASSUME NEW s \in Scanner, Ingest(s)
      PROVE  archive \cup swept \subseteq archive' \cup swept'
  BY <1>2 DEF Ingest
<1>3. CASE /\ \A c \in Content : ~RemoveUnlink(c) /\ ~GcUnlink(c)
           /\ \A s \in Scanner : ~Ingest(s)
  <2>1. UNCHANGED <<archive, swept>>
    BY <1>3 DEF Next, Crash, Scans, Goes, Works, Removes, Collects, Edit, Mount, StartScan,
                Browse, NextFile, Hashed, Register, SaveState, EnqueueExtract, SaveLedger,
                Claim, Publish, GiveUp, StoreResume, RemoveBegin, RemovePoints, RemoveRows,
                RemoveRecount, RemoveEnd, GcBegin, GcPoints, GcEnd, ReconcileLook,
                ReconcilePrune, CrashScan, CrashMaintenance, CrashWorker, vars
  <2> QED
    BY <2>1
<1> QED
  BY <1>1, <1>2, <1>3

\* Where a scanner may be after a step, if it carries an archived or registered file.
Rests(t) ==
    /\ scan'[t].step = scan[t].step /\ scan'[t].sha = scan[t].sha
    /\ scan'[t].rev = scan[t].rev /\ scan'[t].new = scan[t].new
Leaves(t) ==
    /\ scan'[t].step \notin Known
    /\ scan[t].step \in {"state", "enqueue"} => EnqueueExtract(t) \/ CrashScan(t)

LEMMA ScanMoves ==
    ASSUME TypeInv, [Next]_vars, NEW t \in Scanner
    PROVE  \/ Rests(t) \/ Leaves(t)
           \/ Ingest(t) /\ scan'[t].step = "register" /\ scan'[t].sha \in archive'
           \/ Register(t) /\ scan'[t].step = "state"
           \/ /\ SaveState(t) /\ scan'[t].step = "enqueue"
              /\ scan'[t].rev = scan[t].rev /\ scan'[t].new = scan[t].new
<1> USE DEF files, catalog, index, procs, history
<1>0. scan \in [Scanner -> Record] /\ scan[t] \in Record
  BY ScanTypes
<1>1. ASSUME NEW s \in Scanner, NEW rec, scan' = [scan EXCEPT ![s] = rec]
      PROVE  IF t = s THEN scan'[t] = rec ELSE Rests(t)
  BY <1>0, <1>1 DEF Rests
<1>2. ASSUME NEW s \in Scanner, \/ StartScan(s) \/ Browse(s) \/ Hashed(s)
                                \/ SaveLedger(s) \/ \E p \in Path : NextFile(s, p)
      PROVE  Rests(t) \/ Leaves(t)
  <2>1. scan[s].step \notin {"state", "enqueue"}
    BY <1>2 DEF StartScan, Browse, Hashed, SaveLedger, NextFile
  <2>2. \E rec : Becomes(s, rec) /\ rec.step \notin Known
    BY <1>2, StartScanStep, BrowseStep, HashedStep, SaveLedgerStep, NextFileStep
  <2> QED
    BY <1>1, <2>1, <2>2 DEF Becomes, Leaves
<1>3. ASSUME NEW s \in Scanner, Ingest(s)
      PROVE  \/ Rests(t) \/ Leaves(t)
             \/ Ingest(t) /\ scan'[t].step = "register" /\ scan'[t].sha \in archive'
  <2>1. scan[s].step \notin {"state", "enqueue"}
    BY <1>3 DEF Ingest
  <2> QED
    BY <1>1, <1>3, <2>1, IngestStep DEF Becomes, Leaves
<1>4. ASSUME NEW s \in Scanner, Register(s)
      PROVE  Rests(t) \/ (Register(t) /\ scan'[t].step = "state")
  <2>1. \E rec : Becomes(s, rec) /\ rec.step = "state"
    BY <1>4, RegisterStep
  <2> QED
    BY <1>1, <1>4, <2>1 DEF Becomes
<1>5. ASSUME NEW s \in Scanner, SaveState(s)
      PROVE  \/ Rests(t)
             \/ /\ SaveState(t) /\ scan'[t].step = "enqueue"
                /\ scan'[t].rev = scan[t].rev /\ scan'[t].new = scan[t].new
  BY <1>1, <1>5, SaveStateStep DEF Becomes
<1>6. ASSUME NEW s \in Scanner, EnqueueExtract(s) PROVE Rests(t) \/ Leaves(t)
  BY <1>1, <1>6, EnqueueStep DEF Becomes, Leaves
<1>7. ASSUME NEW s \in Scanner, CrashScan(s) PROVE Rests(t) \/ Leaves(t)
  <2>1. scan' = [scan EXCEPT ![s] = NotScanning] /\ NotScanning.step \notin Known
    BY <1>7 DEF CrashScan, NotScanning, Known
  <2> QED
    BY <1>1, <1>7, <2>1 DEF Leaves
<1>8. ASSUME NEW p \in Path, NEW c \in Content \cup {None}, Edit(p, c) PROVE Rests(t)
  <2>1. scan'[t] = IF scan[t].path = p THEN [scan[t] EXCEPT !.same = FALSE] ELSE scan[t]
    BY <1>8, Zenon DEF Edit
  <2> QED
    BY <1>0, <2>1 DEF Record, Rests
<1>9. ASSUME UNCHANGED scan PROVE Rests(t)
  BY <1>9 DEF Rests
<1>10. CASE /\ \A s \in Scanner : ~(Scans(s) \/ Browse(s) \/ CrashScan(s))
            /\ \A p \in Path, c \in Content \cup {None} : ~Edit(p, c)
  <2>1. UNCHANGED scan
    BY <1>10 DEF Next, Crash, Works, Removes, Collects, Mount, Claim, Publish, GiveUp,
                 StoreResume, RemoveBegin, RemovePoints, RemoveRows, RemoveRecount,
                 RemoveUnlink, RemoveEnd, GcBegin, GcUnlink, GcPoints, GcEnd, ReconcileLook,
                 ReconcilePrune, CrashMaintenance, CrashWorker, vars
  <2> QED
    BY <1>9, <2>1
<1> QED
  BY <1>2, <1>3, <1>4, <1>5, <1>6, <1>7, <1>8, <1>10 DEF Scans, Goes

\* Only a registration makes a revision.
LEMMA RevsGrow ==
    ASSUME TypeInv, [Next]_vars
    PROVE  \/ revs' \subseteq revs
           \/ \E s \in Scanner : Register(s)
  BY DEF Next, Crash, Scans, Goes, Works, Removes, Collects, Edit, Mount, StartScan, Browse,
         NextFile, Hashed, Ingest, SaveState, EnqueueExtract, SaveLedger, Claim, Publish,
         GiveUp, StoreResume, RemoveBegin, RemovePoints, RemoveRows, RemoveRecount,
         RemoveUnlink, RemoveEnd, GcBegin, GcUnlink, GcPoints, GcEnd, ReconcileLook,
         ReconcilePrune, CrashScan, CrashMaintenance, CrashWorker, vars, files, catalog, index,
         procs, history

LEMMA OriginalsStep ==
    TypeInv /\ CatalogInv /\ OriginalsInv /\ [Next]_vars => OriginalsInv'
<1> SUFFICES ASSUME TypeInv, CatalogInv, OriginalsInv, [Next]_vars PROVE OriginalsInv'
  OBVIOUS
<1>1. archive \cup swept \subseteq archive' \cup swept'
  BY ArchiveGrows DEF OriginalsInv
<1>2. PlansInv'
  BY PlansStep DEF OriginalsInv
<1>3. ArchivedInv'
  BY <1>1, ScanMoves DEF OriginalsInv, ArchivedInv, Rests, Leaves, Known
<1>4. OriginalsKept'
  <2>1. ASSUME NEW s \in Scanner, Register(s)
        PROVE  \A r \in revs' : r \in revs \/ r[2] \in archive \cup swept
    <3>1. PICK r \in Rev, new \in BOOLEAN :
             /\ scan[s].step = "register" /\ scan[s].path \in Path
             /\ IF new THEN r[2] = scan[s].sha ELSE r \in revs \/ r = alias[scan[s].path]
             /\ revs' = revs \cup {r}
      BY <2>1, RegisterStep
    <3>2. CASE new
      BY <3>1, <3>2 DEF OriginalsInv, ArchivedInv
    <3>3. CASE ~new
      BY <3>1, <3>3, LibraryAssumption DEF CatalogInv, Rev
    <3> QED
      BY <3>2, <3>3
  <2> QED
    BY <1>1, <2>1, RevsGrow DEF OriginalsInv, OriginalsKept
<1> QED
  BY <1>2, <1>3, <1>4 DEF OriginalsInv

-----------------------------------------------------------------------------
(* Every registered book gets its job.                                     *)

Carried(r) ==
    \E s \in Scanner : /\ scan[s].step \in {"state", "enqueue"}
                       /\ scan[s].rev = r /\ scan[s].new
LEMMA JobsStay ==
    ASSUME TypeInv, [Next]_vars, NEW r \in Rev, job[r] # "none"
    PROVE  job'[r] # "none"
<1> USE DEF files, catalog, index, procs, history
<1>0. job \in [Rev -> {"none", "open", "running"} \cup Ended]
  BY DEF TypeInv, TypeOK
<1>1. ASSUME NEW q \in Rev, Works(q) \/ CrashWorker(q) PROVE job'[r] # "none"
  BY <1>0, <1>1 DEF Works, Claim, Publish, GiveUp, StoreResume, CrashWorker
<1>2. ASSUME NEW s \in Scanner, EnqueueExtract(s) PROVE job'[r] # "none"
  BY <1>0, <1>2 DEF EnqueueExtract, Queued
<1>3. ASSUME RemoveRows PROVE job'[r] # "none"
  BY <1>0, <1>3 DEF RemoveRows
<1>4. CASE /\ \A q \in Rev : ~(Works(q) \/ CrashWorker(q))
           /\ \A s \in Scanner : ~EnqueueExtract(s)
           /\ ~RemoveRows
  <2>1. UNCHANGED job
    BY <1>4 DEF Next, Crash, Scans, Goes, Removes, Collects, Edit, Mount, StartScan, Browse,
                NextFile, Hashed, Ingest, Register, SaveState, SaveLedger, RemoveBegin,
                RemovePoints, RemoveRecount, RemoveUnlink, RemoveEnd, GcBegin, GcUnlink,
                GcPoints, GcEnd, ReconcileLook, ReconcilePrune, CrashScan, CrashMaintenance, vars
  <2> QED
    BY <2>1
<1> QED
  BY <1>1, <1>2, <1>3, <1>4

LEMMA TornStays ==
    ASSUME TypeInv, [Next]_vars
    PROVE  torn \subseteq torn'
  BY DEF Next, Crash, Scans, Goes, Works, Removes, Collects, Edit, Mount, StartScan, Browse,
         NextFile, Hashed, Ingest, Register, SaveState, EnqueueExtract, SaveLedger, Claim,
         Publish, GiveUp, StoreResume, RemoveBegin, RemovePoints, RemoveRows, RemoveRecount,
         RemoveUnlink, RemoveEnd, GcBegin, GcUnlink, GcPoints, GcEnd, ReconcileLook,
         ReconcilePrune, CrashScan, CrashMaintenance, CrashWorker, vars, files, catalog, index,
         procs, history

\* A scan puts a revision down only once it is queued or torn.
LEMMA CarriedOn ==
    ASSUME TypeInv, [Next]_vars, NEW r \in Rev, Carried(r)
    PROVE  Carried(r)' \/ job'[r] # "none" \/ r \in torn'
<1>1. PICK s \in Scanner : scan[s].step \in {"state", "enqueue"} /\ scan[s].rev = r /\ scan[s].new
  BY DEF Carried
<1>2. CASE \/ Rests(s)
           \/ /\ SaveState(s) /\ scan'[s].step = "enqueue"
              /\ scan'[s].rev = scan[s].rev /\ scan'[s].new = scan[s].new
  BY <1>1, <1>2 DEF Carried, Rests
<1>3. CASE EnqueueExtract(s)
  BY <1>1, <1>3 DEF EnqueueExtract, Queued, TypeInv, TypeOK
<1>4. CASE CrashScan(s)
  BY <1>1, <1>4 DEF CrashScan
<1>5. ~Ingest(s) /\ ~Register(s)
  BY <1>1 DEF Ingest, Register
<1> QED
  BY <1>1, <1>2, <1>3, <1>4, <1>5, ScanMoves DEF Leaves

LEMMA ForgottenStep ==
    TypeInv /\ CatalogInv /\ NoBookForgotten /\ [Next]_vars => NoBookForgotten'
<1> SUFFICES ASSUME TypeInv, CatalogInv, NoBookForgotten, [Next]_vars, NEW r \in revs'
             PROVE  job'[r] # "none" \/ r \in torn' \/ Carried(r)'
  BY DEF NoBookForgotten, Carried
<1>1. CASE r \in revs
  <2>1. r \in Rev
    BY <1>1, ScanTypes DEF TypeInv, TypeOK
  <2>2. job[r] # "none" \/ r \in torn \/ Carried(r)
    BY <1>1 DEF NoBookForgotten, Carried
  <2> QED
    BY <2>1, <2>2, JobsStay, TornStays, CarriedOn
<1>2. CASE r \notin revs
  <2>1. PICK s \in Scanner : Register(s)
    BY <1>2, RevsGrow
  <2>2. PICK q \in Rev, new \in BOOLEAN :
           /\ \E rec : Becomes(s, rec) /\ rec.step = "state" /\ rec.rev = q /\ rec.new = new
           /\ scan[s].path \in Path
           /\ IF new THEN q[2] = scan[s].sha ELSE q \in revs \/ q = alias[scan[s].path]
           /\ revs' = revs \cup {q}
    BY <2>1, RegisterStep
  <2>3. q = r
    BY <1>2, <2>2
  <2>4. new
    BY <1>2, <2>2, <2>3, LibraryAssumption DEF CatalogInv, Rev
  <2>5. scan \in [Scanner -> Record]
    BY ScanTypes
  <2> QED
    BY <2>2, <2>3, <2>4, <2>5 DEF Carried, Becomes
<1> QED
  BY <1>1, <1>2

-----------------------------------------------------------------------------
(* Points.  While a document is being removed, a job of it can only have   *)
(* been claimed since the removal began, which makes it overtaken.         *)

PointsInv == \A r \in points : r[1] \in overtaken \/ (r \in revs /\ pubs[r] # "none")
Bare(doc) == PointsOf(doc) = {} \/ doc \in overtaken
RemovalInv ==
    rm.step # "idle" =>
        /\ \A r \in Rev : job[r] = "running" /\ r[1] = rm.doc => rm.doc \in overtaken
        /\ rm.step = "points" /\ ~rm.indexed => Bare(rm.doc)
        /\ rm.step = "rows" => Bare(rm.doc)
StrayInv == PointsInv /\ RemovalInv

\* Steps that add nothing to what StrayInv speaks of.
LEMMA StrayKept ==
    ASSUME TypeInv, StrayInv, UNCHANGED <<rm, pubs>>, revs \subseteq revs',
           points' \subseteq points, overtaken \subseteq overtaken',
           \A r \in Rev : job'[r] = "running" => job[r] = "running" \/ r[1] \in overtaken'
                                                 \/ rm.doc # r[1]
    PROVE  StrayInv'
  BY DEF StrayInv, PointsInv, RemovalInv, Bare, PointsOf

LEMMA WorksStray ==
    ASSUME TypeInv, CatalogInv, StrayInv, NEW r \in Rev, Works(r) \/ CrashWorker(r)
    PROVE  StrayInv'
<1> USE DEF files, catalog, index, procs, history
<1>0. /\ job \in [Rev -> {"none", "open", "running"} \cup Ended]
      /\ pubs \in [Rev -> {"none", "active", "superseded"}] /\ points \subseteq Rev
  BY DEF TypeInv, TypeOK
<1>1. CASE Claim(r)
  BY <1>0, <1>1, StrayKept DEF Claim
<1>2. CASE Publish(r)
  <2>1. /\ job[r] = "running" /\ r \in active
        /\ points' = points \cup {r} /\ UNCHANGED <<revs, rm, overtaken>>
    BY <1>2 DEF Publish
  <2>2. pubs'[r] = "active" /\ \A q \in Rev : pubs[q] # "none" => pubs'[q] # "none"
    BY <1>0, <1>2 DEF Publish
  <2>3. PointsInv'
    BY <1>0, <2>1, <2>2 DEF CatalogInv, StrayInv, PointsInv
  <2>4. \A q \in Rev : job'[q] = "running" => job[q] = "running"
    BY <1>0, <1>2 DEF Publish
  <2>5. RemovalInv'
    BY <2>1, <2>4 DEF StrayInv, RemovalInv, Bare, PointsOf
  <2> QED
    BY <2>3, <2>5 DEF StrayInv
<1>3. CASE GiveUp(r)
  BY <1>0, <1>3, StrayKept DEF GiveUp
<1>4. CASE StoreResume(r)
  BY <1>4, StrayKept DEF StoreResume
<1>5. CASE CrashWorker(r)
  BY <1>0, <1>5, StrayKept DEF CrashWorker
<1> QED
  BY <1>1, <1>2, <1>3, <1>4, <1>5 DEF Works

LEMMA RemovesStray ==
    ASSUME TypeInv, CatalogInv, StrayInv, Removes
    PROVE  StrayInv'
<1> USE DEF files, catalog, index, procs, history
<1>0. /\ rm \in Removal /\ points \subseteq Rev
      /\ job \in [Rev -> {"none", "open", "running"} \cup Ended]
      /\ pubs \in [Rev -> {"none", "active", "superseded"}]
  BY TypeParts DEF TypeInv, ProcsType, StoreType, IndexType
<1>1. ASSUME NEW doc \in Content, RemoveBegin(doc) PROVE StrayInv'
  <2>1. PICK client \in BOOLEAN :
           /\ client \/ \A r \in Of(doc) : pubs[r] = "none"
           /\ rm' = [NotRemoving EXCEPT !.step = "points", !.doc = doc, !.revs = Of(doc),
                                        !.indexed = client /\ PointsOf(doc) # {}]
    BY <1>1 DEF RemoveBegin
  <2>2. ~JobRunning /\ UNCHANGED <<revs, job, pubs, points, overtaken>>
    BY <1>1 DEF RemoveBegin
  <2>3. rm'.step = "points" /\ rm'.doc = doc /\ rm'.indexed = (client /\ PointsOf(doc) # {})
    BY <2>1 DEF NotRemoving
  <2>4. ~client => Bare(doc)
    BY <2>1 DEF StrayInv, PointsInv, Bare, PointsOf, Of
  <2>5. RemovalInv'
    BY <2>2, <2>3, <2>4 DEF RemovalInv, JobRunning, Bare, PointsOf
  <2> QED
    BY <2>2, <2>5 DEF StrayInv, PointsInv
<1>2. ASSUME RemovePoints PROVE StrayInv'
  <2>1. /\ rm.step = "points" /\ rm'.step = "rows" /\ rm'.doc = rm.doc
        /\ points' = IF rm.indexed THEN points \ PointsOf(rm.doc) ELSE points
        /\ UNCHANGED <<revs, job, pubs, overtaken>>
    BY <1>0, <1>2 DEF RemovePoints, Removal
  <2> QED
    BY <2>1 DEF StrayInv, PointsInv, RemovalInv, Bare, PointsOf
<1>3. ASSUME RemoveRows PROVE StrayInv'
  <2>1. rm.step = "rows" /\ UNCHANGED <<points, overtaken>>
    BY <1>3 DEF RemoveRows
  <2>2. CASE UNCHANGED <<revs, job, pubs>> /\ rm' = NotRemoving
    BY <2>1, <2>2 DEF StrayInv, PointsInv, RemovalInv, NotRemoving
  <2>3. CASE rm' = [rm EXCEPT !.step = "recount"] /\ revs' = revs \ Of(rm.doc)
    <3>1. rm'.step = "recount" /\ rm'.doc = rm.doc
      BY <1>0, <2>3 DEF Removal
    <3>2. /\ \A r \in Rev : r[1] # rm.doc => pubs'[r] = pubs[r]
          /\ \A r \in Rev : job'[r] = "running" => job[r] = "running"
      BY <1>0, <1>3, <2>3 DEF RemoveRows, NotRemoving
    <3>3. PointsInv'
      BY <1>0, <2>1, <2>3, <3>2 DEF StrayInv, PointsInv, RemovalInv, Bare, PointsOf, Of
    <3>4. RemovalInv'
      BY <2>1, <3>1, <3>2 DEF StrayInv, RemovalInv
    <3> QED
      BY <3>3, <3>4 DEF StrayInv
  <2> QED
    BY <1>3, <2>2, <2>3 DEF RemoveRows
<1>4. ASSUME \/ RemoveRecount \/ RemoveEnd \/ \E c \in Content : RemoveUnlink(c) PROVE StrayInv'
  <2>1. /\ rm.step # "idle" /\ rm'.step \in {"idle", "unlink"}
        /\ rm'.step # "idle" => rm'.doc = rm.doc
        /\ UNCHANGED <<revs, job, pubs, points, overtaken>>
    <3>1. ASSUME RemoveRecount PROVE rm.step = "recount" /\ rm'.step = "unlink" /\ rm'.doc = rm.doc
      BY <1>0, <3>1 DEF RemoveRecount, Removal
    <3>2. ASSUME NEW c \in Content, RemoveUnlink(c)
          PROVE  rm.step = "unlink" /\ rm'.step = "unlink" /\ rm'.doc = rm.doc
      BY <1>0, <3>2 DEF RemoveUnlink, Removal
    <3>3. ASSUME RemoveEnd PROVE rm.step = "unlink" /\ rm'.step = "idle"
      BY <3>3 DEF RemoveEnd, NotRemoving
    <3>4. UNCHANGED <<revs, job, pubs, points, overtaken>>
      BY <1>4 DEF RemoveRecount, RemoveUnlink, RemoveEnd
    <3> QED
      BY <1>4, <3>1, <3>2, <3>3, <3>4
  <2> QED
    BY <2>1 DEF StrayInv, PointsInv, RemovalInv
<1> QED
  BY <1>1, <1>2, <1>3, <1>4 DEF Removes

LEMMA StrayStep == TypeInv /\ CatalogInv /\ StrayInv /\ [Next]_vars => StrayInv'
<1> SUFFICES ASSUME TypeInv, CatalogInv, StrayInv, [Next]_vars PROVE StrayInv'
  OBVIOUS
<1> USE DEF files, catalog, index, procs, history
<1>0. job \in [Rev -> {"none", "open", "running"} \cup Ended]
  BY DEF TypeInv, TypeOK
<1>1. ASSUME NEW s \in Scanner, Scans(s) \/ Browse(s) PROVE StrayInv'
  <2>1. UNCHANGED <<rm, pubs, points, overtaken>>
    BY <1>1 DEF Scans, Goes, StartScan, Browse, NextFile, Hashed, Ingest, Register, SaveState,
                EnqueueExtract, SaveLedger
  <2>2. revs \subseteq revs'
    <3>1. Register(s) => revs \subseteq revs'
      BY RegisterStep
    <3>2. ~Register(s) => UNCHANGED revs
      BY <1>1 DEF Scans, Goes, StartScan, Browse, NextFile, Hashed, Ingest, SaveState,
                  EnqueueExtract, SaveLedger
    <3> QED
      BY <3>1, <3>2
  <2>3. \A r \in Rev : job'[r] = "running" => job[r] = "running"
    BY <1>0, <1>1 DEF Scans, Goes, StartScan, Browse, NextFile, Hashed, Ingest, Register,
                SaveState, EnqueueExtract, SaveLedger, Queued
  <2> QED
    BY <2>1, <2>2, <2>3, StrayKept
<1>2. ASSUME Collects PROVE StrayInv'
  BY <1>2, StrayKept DEF Collects, GcBegin, GcUnlink, GcPoints, GcEnd
<1>3. ASSUME CrashMaintenance PROVE StrayInv'
  <2>1. /\ rm' = NotRemoving \/ UNCHANGED rm
        /\ UNCHANGED <<revs, job, pubs, points, overtaken>>
    BY <1>3 DEF CrashMaintenance
  <2> QED
    BY <2>1 DEF StrayInv, PointsInv, RemovalInv, Bare, PointsOf, NotRemoving
<1>4. ASSUME \/ \E p \in Path, c \in Content \cup {None} : Edit(p, c)
             \/ Mount \/ ReconcileLook \/ ReconcilePrune
             \/ \E s \in Scanner : CrashScan(s)
             \/ UNCHANGED vars
      PROVE  StrayInv'
  <2>1. UNCHANGED <<rm, pubs, revs, points, overtaken, job>>
    BY <1>4 DEF Edit, Mount, ReconcileLook, ReconcilePrune, CrashScan, vars
  <2> QED
    BY <2>1, StrayKept
<1> QED
  BY <1>1, <1>2, <1>3, <1>4, WorksStray, RemovesStray DEF Next, Crash

-----------------------------------------------------------------------------
(* What the page shows.  An active revision whose job settled is           *)
(* published, but for one that became active after its job had ended.      *)

ShownInv ==
    \A r \in active : job[r] = "settled" => pubs[r] = "active" \/ r \in spent

\* Steps that settle no job, make no revision active and take no publication down.
LEMMA ShownKept ==
    ASSUME TypeInv, ShownInv, active' \subseteq active, UNCHANGED spent,
           \A r \in active' : /\ job'[r] = "settled" => job[r] = "settled"
                              /\ pubs[r] = "active" => pubs'[r] = "active"
    PROVE  ShownInv'
  BY DEF ShownInv

LEMMA ScansShown ==
    ASSUME TypeInv, CatalogInv, ShownInv, NEW s \in Scanner, Scans(s) \/ Browse(s)
    PROVE  ShownInv'
<1> USE DEF files, catalog, index, procs, history
<1>0. /\ job \in [Rev -> {"none", "open", "running"} \cup Ended]
      /\ active \subseteq Rev
  BY DEF TypeInv, TypeOK
<1>1. CASE Register(s)
  <2>1. PICK r \in Rev, new \in BOOLEAN : active' = IF new THEN Activated(r) ELSE active
    BY <1>1, RegisterStep
  <2>2. UNCHANGED <<job, pubs>> /\ spent \subseteq spent'
    BY <1>1 DEF Register
  <2>3. \A q \in active' \ active : job[q] \in Ended => q \in spent'
    BY <1>1 DEF Register, Activated
  <2> QED
    BY <2>2, <2>3 DEF ShownInv, Ended
<1>2. CASE ~Register(s)
  <2>1. UNCHANGED <<active, pubs, spent>>
    BY <1>2 DEF Scans, Goes, StartScan, Browse, NextFile, Hashed, Ingest, SaveState,
                EnqueueExtract, SaveLedger
  <2>2. \A r \in Rev : job'[r] = "settled" => job[r] = "settled"
    BY <1>0, <1>2 DEF Scans, Goes, StartScan, Browse, NextFile, Hashed, Ingest, SaveState,
                EnqueueExtract, SaveLedger, Queued
  <2> QED
    BY <1>0, <2>1, <2>2, ShownKept
<1> QED
  BY <1>1, <1>2

LEMMA ShownStep == TypeInv /\ CatalogInv /\ ShownInv /\ [Next]_vars => ShownInv'
<1> SUFFICES ASSUME TypeInv, CatalogInv, ShownInv, [Next]_vars PROVE ShownInv'
  OBVIOUS
<1> USE DEF files, catalog, index, procs, history
<1>0. /\ job \in [Rev -> {"none", "open", "running"} \cup Ended]
      /\ pubs \in [Rev -> {"none", "active", "superseded"}] /\ active \subseteq Rev
  BY DEF TypeInv, TypeOK
<1>1. ASSUME NEW r \in Rev, Publish(r) PROVE ShownInv'
  <2>1. /\ r \in active /\ UNCHANGED <<active, spent>>
        /\ job' = [job EXCEPT ![r] = "settled"] /\ pubs'[r] = "active"
    BY <1>0, <1>1 DEF Publish
  <2>2. \A q \in active : q # r => q[1] # r[1]
    BY <2>1 DEF CatalogInv, IsActive, Documents
  <2>3. \A q \in active : q # r => pubs'[q] = pubs[q]
    BY <1>0, <1>1, <2>2 DEF Publish
  <2> QED
    BY <1>0, <2>1, <2>3 DEF ShownInv
<1>2. ASSUME NEW r \in Rev, GiveUp(r) PROVE ShownInv'
  BY <1>0, <1>2, ShownKept DEF GiveUp, CatalogInv
<1>3. ASSUME NEW r \in Rev, Claim(r) \/ StoreResume(r) \/ CrashWorker(r) PROVE ShownInv'
  BY <1>0, <1>3, ShownKept DEF Claim, StoreResume, CrashWorker
<1>4. ASSUME RemoveRows PROVE ShownInv'
  <2>1. UNCHANGED spent /\ active' \subseteq active
    BY <1>4 DEF RemoveRows
  <2>2. \A r \in active' : job'[r] = "settled" => job[r] = "settled"
    BY <1>0, <1>4 DEF RemoveRows
  <2>3. \A r \in active' : pubs'[r] = pubs[r]
    BY <1>0, <1>4 DEF RemoveRows, Of, CatalogInv
  <2> QED
    BY <2>1, <2>2, <2>3, ShownKept
<1>5. CASE /\ ~RemoveRows
           /\ \A r \in Rev : ~Works(r) /\ ~CrashWorker(r)
           /\ \A s \in Scanner : ~(Scans(s) \/ Browse(s))
  <2>1. UNCHANGED <<active, job, pubs, spent>>
    BY <1>5 DEF Next, Crash, Removes, Collects, Edit, Mount, RemoveBegin, RemovePoints,
                RemoveRecount, RemoveUnlink, RemoveEnd, GcBegin, GcUnlink, GcPoints, GcEnd,
                ReconcileLook, ReconcilePrune, CrashScan, CrashMaintenance, vars
  <2> QED
    BY <2>1, ShownKept
<1> QED
  BY <1>1, <1>2, <1>3, <1>4, <1>5, ScansShown DEF Works

LEMMA ShownFollows == TypeInv /\ ShownInv => ShownIsUnderWay
<1> SUFFICES ASSUME TypeInv, ShownInv, NEW p \in Path,
                    Shown(ledger[p]) \in {"queued", "processing"}
             PROVE  job[ledger[p]] \in {"open", "running"} \/ ledger[p] \in spent
  BY DEF ShownIsUnderWay
<1> DEFINE r == ledger[p]
<1>1. r \in revs /\ revs \subseteq Rev
  BY DEF Shown, TypeInv, TypeOK
<1>2. job[r] \in {"none", "open", "running"} \cup Ended
  BY <1>1 DEF TypeInv, TypeOK
<1>3. job[r] \in {"open", "running"} \/ (job[r] = "settled" /\ r \in active /\ pubs[r] # "active")
  BY <1>1, <1>2 DEF Shown, Ended
<1> QED
  BY <1>3 DEF ShownInv

-----------------------------------------------------------------------------

LibraryInv ==
    /\ TypeInv
    /\ CatalogInv
    /\ OriginalsInv
    /\ NoBookForgotten
    /\ StrayInv
    /\ ShownInv

LEMMA LibraryInduction == Spec => []LibraryInv
<1>1. Init => LibraryInv
  <2> SUFFICES ASSUME Init PROVE LibraryInv
    OBVIOUS
  <2>1. CatalogInv
    BY DEF Init, CatalogInv, Documents
  <2>2. OriginalsInv
    BY DEF Init, OriginalsInv, PlansInv, ArchivedInv, OriginalsKept, NotRemoving,
           NotCollecting, NotScanning
  <2>3. NoBookForgotten /\ StrayInv /\ ShownInv
    BY DEF Init, NoBookForgotten, ShownInv, StrayInv, PointsInv, RemovalInv, NotRemoving
  <2> QED
    BY <2>1, <2>2, <2>3, TypeInit DEF LibraryInv
<1>2. LibraryInv /\ [Next]_vars => LibraryInv'
  BY TypeStep, CatalogStep, OriginalsStep, ForgottenStep, StrayStep, ShownStep
     DEF LibraryInv
<1> QED
  BY <1>1, <1>2, PTL DEF Spec

\* Aliases and active marks name registered revisions, and every document has exactly one
\* active revision (register_source, _set_active, the transactions of removal and
\* reconcile), for any number of paths, contents and scanners.
THEOREM CatalogStaysConsistent == Spec => []OneActiveRevision
<1>1. LibraryInv => OneActiveRevision
  BY CatalogCounts DEF LibraryInv
<1> QED
  BY <1>1, LibraryInduction, PTL

\* No registered revision loses its original but to a deletion planned while nothing
\* referenced it (ingest_source, gc, remove): the one gap between plan and unlink.
THEOREM OriginalsAreKept == Spec => []OriginalsKept
<1>1. LibraryInv => OriginalsKept
  BY DEF LibraryInv, OriginalsInv
<1> QED
  BY <1>1, LibraryInduction, PTL

\* A removed document leaves no points behind, wherever its removal was cut off, unless one
\* of its jobs was claimed meanwhile (remove_document deletes points before rows).
THEOREM RemovalLeavesNoPoints == Spec => []NoStrayPoints
<1>1. LibraryInv => NoStrayPoints
  BY DEF LibraryInv, StrayInv, PointsInv, NoStrayPoints, Documents
<1> QED
  BY <1>1, LibraryInduction, PTL

\* A registered book has its extract job or is still in the hands of the scan that
\* registered it, but for one whose scan died in between (_process_file).
THEOREM RegisteredBooksAreQueued == Spec => []NoBookForgotten
<1>1. LibraryInv => NoBookForgotten
  BY DEF LibraryInv
<1> QED
  BY <1>1, LibraryInduction, PTL

\* What the page shows as queued or under way is under way (manual_selection_status), but
\* for a revision that became active after its job had ended.
THEOREM PageTellsTheTruth == Spec => []ShownIsUnderWay
<1>1. LibraryInv => ShownIsUnderWay
  BY ShownFollows DEF LibraryInv
<1> QED
  BY <1>1, LibraryInduction, PTL

\* Every variable keeps its type.
THEOREM LibraryIsTyped == Spec => []TypeOK
<1>1. LibraryInv => TypeOK
  BY DEF LibraryInv, TypeInv
<1> QED
  BY <1>1, LibraryInduction, PTL
=============================================================================
