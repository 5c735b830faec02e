--------------------------- MODULE Migration_proofs ---------------------------
(***************************************************************************)
(* Proofs about the import of older memories: MigrationSource (what is     *)
(* imported is what was reviewed) and Migration (an epoch's cards are its  *)
(* own), each for every value of its constants.                            *)
(*                                                                         *)
(* ImportedAsReviewed needs SourceIInv: what the review shows is one scan, *)
(* the archive and the cards come from the plan, a staged epoch has copied *)
(* every file that has a hash, and each operation between two of its reads *)
(* has only records of the plan left to do.                                *)
(*                                                                         *)
(* OnlyItsOwnCards needs MigIInv: a record's or an adapter's card exists   *)
(* and was created by that epoch, and the same of the listing a cutover    *)
(* carries and of the card an import is about to note.  A card's revision  *)
(* is bounded by the user's moves, so that a card a rollback finds at the  *)
(* revision imported was not moved.                                        *)
(***************************************************************************)
EXTENDS MigrationSource, Migration, TLAPS

----------------------------------------------------------------------------
(* The sources: what is imported is what was reviewed.                     *)

\* The plan under review is one scan of the files, whatever they were by then.
ReviewOK ==
  kind = "legacy" /\ approved # NoReview =>
    \E seen \in [SourceFile -> Readings] : approved = PlanOf(seen)

\* What is in the archive or became a card is of the plan.
ArchiveOK ==
  \A f \in SourceFile : archive[f] # Gone =>
    kind = "legacy" /\ approved # NoReview /\ <<f, archive[f]>> \in approved.files
MadeOK ==
  /\ approved = NoReview => made = {} /\ ~eligible
  /\ kind = "legacy" /\ approved # NoReview =>
       made \subseteq {CardOfRecord(r) : r \in Planned(approved.records)}
  /\ kind = "sandglass" /\ approved # NoReview => made \subseteq Candidates(approved.text)

\* The plan's files that have a hash; a staged epoch has copied them.
Hashed == {e \in approved.files : e[2] # Gone}
CopiedOK(files) == \A e \in files : archive[e[1]] = e[2]
StagedOK == kind = "legacy" /\ manifest # NoReview => CopiedOK(Hashed)

VerifiedOK ==
  /\ kind = "legacy" /\ eligible =>
       \A r \in approved.records : CardOfRecord(r) \in made \/ r.state = "ignored"
  /\ kind = "sandglass" /\ eligible => Candidates(approved.text) \subseteq made

\* What an operation still holds of what it found when it began.
Stands(for) ==
  /\ for = "plan" => approved = NoReview
  /\ for = "stage" => approved # NoReview /\ manifest = NoReview
  /\ for \in {"import", "verify", "payload"} => manifest # NoReview
JobOK ==
  /\ job.does \in {"scan", "copy", "next", "read"} => kind = "legacy"
  /\ job.does \in {"hash text", "hash index", "read text", "read rows", "read index",
                   "candidates"} => kind = "sandglass"
  /\ job.does \in {"scan", "hash text", "hash index", "read text", "read rows",
                   "read index"} => Stands(job.for)
  /\ job.does \in {"hash text", "hash index"} => job.for \in {"import", "verify"}
  /\ job.does = "scan" /\ job.for = "payload" =>
       job.left # {} /\ job.left \subseteq Planned(approved.records)
  /\ job.does = "copy" => /\ approved # NoReview /\ manifest = NoReview
                          /\ job.plan = approved /\ job.todo \subseteq Hashed
                          /\ CopiedOK(Hashed \ job.todo)
  /\ job.does \in {"next", "read"} =>
       manifest # NoReview /\ job.left \subseteq Planned(approved.records)
  /\ job.does = "read" => job.left # {}
  /\ job.does = "candidates" => /\ manifest # NoReview
                                /\ job.left \subseteq Candidates(approved.text)

SourceIInv ==
  /\ SourceTypeOK
  /\ ReviewOK /\ ArchiveOK /\ MadeOK /\ StagedOK /\ VerifiedOK
  /\ JobOK

----------------------------------------------------------------------------
\* An element of a sequence is of the set the sequence is over.
LEMMA ElementIs ==
  ASSUME NEW A, NEW q \in Seq(A), NEW i \in DOMAIN q
  PROVE  q[i] \in A
OBVIOUS

\* What a file is read as, when there is something to read.
Found == Bytes \cup {Unreadable}

\* A record is of its file; one that is planned is of bytes that are not sensitive.
LEMMA RecordIs ==
  ASSUME NEW f \in SourceFile, NEW b \in Found, NEW r \in RecordsOf(f, b)
  PROVE  /\ r \in SourceRecords
         /\ r.state = "planned" => r.bytes \in Bytes /\ ~r.bytes.sensitive
<1>0. b \in FileBytes
  <2>1. <<>> \in Seq(BOOLEAN)
    OBVIOUS
  <2>2. TRUE \in BOOLEAN /\ FALSE \in BOOLEAN
    BY Zenon
  <2>3. Unreadable \in FileBytes
    BY <2>1, <2>2 DEF Unreadable, FileBytes
  <2> QED BY <2>3, MigrationSourceAssumption DEF Found
<1>1. /\ b.items \in Seq(BOOLEAN)
      /\ \A i \in DOMAIN b.items : i \in Nat
  BY <1>0 DEF FileBytes
<1>2. b.readable => b \in Bytes
  BY DEF Found, Unreadable
<1>3. (IF b.readable THEN b ELSE Gone) \in Bytes \cup {Gone}
  BY <1>2
<1>4. \A i \in Nat, s \in {"planned", "quarantined", "ignored"} :
        SourceRecord(f, b, i, s) \in SourceRecords
  BY <1>3 DEF SourceRecord, SourceRecords
<1>5. Trouble(b) \in {"none", "quarantined", "ignored"}
  BY DEF Trouble
<1>6. CASE Trouble(b) # "none"
  <2>1. r = SourceRecord(f, b, 0, Trouble(b))
    BY <1>6 DEF RecordsOf
  <2>2. r.state = Trouble(b)
    BY <2>1 DEF SourceRecord
  <2> QED BY <1>4, <1>5, <1>6, <2>1, <2>2
<1>7. CASE Trouble(b) = "none" /\ b.items = <<>>
  <2>1. r = SourceRecord(f, b, 0, "ignored")
    BY <1>7 DEF RecordsOf
  <2>2. r.state = "ignored"
    BY <2>1 DEF SourceRecord
  <2> QED BY <1>4, <2>1, <2>2
<1>8. CASE Trouble(b) = "none" /\ b.items # <<>>
  <2>1. PICK i \in DOMAIN b.items :
          r = SourceRecord(f, b, i, IF b.items[i] THEN "planned" ELSE "quarantined")
    BY <1>8 DEF RecordsOf
  <2>2. r \in SourceRecords
    BY <1>1, <1>4, <2>1
  <2>3. b.readable /\ ~b.sensitive
    BY <1>8 DEF Trouble
  <2>4. r.bytes = b
    BY <2>1, <2>3 DEF SourceRecord
  <2> QED BY <1>2, <2>2, <2>3, <2>4
<1> QED BY <1>6, <1>7, <1>8

\* A plan has such records, and one hash for a file.
LEMMA PlanIs ==
  ASSUME NEW seen \in [SourceFile -> Readings]
  PROVE  /\ PlanOf(seen) \in ReviewPlans
         /\ \A r \in Planned(PlanOf(seen).records) : r.bytes \in Bytes /\ ~r.bytes.sensitive
         /\ \A d, e \in PlanOf(seen).files : d[1] = e[1] => d[2] = e[2]
<1> DEFINE There == {g \in SourceFile : seen[g] # Gone}
<1>1. ASSUME NEW f \in There PROVE f \in SourceFile /\ seen[f] \in Found
  BY <1>1 DEF Readings, Found
<1>2. ASSUME NEW r \in Records(seen)
      PROVE  /\ r \in SourceRecords
             /\ r.state = "planned" => r.bytes \in Bytes /\ ~r.bytes.sensitive
  <2>1. PICK f \in There : r \in RecordsOf(f, seen[f])
    BY <1>2 DEF Records
  <2> HIDE DEF There
  <2> QED BY <1>1, <2>1, RecordIs
<1>3. ASSUME NEW f \in There PROVE Hash(f, seen[f]) \in Bytes \cup {Gone}
  BY <1>1, <1>3 DEF Hash, Found, Unreadable
<1>4. /\ PlanOf(seen).records = Records(seen)
      /\ PlanOf(seen).files = {<<f, Hash(f, seen[f])>> : f \in There}
      /\ PlanOf(seen) = [records |-> PlanOf(seen).records, files |-> PlanOf(seen).files]
  BY DEF PlanOf
<1>5. PlanOf(seen).records \subseteq SourceRecords
  BY <1>2, <1>4
<1>6. PlanOf(seen).files \subseteq SourceFile \X (Bytes \cup {Gone})
  BY <1>1, <1>3, <1>4
<1>7. PlanOf(seen) \in ReviewPlans
  BY <1>4, <1>5, <1>6 DEF ReviewPlans
<1>8. \A r \in Planned(PlanOf(seen).records) : r.bytes \in Bytes /\ ~r.bytes.sensitive
  BY <1>2, <1>4 DEF Planned
<1>9. \A d, e \in PlanOf(seen).files : d[1] = e[1] => d[2] = e[2]
  BY <1>4
<1> QED BY <1>7, <1>8, <1>9

\* The plan that was reviewed.
LEMMA ReviewIs ==
  ASSUME SourceTypeOK, ReviewOK, kind = "legacy", approved # NoReview
  PROVE  /\ approved \in ReviewPlans
         /\ \A r \in Planned(approved.records) :
              r \in SourceRecords /\ r.bytes \in Bytes /\ ~r.bytes.sensitive
         /\ \A d, e \in approved.files : d[1] = e[1] => d[2] = e[2]
<1>1. PICK seen \in [SourceFile -> Readings] : approved = PlanOf(seen)
  BY DEF ReviewOK
<1>2. approved \in ReviewPlans
  BY <1>1, PlanIs
<1>3. Planned(approved.records) \subseteq SourceRecords
  BY <1>2 DEF ReviewPlans, Planned
<1> QED BY <1>1, <1>2, <1>3, PlanIs

\* The property, from what the invariant says apart.
LEMMA Reviewed == SourceIInv => ImportedAsReviewed
<1> SUFFICES ASSUME SourceIInv PROVE ImportedAsReviewed
  OBVIOUS
<1>0. SourceTypeOK /\ ReviewOK /\ ArchiveOK /\ MadeOK /\ StagedOK /\ VerifiedOK
  BY DEF SourceIInv
<1>1. ASSUME kind = "legacy", NEW c \in made
      PROVE  /\ \E r \in approved.records : r.state = "planned" /\ c = CardOfRecord(r)
             /\ ~c.bytes.sensitive
  <2>1. approved # NoReview
    BY <1>0, <1>1 DEF MadeOK
  <2>2. PICK r \in Planned(approved.records) : c = CardOfRecord(r)
    BY <1>0, <1>1, <2>1 DEF MadeOK
  <2>3. ~r.bytes.sensitive
    BY <1>0, <1>1, <2>1, ReviewIs
  <2>4. c.bytes = r.bytes
    BY <2>2 DEF CardOfRecord
  <2> QED BY <2>2, <2>3, <2>4 DEF Planned
<1>2. ASSUME kind = "legacy", manifest # NoReview, NEW e \in approved.files
      PROVE  archive[e[1]] = e[2]
  <2>1. approved # NoReview
    BY <1>0, <1>2 DEF SourceTypeOK
  <2>2. approved \in ReviewPlans /\ \A d \in approved.files : d[1] = e[1] => d[2] = e[2]
    BY <1>0, <1>2, <2>1, ReviewIs
  <2>3. e[1] \in SourceFile
    BY <1>2, <2>2 DEF ReviewPlans
  <2>4. CASE e[2] # Gone
    BY <1>0, <1>2, <2>4 DEF StagedOK, CopiedOK, Hashed
  <2>5. CASE e[2] = Gone /\ archive[e[1]] # Gone
    <3>1. PICK d \in approved.files : d = <<e[1], archive[e[1]]>>
      BY <1>0, <2>3, <2>5 DEF ArchiveOK
    <3>2. d[2] = e[2]
      BY <2>2, <3>1
    <3> QED BY <2>5, <3>1, <3>2
  <2> QED BY <2>4, <2>5
<1>3. ASSUME kind = "sandglass", NEW c \in made
      PROVE  /\ c.text = approved.text
             /\ \A i \in c.lines : c.text[i].user /\ ~c.text[i].sensitive
  <2>1. approved # NoReview
    BY <1>0, <1>3 DEF MadeOK
  <2>2. c \in Candidates(approved.text)
    BY <1>0, <1>3, <2>1 DEF MadeOK
  <2>3. PICK g : c = [text |-> approved.text, group |-> g, lines |-> LinesOf(approved.text, g)]
    BY <2>2 DEF Candidates
  <2> QED BY <2>3 DEF LinesOf
<1> QED BY <1>0, <1>1, <1>2, <1>3 DEF ImportedAsReviewed, VerifiedOK

----------------------------------------------------------------------------
(* Steps.                                                                  *)

\* A job that changes nothing stored, or the user.
LEMMA JobMoves ==
  ASSUME SourceIInv, StoredUnchanged, kind' = kind,
         legacy' \in [SourceFile -> Bytes \cup {Gone}],
         sandglass' \in [text : History \cup {Gone}, index : History \cup {Gone}],
         edits' \in 0 .. MaxEdits, job' \in Jobs, JobOK'
  PROVE  SourceIInv'
<1>1. /\ approved' = approved /\ archive' = archive /\ manifest' = manifest
      /\ made' = made /\ eligible' = eligible
  BY DEF StoredUnchanged, stored
<1>2. SourceTypeOK'
  BY <1>1 DEF SourceIInv, SourceTypeOK
<1>3. ReviewOK'
  BY <1>1 DEF SourceIInv, ReviewOK
<1>4. ArchiveOK' /\ MadeOK'
  BY <1>1 DEF SourceIInv, ArchiveOK, MadeOK
<1>5. StagedOK' /\ VerifiedOK'
  BY <1>1 DEF SourceIInv, StagedOK, CopiedOK, Hashed, VerifiedOK
<1> QED BY <1>2, <1>3, <1>4, <1>5 DEF SourceIInv

\* Operations leave the user's files alone.
LEMMA Moved ==
  ASSUME SourceIInv, StoredUnchanged, SourcesUnchanged, job' \in Jobs, JobOK'
  PROVE  SourceIInv'
<1>1. /\ kind' = kind /\ legacy' \in [SourceFile -> Bytes \cup {Gone}]
      /\ sandglass' \in [text : History \cup {Gone}, index : History \cup {Gone}]
      /\ edits' \in 0 .. MaxEdits
  BY DEF SourceIInv, SourceTypeOK, SourcesUnchanged
<1> QED BY <1>1, JobMoves

\* No operation runs.
LEMMA Ended ==
  ASSUME job' = Unstarted
  PROVE  job' \in Jobs /\ JobOK'
<1>1. job'.does = "rest"
  BY DEF Unstarted
<1>2. job' \in Jobs
  BY DEF Jobs
<1>3. JobOK'
  BY <1>1 DEF JobOK
<1> QED BY <1>2, <1>3

\* What a job that does this or that is.
LEMMA JobIs ==
  ASSUME job \in Jobs
  PROVE  /\ job.does = "scan" =>
              job \in [does : {"scan"}, for : Operation \cup {"payload"},
                       left : SUBSET SourceRecords, todo : SUBSET SourceFile,
                       seen : [SourceFile -> Readings]]
         /\ job.does = "copy" =>
              job \in [does : {"copy"}, plan : ReviewPlans, todo : SUBSET (SourceFile \X Bytes)]
         /\ job.does \in {"next", "read"} =>
              job \in [does : {"next", "read"}, left : SUBSET SourceRecords]
         /\ job.does \in {"hash text", "hash index", "read text"} =>
              job \in [does : {"hash text", "hash index", "read text"}, for : Operation]
         /\ job.does \in {"read rows", "read index"} =>
              job \in [does : {"read rows", "read index"}, for : Operation, text : History]
         /\ job.does = "candidates" =>
              job \in [does : {"candidates"}, left : SUBSET CandidateRecords]
<1>1. CASE job \in [does : {"scan"}, for : Operation \cup {"payload"},
                       left : SUBSET SourceRecords, todo : SUBSET SourceFile,
                       seen : [SourceFile -> Readings]]
  BY <1>1
<1>2. CASE job \in [does : {"copy"}, plan : ReviewPlans, todo : SUBSET (SourceFile \X Bytes)]
  BY <1>2
<1>3. CASE job \in [does : {"next", "read"}, left : SUBSET SourceRecords]
  BY <1>3
<1>4. CASE job \in [does : {"hash text", "hash index", "read text"}, for : Operation]
  BY <1>4
<1>5. CASE job \in [does : {"read rows", "read index"}, for : Operation, text : History]
  BY <1>5
<1>6. CASE job \in [does : {"candidates"}, left : SUBSET CandidateRecords]
  BY <1>6
<1>7. CASE job = Unstarted
  BY <1>7 DEF Unstarted
<1> QED BY <1>1, <1>2, <1>3, <1>4, <1>5, <1>6, <1>7 DEF Jobs

----------------------------------------------------------------------------
\* Scans of the legacy files.
LEMMA ScanStands ==
  ASSUME SourceIInv, NEW for \in Operation \cup {"payload"},
         NEW left \in SUBSET SourceRecords, kind = "legacy", Stands(for),
         for = "payload" => left # {} /\ left \subseteq Planned(approved.records),
         StoredUnchanged, SourcesUnchanged, job' = Scan(for, left)
  PROVE  SourceIInv'
<1>1. Listed \in SUBSET SourceFile /\ [f \in SourceFile |-> Gone] \in [SourceFile -> Readings]
  BY DEF Listed, Readings
<1>2. job' = [does |-> "scan", for |-> for, left |-> left, todo |-> Listed,
              seen |-> [f \in SourceFile |-> Gone]]
  BY DEF Scan
<1>3. job' \in Jobs
  <2>1. job' \in [does : {"scan"}, for : Operation \cup {"payload"},
                  left : SUBSET SourceRecords, todo : SUBSET SourceFile,
                  seen : [SourceFile -> Readings]]
    BY <1>1, <1>2
  <2> QED BY <2>1 DEF Jobs
<1>4. /\ approved' = approved /\ manifest' = manifest /\ kind' = kind
      /\ job'.does = "scan" /\ job'.for = for /\ job'.left = left
  BY <1>2 DEF StoredUnchanged, stored, SourcesUnchanged
<1>5. Stands(job.for)'
  BY <1>4 DEF Stands
<1>6. JobOK'
  BY <1>4, <1>5 DEF JobOK
<1> QED BY <1>3, <1>6, Moved

LEMMA BeginScanKeeps ==
  ASSUME SourceIInv, NEW for \in Operation, BeginScan(for)
  PROVE  SourceIInv'
<1>1. Stands(for)
  BY DEF BeginScan, MayBegin, Stands, Operation
<1>2. for # "payload" /\ {} \in SUBSET SourceRecords
  BY DEF Operation
<1> QED BY <1>1, <1>2, ScanStands DEF BeginScan

LEMMA ReadFileKeeps ==
  ASSUME SourceIInv, ReadFile
  PROVE  SourceIInv'
<1>1. /\ job.does = "scan" /\ job \in Jobs /\ legacy \in [SourceFile -> Bytes \cup {Gone}]
      /\ StoredUnchanged /\ SourcesUnchanged
  BY DEF ReadFile, Does, SourceIInv, SourceTypeOK
<1>2. PICK f \in job.todo :
        job' = [job EXCEPT !.todo = @ \ {f},
                  !.seen[f] = IF legacy[f] = Gone THEN Unreadable ELSE legacy[f]]
  BY DEF ReadFile, NextOf
<1>3. PICK for \in Operation \cup {"payload"}, left \in SUBSET SourceRecords,
           todo \in SUBSET SourceFile, seen \in [SourceFile -> Readings] :
        job = [does |-> "scan", for |-> for, left |-> left, todo |-> todo, seen |-> seen]
  BY <1>1, JobIs
<1>4. PICK b \in Readings : b = IF legacy[f] = Gone THEN Unreadable ELSE legacy[f]
  BY <1>1, <1>2, <1>3 DEF Readings
<1>5. job' = [does |-> "scan", for |-> for, left |-> left, todo |-> todo \ {f},
              seen |-> [seen EXCEPT ![f] = b]]
  BY <1>2, <1>3, <1>4
<1>6. [seen EXCEPT ![f] = b] \in [SourceFile -> Readings]
  OBVIOUS
<1>7. job' \in Jobs
  BY <1>5, <1>6 DEF Jobs
<1>8. /\ approved' = approved /\ manifest' = manifest /\ kind' = kind
      /\ job'.does = "scan" /\ job'.for = job.for /\ job'.left = job.left
  BY <1>1, <1>3, <1>5 DEF StoredUnchanged, stored, SourcesUnchanged
<1>9. JobOK'
  BY <1>1, <1>8 DEF SourceIInv, JobOK, Stands
<1> QED BY <1>1, <1>7, <1>9, Moved

\* What a scan that ends has seen.
LEMMA ScannedIs ==
  ASSUME SourceIInv, NEW for, Scanned(for)
  PROVE  /\ job.seen \in [SourceFile -> Readings] /\ Stands(for) /\ kind = "legacy"
         /\ job.left \in SUBSET SourceRecords
         /\ for = "payload" => /\ job.left # {}
                               /\ job.left \subseteq Planned(approved.records)
<1>1. job.does = "scan" /\ job.for = for /\ job \in Jobs
  BY DEF Scanned, Does, SourceIInv, SourceTypeOK
<1>2. job.seen \in [SourceFile -> Readings] /\ job.left \in SUBSET SourceRecords
  BY <1>1, JobIs
<1> QED BY <1>1, <1>2 DEF SourceIInv, JobOK

LEMMA PlanEndsKeeps ==
  ASSUME SourceIInv, PlanEnds
  PROVE  SourceIInv'
<1>1. Scanned("plan") /\ approved' = PlanOf(job.seen) /\ job' = Unstarted
  BY DEF PlanEnds
<1>2. /\ archive' = archive /\ manifest' = manifest /\ made' = made /\ eligible' = eligible
      /\ kind' = kind /\ legacy' = legacy /\ sandglass' = sandglass /\ edits' = edits
  BY DEF PlanEnds, SourcesUnchanged
<1>3. approved = NoReview /\ kind = "legacy" /\ job.seen \in [SourceFile -> Readings]
  BY <1>1, ScannedIs DEF Stands
<1>4. approved' \in ReviewPlans /\ job' \in Jobs /\ JobOK'
  BY <1>1, <1>3, PlanIs, Ended
<1>5. SourceTypeOK'
  BY <1>2, <1>3, <1>4 DEF SourceIInv, SourceTypeOK
<1>6. ReviewOK'
  BY <1>1, <1>3 DEF ReviewOK
<1>7. ArchiveOK' /\ MadeOK'
  BY <1>2, <1>3 DEF SourceIInv, ArchiveOK, MadeOK
<1>8. manifest' = NoReview /\ ~eligible'
  BY <1>2, <1>3 DEF SourceIInv, SourceTypeOK, MadeOK
<1>9. StagedOK' /\ VerifiedOK'
  BY <1>8 DEF StagedOK, VerifiedOK
<1> QED BY <1>4, <1>5, <1>6, <1>7, <1>9 DEF SourceIInv

----------------------------------------------------------------------------
\* stage

LEMMA StageComparesKeeps ==
  ASSUME SourceIInv, StageCompares
  PROVE  SourceIInv'
<1>1. Scanned("stage") /\ StoredUnchanged /\ SourcesUnchanged
  BY DEF StageCompares
<1>2. kind = "legacy" /\ approved # NoReview /\ manifest = NoReview
  BY <1>1, ScannedIs DEF Stands
<1>3. CASE job' = Unstarted
  BY <1>1, <1>3, Ended, Moved
<1>4. CASE job' = [does |-> "copy", plan |-> approved, todo |-> Hashed]
  <2>1. approved \in ReviewPlans
    BY <1>2, ReviewIs DEF SourceIInv
  <2>2. Hashed \in SUBSET (SourceFile \X Bytes)
    BY <2>1 DEF Hashed, ReviewPlans
  <2>3. job' \in [does : {"copy"}, plan : ReviewPlans, todo : SUBSET (SourceFile \X Bytes)]
    BY <1>4, <2>1, <2>2
  <2>4. job' \in Jobs
    BY <2>3 DEF Jobs
  <2>5. /\ approved' = approved /\ manifest' = manifest /\ kind' = kind /\ Hashed' = Hashed
        /\ job'.does = "copy" /\ job'.plan = approved /\ job'.todo = Hashed
    BY <1>1, <1>4 DEF StoredUnchanged, stored, SourcesUnchanged, Hashed
  <2>6. JobOK'
    BY <1>2, <2>5 DEF JobOK, CopiedOK
  <2> QED BY <1>1, <2>4, <2>6, Moved
<1> QED BY <1>3, <1>4 DEF StageCompares, Hashed

\* A copy of some of the files.
LEMMA CopyIs ==
  ASSUME SourceIInv, job.does = "copy"
  PROVE  /\ kind = "legacy" /\ approved # NoReview /\ manifest = NoReview
         /\ \E todo \in SUBSET Hashed :
              job = [does |-> "copy", plan |-> approved, todo |-> todo]
         /\ approved \in ReviewPlans /\ Hashed \in SUBSET (SourceFile \X Bytes)
         /\ \A d, e \in approved.files : d[1] = e[1] => d[2] = e[2]
<1>1. /\ kind = "legacy" /\ approved # NoReview /\ manifest = NoReview
      /\ job.plan = approved /\ job.todo \subseteq Hashed
      /\ job \in [does : {"copy"}, plan : ReviewPlans, todo : SUBSET (SourceFile \X Bytes)]
  BY JobIs DEF SourceIInv, SourceTypeOK, JobOK
<1>2. job = [does |-> "copy", plan |-> approved, todo |-> job.todo]
  BY <1>1
<1>3. approved \in ReviewPlans /\ \A d, e \in approved.files : d[1] = e[1] => d[2] = e[2]
  BY <1>1, ReviewIs DEF SourceIInv
<1>4. Hashed \in SUBSET (SourceFile \X Bytes)
  BY <1>3 DEF Hashed, ReviewPlans
<1> QED BY <1>1, <1>2, <1>3, <1>4

LEMMA CopyFileKeeps ==
  ASSUME SourceIInv, CopyFile
  PROVE  SourceIInv'
<1>1. /\ job.does = "copy" /\ SourcesUnchanged
      /\ approved' = approved /\ manifest' = manifest /\ made' = made /\ eligible' = eligible
      /\ kind' = kind /\ legacy' = legacy /\ sandglass' = sandglass /\ edits' = edits
  BY DEF CopyFile, Does, SourcesUnchanged
<1>2. PICK todo \in SUBSET Hashed :
        job = [does |-> "copy", plan |-> approved, todo |-> todo]
  BY <1>1, CopyIs
<1>3. /\ kind = "legacy" /\ approved # NoReview /\ manifest = NoReview /\ approved \in ReviewPlans
      /\ Hashed \in SUBSET (SourceFile \X Bytes)
      /\ \A d, e \in approved.files : d[1] = e[1] => d[2] = e[2]
  BY <1>1, CopyIs
<1>4. CASE archive' = archive /\ job' = Unstarted
  BY <1>1, <1>4, Ended, Moved DEF StoredUnchanged, stored
<1>5. CASE \E e \in todo : /\ legacy[e[1]] = e[2]
                           /\ archive' = [archive EXCEPT ![e[1]] = e[2]]
                           /\ job' = [job EXCEPT !.todo = @ \ {e}]
  <2>1. PICK e \in todo : /\ archive' = [archive EXCEPT ![e[1]] = e[2]]
                          /\ job' = [job EXCEPT !.todo = @ \ {e}]
    BY <1>5
  <2>2. e \in Hashed /\ e \in approved.files /\ e[1] \in SourceFile /\ e[2] \in Bytes
        /\ e = <<e[1], e[2]>>
    BY <1>2, <1>3, <2>1 DEF Hashed
  <2>3. /\ archive \in [SourceFile -> Bytes \cup {Gone}]
        /\ archive' \in [SourceFile -> Bytes \cup {Gone}]
        /\ archive'[e[1]] = e[2]
        /\ \A f \in SourceFile : f # e[1] => archive'[f] = archive[f]
    BY <2>1, <2>2 DEF SourceIInv, SourceTypeOK
  <2>4. job' = [does |-> "copy", plan |-> approved, todo |-> todo \ {e}]
    BY <1>2, <2>1
  <2>5. job' \in [does : {"copy"}, plan : ReviewPlans, todo : SUBSET (SourceFile \X Bytes)]
    BY <1>3, <2>4
  <2>6. job' \in Jobs
    BY <2>5 DEF Jobs
  <2>7. SourceTypeOK'
    BY <1>1, <2>3, <2>6 DEF SourceIInv, SourceTypeOK
  <2>8. ArchiveOK'
    <3> SUFFICES ASSUME NEW f \in SourceFile, archive'[f] # Gone
                 PROVE  <<f, archive'[f]>> \in approved.files
      BY <1>1, <1>3 DEF ArchiveOK
    <3>1. CASE f = e[1]
      BY <2>2, <2>3, <3>1
    <3>2. CASE f # e[1]
      BY <2>3, <3>2 DEF SourceIInv, ArchiveOK
    <3> QED BY <3>1, <3>2
  <2>9. CopiedOK(Hashed \ todo)
    BY <1>1, <1>2 DEF SourceIInv, JobOK
  <2>10. ASSUME NEW d \in Hashed, d \notin todo \ {e}
         PROVE  archive'[d[1]] = d[2]
    <3>1. d \in approved.files /\ d[1] \in SourceFile /\ d = <<d[1], d[2]>>
      BY <1>3, <2>10 DEF Hashed
    <3>2. CASE d[1] = e[1]
      <4>1. d[2] = e[2]
        BY <1>3, <2>2, <3>1, <3>2
      <4> QED BY <2>3, <3>2, <4>1
    <3>3. CASE d[1] # e[1]
      <4>1. d \in Hashed \ todo
        BY <2>10, <3>3
      <4>2. archive[d[1]] = d[2]
        BY <2>9, <4>1 DEF CopiedOK
      <4> QED BY <2>3, <3>1, <3>3, <4>2
    <3> QED BY <3>2, <3>3
  <2>11. /\ job'.does = "copy" /\ job'.plan = approved /\ job'.todo = todo \ {e}
         /\ Hashed' = Hashed
    BY <1>1, <2>4 DEF Hashed
  <2>12. CopiedOK(Hashed \ job.todo)'
    BY <2>10, <2>11 DEF CopiedOK
  <2>13. JobOK'
    BY <1>1, <1>2, <1>3, <2>11, <2>12 DEF JobOK
  <2>14. ReviewOK' /\ MadeOK' /\ StagedOK' /\ VerifiedOK'
    BY <1>1, <1>3 DEF SourceIInv, ReviewOK, MadeOK, StagedOK, VerifiedOK
  <2> QED BY <2>7, <2>8, <2>13, <2>14 DEF SourceIInv
<1> QED BY <1>1, <1>2, <1>4, <1>5 DEF CopyFile, SameBytes

LEMMA StageEndsKeeps ==
  ASSUME SourceIInv, StageEnds
  PROVE  SourceIInv'
<1>1. /\ job.does = "copy" /\ job.todo = {} /\ manifest' = job.plan /\ job' = Unstarted
      /\ approved' = approved /\ archive' = archive /\ made' = made /\ eligible' = eligible
      /\ kind' = kind /\ legacy' = legacy /\ sandglass' = sandglass /\ edits' = edits
  BY DEF StageEnds, Does, SourcesUnchanged
<1>2. job.plan = approved /\ CopiedOK(Hashed)
  BY <1>1 DEF SourceIInv, JobOK
<1>3. job' \in Jobs /\ JobOK'
  BY <1>1, Ended
<1>4. SourceTypeOK'
  BY <1>1, <1>2, <1>3 DEF SourceIInv, SourceTypeOK
<1>5. StagedOK'
  BY <1>1, <1>2 DEF StagedOK, CopiedOK, Hashed
<1>6. ReviewOK' /\ ArchiveOK' /\ MadeOK' /\ VerifiedOK'
  BY <1>1 DEF SourceIInv, ReviewOK, ArchiveOK, MadeOK, VerifiedOK
<1> QED BY <1>3, <1>4, <1>5, <1>6 DEF SourceIInv

----------------------------------------------------------------------------
\* import_epoch and verify

\* Nothing but the records that are left is held between two cards.
LEMMA NextStands ==
  ASSUME SourceIInv, NEW does \in {"next", "read"}, NEW left \in SUBSET SourceRecords,
         kind = "legacy", manifest # NoReview, left \subseteq Planned(approved.records),
         does = "read" => left # {},
         approved' = approved, manifest' = manifest, kind' = kind,
         job' = [does |-> does, left |-> left]
  PROVE  job' \in Jobs /\ JobOK'
<1>1. job' \in [does : {"next", "read"}, left : SUBSET SourceRecords]
  OBVIOUS
<1>2. job' \in Jobs
  BY <1>1 DEF Jobs
<1>3. job'.does = does /\ job'.left = left
  OBVIOUS
<1>4. JobOK'
  BY <1>3 DEF JobOK
<1> QED BY <1>2, <1>4

LEMMA ImportComparesKeeps ==
  ASSUME SourceIInv, ImportCompares
  PROVE  SourceIInv'
<1>1. Scanned("import") /\ StoredUnchanged /\ SourcesUnchanged
  BY DEF ImportCompares
<1>2. kind = "legacy" /\ manifest # NoReview
  BY <1>1, ScannedIs DEF Stands
<1>3. CASE job' = Unstarted
  BY <1>1, <1>3, Ended, Moved
<1>4. CASE job' = [does |-> "next", left |-> Planned(manifest.records)]
  <2>1. manifest = approved /\ approved # NoReview
    BY <1>2 DEF SourceIInv, SourceTypeOK
  <2>2. approved \in ReviewPlans
    BY <1>2, <2>1, ReviewIs DEF SourceIInv
  <2>3. Planned(approved.records) \in SUBSET SourceRecords
    BY <2>2 DEF ReviewPlans, Planned
  <2>4. job' \in Jobs /\ JobOK'
    BY <1>1, <1>2, <1>4, <2>1, <2>3, NextStands DEF StoredUnchanged, stored, SourcesUnchanged
  <2> QED BY <1>1, <2>4, Moved
<1> QED BY <1>3, <1>4 DEF ImportCompares

\* The records that are left of an import.
LEMMA LeftIs ==
  ASSUME SourceIInv, job.does \in {"next", "read"}
  PROVE  /\ kind = "legacy" /\ manifest # NoReview /\ manifest = approved
         /\ job.left \in SUBSET SourceRecords /\ job.left \subseteq Planned(approved.records)
         /\ job.does = "read" => job.left # {}
BY JobIs DEF SourceIInv, SourceTypeOK, JobOK

LEMMA NextRecordKeeps ==
  ASSUME SourceIInv, NextRecord
  PROVE  SourceIInv'
<1>1. /\ job.does = "next" /\ job.left # {} /\ job' = Scan("payload", job.left)
      /\ StoredUnchanged /\ SourcesUnchanged
  BY DEF NextRecord, Does
<1>2. /\ kind = "legacy" /\ manifest # NoReview /\ job.left \in SUBSET SourceRecords
      /\ job.left \subseteq Planned(approved.records)
  BY <1>1, LeftIs
<1>3. Stands("payload")
  BY <1>2 DEF Stands
<1> QED BY <1>1, <1>2, <1>3, ScanStands

LEMMA PayloadFoundKeeps ==
  ASSUME SourceIInv, PayloadFound
  PROVE  SourceIInv'
<1>1. Scanned("payload") /\ StoredUnchanged /\ SourcesUnchanged
  BY DEF PayloadFound
<1>2. /\ kind = "legacy" /\ manifest # NoReview /\ job.left \in SUBSET SourceRecords
      /\ job.left # {} /\ job.left \subseteq Planned(approved.records)
  BY <1>1, ScannedIs DEF Stands
<1>3. CASE job' = Unstarted
  BY <1>1, <1>3, Ended, Moved
<1>4. CASE job' = [does |-> "read", left |-> job.left]
  <2>1. job' \in Jobs /\ JobOK'
    BY <1>1, <1>2, <1>4, NextStands DEF StoredUnchanged, stored, SourcesUnchanged
  <2> QED BY <1>1, <2>1, Moved
<1> QED BY <1>3, <1>4 DEF PayloadFound

\* Cards are only added: what verify found stays so.
LEMMA MadeMore ==
  ASSUME SourceIInv, made \subseteq made', made' \subseteq (IF kind = "legacy" THEN FileCards ELSE CandidateRecords),
         UNCHANGED <<approved, archive, manifest, eligible>>, SourcesUnchanged,
         job' \in Jobs, JobOK', MadeOK'
  PROVE  SourceIInv'
<1>1. /\ approved' = approved /\ archive' = archive /\ manifest' = manifest
      /\ eligible' = eligible
      /\ kind' = kind /\ legacy' = legacy /\ sandglass' = sandglass /\ edits' = edits
  BY DEF SourcesUnchanged
<1>2. SourceTypeOK'
  BY <1>1 DEF SourceIInv, SourceTypeOK
<1>3. ReviewOK' /\ ArchiveOK'
  BY <1>1 DEF SourceIInv, ReviewOK, ArchiveOK
<1>4. StagedOK'
  BY <1>1 DEF SourceIInv, StagedOK, CopiedOK, Hashed
<1>5. VerifiedOK'
  BY <1>1 DEF SourceIInv, VerifiedOK
<1> QED BY <1>2, <1>3, <1>4, <1>5 DEF SourceIInv

LEMMA MakeCardKeeps ==
  ASSUME SourceIInv, MakeCard
  PROVE  SourceIInv'
<1>1. /\ job.does = "read" /\ UNCHANGED <<approved, archive, manifest, eligible>>
      /\ SourcesUnchanged /\ approved' = approved /\ manifest' = manifest /\ kind' = kind
  BY DEF MakeCard, Does, SourcesUnchanged
<1>2. /\ kind = "legacy" /\ manifest # NoReview /\ approved # NoReview
      /\ job.left \in SUBSET SourceRecords /\ job.left \subseteq Planned(approved.records)
      /\ job.left # {}
  BY <1>1, LeftIs
<1>3. PICK r \in job.left : r = NextOf(job.left)
  BY <1>2 DEF NextOf
<1>4. CASE made' = made /\ job' = Unstarted
  BY <1>1, <1>4, Ended, Moved DEF StoredUnchanged, stored
<1>5. CASE /\ legacy[r.file] = r.bytes
           /\ made' = made \cup {[file |-> r.file, item |-> r.item,
                                  bytes |-> legacy[r.file]]}
           /\ job' = [does |-> "next", left |-> job.left \ {r}]
  <2>1. r \in SourceRecords /\ r.bytes \in Bytes /\ r \in Planned(approved.records)
    BY <1>2, <1>3, ReviewIs DEF SourceIInv
  <2>2. made' = made \cup {CardOfRecord(r)}
    BY <1>5 DEF CardOfRecord
  <2>3. CardOfRecord(r) \in FileCards
    BY <2>1 DEF CardOfRecord, FileCards, SourceRecords
  <2>4. made \subseteq FileCards
    BY <1>2 DEF SourceIInv, SourceTypeOK
  <2>5. made' \subseteq (IF kind = "legacy" THEN FileCards ELSE CandidateRecords)
    BY <1>2, <2>2, <2>3, <2>4
  <2>6. job' \in Jobs /\ JobOK'
    <3>1. job.left \ {r} \in SUBSET SourceRecords
          /\ (job.left \ {r} \subseteq Planned(approved.records))
      BY <1>2
    <3> QED BY <1>1, <1>2, <1>5, <3>1, NextStands
  <2>7. MadeOK'
    BY <1>1, <1>2, <2>1, <2>2 DEF SourceIInv, MadeOK
  <2> QED BY <1>1, <2>2, <2>5, <2>6, <2>7, MadeMore
<1> QED BY <1>3, <1>4, <1>5 DEF MakeCard, RecordBytes

\* verify writes down what it found.
LEMMA EligibleIs ==
  ASSUME SourceIInv, kind' = kind, legacy' = legacy, sandglass' = sandglass, edits' = edits,
         approved' = approved, archive' = archive, manifest' = manifest, made' = made,
         approved # NoReview, eligible' \in BOOLEAN, VerifiedOK', job' = Unstarted
  PROVE  SourceIInv'
<1>1. job' \in Jobs /\ JobOK'
  BY Ended
<1>2. SourceTypeOK'
  BY <1>1 DEF SourceIInv, SourceTypeOK
<1>3. ReviewOK' /\ ArchiveOK' /\ MadeOK'
  BY DEF SourceIInv, ReviewOK, ArchiveOK, MadeOK
<1>4. StagedOK'
  BY DEF SourceIInv, StagedOK, CopiedOK, Hashed
<1> QED BY <1>1, <1>2, <1>3, <1>4 DEF SourceIInv

LEMMA VerifyEndsKeeps ==
  ASSUME SourceIInv, VerifyEnds
  PROVE  SourceIInv'
<1>1. /\ Scanned("verify") /\ job' = Unstarted /\ SourcesUnchanged
      /\ approved' = approved /\ archive' = archive /\ manifest' = manifest /\ made' = made
      /\ kind' = kind /\ legacy' = legacy /\ sandglass' = sandglass /\ edits' = edits
  BY DEF VerifyEnds, SourcesUnchanged
<1>2. kind = "legacy" /\ manifest # NoReview /\ manifest = approved
  BY <1>1, ScannedIs DEF Stands, SourceIInv, SourceTypeOK
<1>3. CASE eligible' = eligible
  <2>1. eligible' \in BOOLEAN /\ VerifiedOK'
    BY <1>1, <1>3 DEF SourceIInv, SourceTypeOK, VerifiedOK
  <2> QED BY <1>1, <1>2, <2>1, EligibleIs
<1>4. CASE eligible' = (/\ \A r \in Planned(approved.records) : CardOfRecord(r) \in made
                        /\ \A r \in approved.records : r.state # "quarantined")
  <2>1. eligible' \in BOOLEAN
    BY <1>4
  <2>2. approved \in ReviewPlans
    BY <1>2, ReviewIs DEF SourceIInv
  <2>3. \A r \in approved.records : r.state \in {"planned", "quarantined", "ignored"}
    BY <2>2 DEF ReviewPlans, SourceRecords
  <2>4. VerifiedOK'
    BY <1>1, <1>2, <1>4, <2>3 DEF VerifiedOK, Planned
  <2> QED BY <1>1, <1>2, <2>1, <2>4, EligibleIs
<1> QED BY <1>2, <1>3, <1>4 DEF VerifyEnds

----------------------------------------------------------------------------
\* A Sandglass source

LEMMA CandidatesAre ==
  ASSUME NEW text \in History
  PROVE  Candidates(text) \in SUBSET CandidateRecords
<1> SUFFICES ASSUME NEW c \in Candidates(text) PROVE c \in CandidateRecords
  OBVIOUS
<1>1. text \in Seq([user : BOOLEAN, sensitive : BOOLEAN, signal : STRING])
  BY MigrationSourceAssumption DEF Lines
<1>2. /\ \A i \in DOMAIN text : i \in Nat
      /\ \A i \in DOMAIN text : text[i].signal \in STRING
  <2>1. ASSUME NEW i \in DOMAIN text
        PROVE  text[i] \in [user : BOOLEAN, sensitive : BOOLEAN, signal : STRING]
    BY <1>1, ElementIs
  <2> QED BY <1>1, <2>1
<1>3. PICK g \in Signals(text) : c = [text |-> text, group |-> g, lines |-> LinesOf(text, g)]
  BY DEF Candidates
<1>4. g \in STRING
  BY <1>2 DEF Signals
<1>5. LinesOf(text, g) \in SUBSET Nat
  BY <1>2 DEF LinesOf
<1> QED BY <1>3, <1>4, <1>5 DEF CandidateRecords

\* The reading of a history, from its first step to its last.
LEMMA ReadingStands ==
  ASSUME SourceIInv, StoredUnchanged, SourcesUnchanged, kind = "sandglass",
         NEW for \in Operation, Stands(for),
         \/ \E does \in {"hash text", "hash index", "read text"} :
              /\ job' = [does |-> does, for |-> for]
              /\ does # "read text" => for \in {"import", "verify"}
         \/ \E does \in {"read rows", "read index"}, text \in History :
              job' = [does |-> does, for |-> for, text |-> text]
  PROVE  SourceIInv'
<1>1. /\ approved' = approved /\ manifest' = manifest /\ kind' = kind
  BY DEF StoredUnchanged, stored, SourcesUnchanged
<1>2. CASE \E does \in {"hash text", "hash index", "read text"} :
             /\ job' = [does |-> does, for |-> for]
             /\ does # "read text" => for \in {"import", "verify"}
  <2>1. PICK does \in {"hash text", "hash index", "read text"} :
          /\ job' = [does |-> does, for |-> for]
          /\ does # "read text" => for \in {"import", "verify"}
    BY <1>2
  <2>2. job' \in [does : {"hash text", "hash index", "read text"}, for : Operation]
    BY <2>1
  <2>3. job' \in Jobs
    BY <2>2 DEF Jobs
  <2>4. job'.does = does /\ job'.for = for
    BY <2>1
  <2>5. JobOK'
    BY <1>1, <2>1, <2>4 DEF JobOK, Stands
  <2> QED BY <2>3, <2>5, Moved
<1>3. CASE \E does \in {"read rows", "read index"}, text \in History :
             job' = [does |-> does, for |-> for, text |-> text]
  <2>1. PICK does \in {"read rows", "read index"}, text \in History :
          job' = [does |-> does, for |-> for, text |-> text]
    BY <1>3
  <2>2. job' \in [does : {"read rows", "read index"}, for : Operation, text : History]
    BY <2>1
  <2>3. job' \in Jobs
    BY <2>2 DEF Jobs
  <2>4. job'.does = does /\ job'.for = for
    BY <2>1
  <2>5. JobOK'
    BY <1>1, <2>1, <2>4 DEF JobOK, Stands
  <2> QED BY <2>3, <2>5, Moved
<1> QED BY <1>2, <1>3

LEMMA BeginHistoryKeeps ==
  ASSUME SourceIInv, NEW for \in Operation, BeginHistory(for)
  PROVE  SourceIInv'
<1>1. Stands(for) /\ kind = "sandglass" /\ StoredUnchanged /\ SourcesUnchanged
  BY DEF BeginHistory, MayBegin, Stands, Operation
<1>2. \E does \in {"hash text", "hash index", "read text"} :
        /\ job' = [does |-> does, for |-> for]
        /\ does # "read text" => for \in {"import", "verify"}
  BY DEF BeginHistory, Operation
<1> QED BY <1>1, <1>2, ReadingStands

\* A reading of a history that goes on.
LEMMA ReadingIs ==
  ASSUME SourceIInv,
         job.does \in {"hash text", "hash index", "read text", "read rows", "read index"}
  PROVE  /\ kind = "sandglass" /\ job.for \in Operation /\ Stands(job.for)
         /\ job.does \in {"hash text", "hash index"} => job.for \in {"import", "verify"}
         /\ job.does \in {"hash text", "hash index", "read text"} =>
              job = [does |-> job.does, for |-> job.for]
         /\ job.does \in {"read rows", "read index"} =>
              job.text \in History /\ job = [does |-> job.does, for |-> job.for,
                                             text |-> job.text]
<1>1. job \in Jobs /\ JobOK
  BY DEF SourceIInv, SourceTypeOK
<1>2. CASE job.does \in {"hash text", "hash index", "read text"}
  <2>1. job \in [does : {"hash text", "hash index", "read text"}, for : Operation]
    BY <1>1, <1>2, JobIs
  <2> QED BY <1>1, <1>2, <2>1 DEF JobOK
<1>3. CASE job.does \in {"read rows", "read index"}
  <2>1. job \in [does : {"read rows", "read index"}, for : Operation, text : History]
    BY <1>1, <1>3, JobIs
  <2> QED BY <1>1, <1>3, <2>1 DEF JobOK
<1> QED BY <1>2, <1>3

LEMMA HashStepKeeps ==
  ASSUME SourceIInv, HashText \/ HashIndex
  PROVE  SourceIInv'
<1>1. /\ job.does \in {"hash text", "hash index"} /\ StoredUnchanged /\ SourcesUnchanged
      /\ \/ job' = Unstarted
         \/ job' = [job EXCEPT !.does = "hash index"]
         \/ job' = [job EXCEPT !.does = "read text"]
  BY DEF HashText, HashIndex, HashStep, Does
<1>2. /\ kind = "sandglass" /\ job.for \in {"import", "verify"} /\ Stands(job.for)
      /\ job = [does |-> job.does, for |-> job.for]
  BY <1>1, ReadingIs
<1>0. PICK for \in {"import", "verify"} : job = [does |-> job.does, for |-> for] /\ Stands(for)
  BY <1>2
<1>3. PICK does : job = [does |-> does, for |-> for] /\ Stands(for)
  BY <1>0
<1>4. for \in Operation
  BY DEF Operation
<1>5. \/ job' = Unstarted
      \/ job' = [does |-> "hash index", for |-> for]
      \/ job' = [does |-> "read text", for |-> for]
  BY <1>1, <1>3
<1>6. CASE job' = Unstarted
  BY <1>1, <1>6, Ended, Moved
<1>7. CASE job' # Unstarted
  <2>1. \E at \in {"hash text", "hash index", "read text"} :
          /\ job' = [does |-> at, for |-> for]
          /\ at # "read text" => for \in {"import", "verify"}
    BY <1>5, <1>7
  <2> QED BY <1>1, <1>2, <1>3, <1>4, <2>1, ReadingStands
<1> QED BY <1>6, <1>7

LEMMA ReadTextKeeps ==
  ASSUME SourceIInv, ReadText
  PROVE  SourceIInv'
<1>1. job.does = "read text" /\ StoredUnchanged /\ SourcesUnchanged
  BY DEF ReadText, Does
<1>2. kind = "sandglass" /\ job.for \in Operation /\ Stands(job.for)
  BY <1>1, ReadingIs
<1>3. CASE job' = Unstarted
  BY <1>1, <1>3, Ended, Moved
<1>4. CASE /\ sandglass.text # Gone
           /\ job' = [does |-> "read rows", for |-> job.for, text |-> sandglass.text]
  <2>1. sandglass.text \in History
    BY <1>4 DEF SourceIInv, SourceTypeOK
  <2> QED BY <1>1, <1>2, <1>4, <2>1, ReadingStands
<1> QED BY <1>3, <1>4 DEF ReadText

LEMMA ReadRowsKeeps ==
  ASSUME SourceIInv, ReadRows
  PROVE  SourceIInv'
<1>1. job.does = "read rows" /\ StoredUnchanged /\ SourcesUnchanged
  BY DEF ReadRows, Does
<1>2. /\ kind = "sandglass" /\ job.for \in Operation /\ Stands(job.for) /\ job.text \in History
      /\ job = [does |-> job.does, for |-> job.for, text |-> job.text]
  BY <1>1, ReadingIs
<1>3. PICK for \in Operation, text \in History :
        job = [does |-> "read rows", for |-> for, text |-> text] /\ Stands(for)
  BY <1>1, <1>2
<1>4. CASE job' = Unstarted
  BY <1>1, <1>4, Ended, Moved
<1>5. CASE job' = [job EXCEPT !.does = "read index"]
  <2>1. job' = [does |-> "read index", for |-> for, text |-> text]
    BY <1>3, <1>5
  <2> QED BY <1>1, <1>2, <1>3, <2>1, ReadingStands
<1> QED BY <1>4, <1>5 DEF ReadRows

\* A complete scan of a history: it is reviewed, staged, imported or verified.
LEMMA HistoryPlanned ==
  ASSUME SourceIInv, kind = "sandglass", approved = NoReview, kind' = kind,
         legacy' = legacy, sandglass' = sandglass, edits' = edits, archive' = archive,
         made' = made, manifest' = manifest, eligible' = eligible,
         approved' \in HistoryPlans, job' = Unstarted
  PROVE  SourceIInv'
<1>1. job' \in Jobs /\ JobOK'
  BY Ended
<1>2. manifest = NoReview /\ made = {} /\ ~eligible
  BY DEF SourceIInv, SourceTypeOK, MadeOK
<1>3. SourceTypeOK'
  BY <1>1, <1>2 DEF SourceIInv, SourceTypeOK
<1>4. approved' # NoReview
  BY MigrationSourceAssumption
<1>5. ReviewOK' /\ ArchiveOK' /\ MadeOK' /\ StagedOK' /\ VerifiedOK'
  BY <1>2, <1>4 DEF SourceIInv, ReviewOK, ArchiveOK, MadeOK, StagedOK, VerifiedOK
<1> QED BY <1>1, <1>3, <1>5 DEF SourceIInv

LEMMA HistoryStaged ==
  ASSUME SourceIInv, kind = "sandglass", kind' = kind,
         legacy' = legacy, sandglass' = sandglass, edits' = edits, archive' = archive,
         made' = made, manifest' \in {manifest, approved}, eligible' = eligible,
         approved' = approved, job' = Unstarted
  PROVE  SourceIInv'
<1>1. job' \in Jobs /\ JobOK'
  BY Ended
<1>3. SourceTypeOK'
  BY <1>1 DEF SourceIInv, SourceTypeOK
<1>5. ReviewOK' /\ ArchiveOK' /\ MadeOK' /\ StagedOK' /\ VerifiedOK'
  BY DEF SourceIInv, ReviewOK, ArchiveOK, MadeOK, StagedOK, VerifiedOK
<1> QED BY <1>1, <1>3, <1>5 DEF SourceIInv

\* The candidates that are left of an import.
LEMMA CandidatesStand ==
  ASSUME SourceIInv, kind = "sandglass", manifest # NoReview, kind' = kind,
         approved' = approved, manifest' = manifest,
         NEW left \in SUBSET Candidates(approved.text),
         job' = [does |-> "candidates", left |-> left]
  PROVE  job' \in Jobs /\ JobOK'
<1>1. approved \in HistoryPlans
  BY DEF SourceIInv, SourceTypeOK
<1>2. left \in SUBSET CandidateRecords
  BY <1>1, CandidatesAre DEF HistoryPlans
<1>3. job' \in [does : {"candidates"}, left : SUBSET CandidateRecords]
  BY <1>2
<1>4. job' \in Jobs
  BY <1>3 DEF Jobs
<1>5. job'.does = "candidates" /\ job'.left = left
  OBVIOUS
<1>6. JobOK'
  BY <1>5 DEF JobOK
<1> QED BY <1>4, <1>6

LEMMA ReadIndexKeeps ==
  ASSUME SourceIInv, ReadIndex
  PROVE  SourceIInv'
<1>1. /\ job.does = "read index" /\ SourcesUnchanged
      /\ kind' = kind /\ legacy' = legacy /\ sandglass' = sandglass /\ edits' = edits
  BY DEF ReadIndex, Does, SourcesUnchanged
<1>2. kind = "sandglass" /\ job.for \in Operation /\ Stands(job.for) /\ job.text \in History
  BY <1>1, ReadingIs
<1>3. CASE job' = Unstarted /\ StoredUnchanged
  BY <1>1, <1>3, Ended, Moved
<1>4. CASE /\ sandglass.index # Gone /\ HistoryScanned(sandglass.index)
           /\ UNCHANGED <<archive, made>>
  <2> DEFINE plan == HistoryPlan(job.text, sandglass.index)
  <2>1. sandglass.index \in History
    BY <1>4 DEF SourceIInv, SourceTypeOK
  <2>2. plan \in HistoryPlans
    BY <1>2, <2>1 DEF HistoryPlan, HistoryPlans
  <2>3. CASE job.for = "plan"
    <3>1. approved' = plan /\ job' = Unstarted /\ UNCHANGED <<manifest, eligible>>
      BY <1>4, <2>3 DEF HistoryScanned
    <3>2. approved = NoReview
      BY <1>2, <2>3 DEF Stands
    <3> QED BY <1>1, <1>2, <1>4, <2>2, <3>1, <3>2, HistoryPlanned
  <2>4. CASE job.for = "stage"
    <3>1. /\ manifest' \in {manifest, approved}
          /\ job' = Unstarted /\ UNCHANGED <<approved, eligible>>
      BY <1>4, <2>4 DEF HistoryScanned
    <3> QED BY <1>1, <1>2, <1>4, <3>1, HistoryStaged
  <2>5. CASE job.for = "import"
    <3>1. /\ \/ job' = Unstarted
             \/ /\ job.text = manifest.text
                /\ job' = [does |-> "candidates", left |-> Candidates(job.text)]
          /\ UNCHANGED <<approved, manifest, eligible>>
      BY <1>4, <2>5 DEF HistoryScanned
    <3>2. StoredUnchanged /\ approved' = approved /\ manifest' = manifest
      BY <1>4, <3>1 DEF StoredUnchanged, stored
    <3>3. CASE job' = Unstarted
      BY <1>1, <3>2, <3>3, Ended, Moved
    <3>4. CASE /\ job.text = manifest.text
               /\ job' = [does |-> "candidates", left |-> Candidates(job.text)]
      <4>1. manifest # NoReview /\ manifest = approved
        BY <1>2, <2>5 DEF Stands, SourceIInv, SourceTypeOK
      <4>2. Candidates(job.text) \in SUBSET Candidates(approved.text)
        BY <3>4, <4>1
      <4>3. job' \in Jobs /\ JobOK'
        BY <1>1, <1>2, <3>2, <3>4, <4>1, <4>2, CandidatesStand
      <4> QED BY <1>1, <3>2, <4>3, Moved
    <3> QED BY <3>1, <3>3, <3>4
  <2>6. CASE job.for = "verify"
    <3>1. /\ job' = Unstarted /\ UNCHANGED <<approved, manifest>>
          /\ \/ eligible' = eligible
             \/ /\ job.text = manifest.text
                /\ eligible' = (Candidates(job.text) \subseteq made)
      BY <1>4, <2>6 DEF HistoryScanned
    <3>2. manifest # NoReview /\ manifest = approved
      BY <1>2, <2>6 DEF Stands, SourceIInv, SourceTypeOK
    <3>3. eligible' \in BOOLEAN
      <4>1. CASE eligible' = eligible
        BY <4>1 DEF SourceIInv, SourceTypeOK
      <4>2. CASE eligible' = (Candidates(job.text) \subseteq made)
        BY <4>2
      <4> QED BY <3>1, <4>1, <4>2
    <3>4. VerifiedOK'
      <4>1. CASE eligible' = eligible
        BY <1>1, <1>2, <1>4, <3>1, <4>1 DEF SourceIInv, VerifiedOK
      <4>2. CASE job.text = manifest.text /\ eligible' = (Candidates(job.text) \subseteq made)
        BY <1>1, <1>2, <1>4, <3>1, <3>2, <4>2 DEF VerifiedOK
      <4> QED BY <3>1, <4>1, <4>2
    <3> QED BY <1>1, <1>4, <3>1, <3>2, <3>3, <3>4, EligibleIs
  <2> QED BY <1>2, <2>3, <2>4, <2>5, <2>6 DEF Operation
<1> QED BY <1>3, <1>4 DEF ReadIndex

LEMMA MakeCandidateKeeps ==
  ASSUME SourceIInv, MakeCandidate
  PROVE  SourceIInv'
<1>1. /\ job.does = "candidates" /\ job.left # {} /\ SourcesUnchanged
      /\ made' = made \cup {NextOf(job.left)}
      /\ job' = [job EXCEPT !.left = @ \ {NextOf(job.left)}]
      /\ UNCHANGED <<approved, archive, manifest, eligible>>
      /\ kind' = kind /\ approved' = approved /\ manifest' = manifest
  BY DEF MakeCandidate, Does, SourcesUnchanged
<1>2. /\ kind = "sandglass" /\ manifest # NoReview
      /\ job.left \subseteq Candidates(approved.text)
      /\ job \in [does : {"candidates"}, left : SUBSET CandidateRecords]
  BY <1>1, JobIs DEF SourceIInv, SourceTypeOK, JobOK
<1>3. PICK c \in job.left : c = NextOf(job.left)
  BY <1>1 DEF NextOf
<1>4. PICK left \in SUBSET CandidateRecords : job = [does |-> "candidates", left |-> left]
  BY <1>2
<1>5. job' = [does |-> "candidates", left |-> left \ {c}]
  BY <1>1, <1>3, <1>4
<1>6. left \ {c} \in SUBSET Candidates(approved.text)
  BY <1>2, <1>4
<1>7. job' \in Jobs /\ JobOK'
  BY <1>1, <1>2, <1>5, <1>6, CandidatesStand
<1>8. made' = made \cup {c} /\ c \in Candidates(approved.text) /\ c \in CandidateRecords
  BY <1>1, <1>2, <1>3, <1>4
<1>9. made' \subseteq (IF kind = "legacy" THEN FileCards ELSE CandidateRecords)
  BY <1>2, <1>8 DEF SourceIInv, SourceTypeOK
<1>10. approved # NoReview
  BY <1>2 DEF SourceIInv, SourceTypeOK
<1>11. MadeOK'
  BY <1>1, <1>2, <1>8, <1>10 DEF SourceIInv, MadeOK
<1> QED BY <1>1, <1>7, <1>8, <1>9, <1>11, MadeMore

----------------------------------------------------------------------------
\* Whatever ends a job, and the user.

LEMMA EndKeeps ==
  ASSUME SourceIInv, ImportEnds \/ CandidatesEnd \/ JobDies
  PROVE  SourceIInv'
<1>1. job' = Unstarted /\ StoredUnchanged /\ SourcesUnchanged
  BY DEF ImportEnds, CandidatesEnd, JobDies
<1> QED BY <1>1, Ended, Moved

LEMMA UserEditsKeeps ==
  ASSUME SourceIInv, UserEdits
  PROVE  SourceIInv'
<1>1. /\ kind' = kind /\ job' = job /\ StoredUnchanged /\ edits < MaxEdits /\ edits' = edits + 1
      /\ approved' = approved /\ manifest' = manifest /\ archive' = archive
  BY DEF UserEdits, StoredUnchanged, stored
<1>2. edits' \in 0 .. MaxEdits
  BY <1>1, MigrationSourceAssumption DEF SourceIInv, SourceTypeOK
<1>3. /\ legacy' \in [SourceFile -> Bytes \cup {Gone}]
      /\ sandglass' \in [text : History \cup {Gone}, index : History \cup {Gone}]
  <2>0. /\ legacy \in [SourceFile -> Bytes \cup {Gone}]
        /\ sandglass \in [text : History \cup {Gone}, index : History \cup {Gone}]
    BY DEF SourceIInv, SourceTypeOK
  <2>1. CASE kind = "legacy"
    <3>1. PICK f \in SourceFile, b \in Bytes \cup {Gone} : legacy' = [legacy EXCEPT ![f] = b]
      BY <2>1 DEF UserEdits
    <3>2. sandglass' = sandglass
      BY <2>1 DEF UserEdits
    <3> QED BY <2>0, <3>1, <3>2
  <2>2. CASE kind # "legacy"
    <3>1. PICK f \in {"text", "index"}, h \in History \cup {Gone} :
            sandglass' = [sandglass EXCEPT ![f] = h]
      BY <2>2 DEF UserEdits
    <3>2. legacy' = legacy
      BY <2>2 DEF UserEdits
    <3> QED BY <2>0, <3>1, <3>2
  <2> QED BY <2>1, <2>2
<1>4. job' \in Jobs /\ JobOK'
  BY <1>1 DEF SourceIInv, SourceTypeOK, JobOK, Stands, CopiedOK, Hashed
<1> QED BY <1>1, <1>2, <1>3, <1>4, JobMoves

----------------------------------------------------------------------------
LEMMA SourceInitHolds == SourceInit => SourceIInv
<1> SUFFICES ASSUME SourceInit PROVE SourceIInv
  OBVIOUS
<1>1. /\ kind \in {"legacy", "sandglass"} /\ approved = NoReview /\ manifest = NoReview
      /\ archive = [f \in SourceFile |-> Gone] /\ made = {} /\ eligible = FALSE
      /\ job = Unstarted /\ edits = 0
  BY DEF SourceInit
<1>2. legacy \in [SourceFile -> Bytes \cup {Gone}]
  BY DEF SourceInit
<1>3. sandglass \in [text : History \cup {Gone}, index : History \cup {Gone}]
  BY DEF SourceInit
<1>4. job \in Jobs /\ job.does = "rest"
  BY <1>1 DEF Jobs, Unstarted
<1>5. eligible \in BOOLEAN
  <2>1. FALSE \in BOOLEAN
    BY Zenon
  <2> QED BY <1>1, <2>1
<1>6. SourceTypeOK
  BY <1>1, <1>2, <1>3, <1>4, <1>5, MigrationSourceAssumption DEF SourceTypeOK
<1>7. ReviewOK /\ ArchiveOK /\ MadeOK /\ StagedOK /\ VerifiedOK
  BY <1>1 DEF ReviewOK, ArchiveOK, MadeOK, StagedOK, VerifiedOK
<1>8. JobOK
  BY <1>4 DEF JobOK
<1> QED BY <1>6, <1>7, <1>8 DEF SourceIInv

\* Whatever a migration reads, and whatever the user writes meanwhile.
THEOREM SourceInvariance == SourceSpec => []SourceIInv
<1>1. ASSUME SourceIInv, [SourceNext]_sourceVars PROVE SourceIInv'
  <2>1. ASSUME NEW for \in Operation, BeginScan(for) \/ BeginHistory(for) PROVE SourceIInv'
    BY <1>1, <2>1, BeginScanKeeps, BeginHistoryKeeps
  <2>2. CASE ReadFile \/ PlanEnds \/ StageCompares \/ CopyFile \/ StageEnds
    BY <1>1, <2>2, ReadFileKeeps, PlanEndsKeeps, StageComparesKeeps, CopyFileKeeps,
       StageEndsKeeps
  <2>3. CASE ImportCompares \/ NextRecord \/ PayloadFound \/ MakeCard \/ VerifyEnds
    BY <1>1, <2>3, ImportComparesKeeps, NextRecordKeeps, PayloadFoundKeeps, MakeCardKeeps,
       VerifyEndsKeeps
  <2>4. CASE HashText \/ HashIndex \/ ReadText \/ ReadRows \/ ReadIndex \/ MakeCandidate
    BY <1>1, <2>4, HashStepKeeps, ReadTextKeeps, ReadRowsKeeps, ReadIndexKeeps,
       MakeCandidateKeeps
  <2>5. CASE ImportEnds \/ CandidatesEnd \/ JobDies \/ UserEdits
    BY <1>1, <2>5, EndKeeps, UserEditsKeeps
  <2>6. CASE UNCHANGED sourceVars
    <3>1. /\ StoredUnchanged /\ SourcesUnchanged /\ job' = job /\ approved' = approved
          /\ manifest' = manifest /\ archive' = archive /\ kind' = kind
      BY <2>6 DEF sourceVars, StoredUnchanged, stored, SourcesUnchanged
    <3>2. job' \in Jobs /\ JobOK'
      BY <1>1, <3>1 DEF SourceIInv, SourceTypeOK, JobOK, Stands, CopiedOK, Hashed
    <3> QED BY <1>1, <3>1, <3>2, Moved
  <2> QED BY <1>1, <2>1, <2>2, <2>3, <2>4, <2>5, <2>6 DEF SourceNext
<1> QED BY <1>1, SourceInitHolds, PTL DEF SourceSpec

\* The user's files, the reviewed plan, the archive, the epoch and its cards keep their
\* types, and so does an operation between any two of its reads.
THEOREM SourceTypeCorrect == SourceSpec => []SourceTypeOK
<1>1. SourceIInv => SourceTypeOK
  BY DEF SourceIInv
<1> QED BY <1>1, SourceInvariance, PTL

\* What is imported is what was reviewed, however the user's files changed and changed
\* back between the reads of plan, stage, import and verify.
THEOREM ImportIsOfTheReview == SourceSpec => []ImportedAsReviewed
BY SourceInvariance, Reviewed, PTL

----------------------------------------------------------------------------
(* Epochs and cards: what an epoch imported is its own.                    *)

\* A card's revision counts its import, what the user did, and one rollback.
RevisionOK(card) ==
  IF card.revision = 0 THEN card.lifecycle = "none" /\ card.moves = 0 /\ ~card.undone
  ELSE card.moves < card.revision /\ card.revision <= card.moves + 2

\* The card was created by the epoch; it stays so.
Own(e, c) == imports[c].revision > 0 /\ imports[c].epoch = e

RecordsOwn ==
  \A e \in Epoch, i \in Item :
    records[e][i].status = "imported" => Own(e, records[e][i].card)
AdaptersOwn == \A e \in Epoch : \A c \in adapters[e].listing.cards : Own(e, c)

WorkOK(w) ==
  /\ w.pc \in {"duplicate", "apply", "applied", "rejected"} => w.todo # {}
  /\ w.pc = "applied" => Own(w.epoch, w.card)
  /\ \A c \in w.listing.cards : Own(w.epoch, c)

MigIInv ==
  /\ MigTypeOK
  /\ \A c \in Card : RevisionOK(imports[c])
  /\ RecordsOwn /\ AdaptersOwn
  /\ \A m \in Migrator : WorkOK(work[m])

Pcs == {"rest", "manifest", "staging", "next", "duplicate", "apply", "applied",
        "rejected", "rows", "check", "list", "project", "forward", "switch off",
        "claim", "trash", "trashed"}
RowSet == [item : Item, card : Card, revision : 0 .. 1, status : RecordStatus]

\* What things are before anything happened.
LEMMA FirstValues ==
  ASSUME source.first \in Epoch
  PROVE  /\ NoCard \in Cards /\ RevisionOK(NoCard)
         /\ NoCard.revision = 0
         /\ NoRecord \in RecordRows /\ NoRecord.revision = 0
         /\ NoAdapter.listing \in Listings /\ NoAdapter.listing.cards = {}
         /\ NoAdapter \in [status : {"none", "forwarder", "read_only"}, listing : Listings]
         /\ Rest \in Works /\ Rest.pc = "rest" /\ Rest.listing = NoAdapter.listing
         /\ Rest.todo = {} /\ Rest.rows = {} /\ Rest.card \in Card
<1>1. (CHOOSE e \in Epoch : TRUE) \in Epoch /\ (CHOOSE c \in Card : TRUE) \in Card
  <2>1. PICK e \in Epoch, i \in Item : <<e, i>> \in Card
    BY MigrationAssumption DEF Card
  <2> QED BY <2>1
<1>2. 0 \in Revisions /\ 0 \in 0 .. MaxUserMoves /\ 0 \in 0 .. MaxGeneration
  BY MigrationAssumption DEF Revisions
<1>3. TRUE \in BOOLEAN /\ FALSE \in BOOLEAN
  BY Zenon
<1>4. NoCard \in Cards /\ NoCard.revision = 0
  BY <1>2, <1>3 DEF NoCard, Cards
<1>5. RevisionOK(NoCard)
  BY DEF NoCard, RevisionOK
<1>6. NoRecord \in RecordRows /\ NoRecord.revision = 0
  BY <1>1 DEF NoRecord, RecordRows, RecordStatus
<1>7. [c \in Card |-> 0] \in [Card -> Revisions]
  BY <1>2
<1>8. NoAdapter.listing \in Listings /\ NoAdapter.listing.cards = {}
  BY <1>2, <1>7 DEF NoAdapter, Listings
<1>9. NoAdapter \in [status : {"none", "forwarder", "read_only"}, listing : Listings]
  BY <1>8 DEF NoAdapter
<1>10. /\ Rest.pc = "rest" /\ Rest.listing = NoAdapter.listing
       /\ Rest.todo = {} /\ Rest.rows = {} /\ Rest.card \in Card
  BY <1>1 DEF Rest
<1>11. Rest \in Works
  BY <1>1, <1>3, <1>8 DEF Rest, Works
<1> QED BY <1>4, <1>5, <1>6, <1>8, <1>9, <1>10, <1>11

\* A process goes on with another pc.
LEMMA Turned ==
  ASSUME NEW w \in Works, NEW p \in Pcs
  PROVE  /\ [w EXCEPT !.pc = p] \in Works
         /\ [w EXCEPT !.pc = p].pc = p
         /\ [w EXCEPT !.pc = p].epoch = w.epoch
         /\ [w EXCEPT !.pc = p].todo = w.todo
         /\ [w EXCEPT !.pc = p].card = w.card
         /\ [w EXCEPT !.pc = p].rows = w.rows
         /\ [w EXCEPT !.pc = p].listing = w.listing
BY DEF Works, Pcs

\* One process moves and the rest of the state keeps its types; what an epoch owns it
\* goes on to own.
LEMMA OneMoves ==
  ASSUME MigIInv, NEW m \in Migrator, NEW w \in Works, work' = [work EXCEPT ![m] = w],
         begun' \in 0 .. MaxOperations, source' = source, manifests' \subseteq Epoch,
         backup' \in [Epoch -> Migrator \cup {NoMigrator}],
         epochs' \in [Epoch -> EpochRows],
         records' \in [Epoch -> [Item -> RecordRows]],
         imports' \in [Card -> Cards], \A c \in Card : RevisionOK(imports'[c]),
         adapters' \in [Epoch -> [status : {"none", "forwarder", "read_only"},
                                  listing : Listings]],
         projections' \in [Epoch -> Listings],
         \A e \in Epoch, c \in Card : Own(e, c) => Own(e, c)',
         RecordsOwn', AdaptersOwn', WorkOK(w)'
  PROVE  MigIInv'
<1>1. MigTypeOK'
  <2>1. source' \in [mode : {"legacy", "sandglass"}, same : BOOLEAN, alike : BOOLEAN,
                     first : Epoch]
    BY DEF MigIInv, MigTypeOK
  <2>2. work' \in [Migrator -> Works]
    BY DEF MigIInv, MigTypeOK
  <2> QED BY <2>1, <2>2 DEF MigTypeOK
<1>2. ASSUME NEW n \in Migrator PROVE WorkOK(work[n])'
  <2>1. work \in [Migrator -> Works]
    BY DEF MigIInv, MigTypeOK
  <2>2. CASE n = m
    <3>1. work'[n] = w
      BY <2>1, <2>2
    <3> QED BY <3>1 DEF WorkOK, Own
  <2>3. CASE n # m
    <3>1. PICK x \in Works : x = work[n] /\ x = work'[n]
      BY <2>1, <2>3
    <3>2. WorkOK(x)
      BY <3>1 DEF MigIInv
    <3>3. x.epoch \in Epoch /\ x.card \in Card /\ x.listing.cards \subseteq Card
      BY DEF Works, Listings
    <3>4. WorkOK(x)'
      BY <3>2, <3>3 DEF WorkOK
    <3> QED BY <3>1, <3>4 DEF WorkOK, Own
  <2> QED BY <2>2, <2>3
<1> QED BY <1>1, <1>2 DEF MigIInv

\* Nothing is written but what the process itself keeps in mind.
LEMMA OnlyMindMoves ==
  ASSUME MigIInv, NEW m \in Migrator, NEW w \in Works, work' = [work EXCEPT ![m] = w],
         begun' \in 0 .. MaxOperations, source' = source, manifests' \subseteq Epoch,
         backup' \in [Epoch -> Migrator \cup {NoMigrator}],
         epochs' \in [Epoch -> EpochRows],
         projections' \in [Epoch -> Listings],
         records' = records, imports' = imports, adapters' = adapters, WorkOK(w)
  PROVE  MigIInv'
<1>1. /\ records' \in [Epoch -> [Item -> RecordRows]] /\ imports' \in [Card -> Cards]
      /\ adapters' \in [Epoch -> [status : {"none", "forwarder", "read_only"},
                                  listing : Listings]]
  BY DEF MigIInv, MigTypeOK
<1>2. \A c \in Card : RevisionOK(imports'[c])
  BY DEF MigIInv
<1>3. \A e \in Epoch, c \in Card : Own(e, c) => Own(e, c)'
  BY DEF Own
<1>4. RecordsOwn' /\ AdaptersOwn'
  BY DEF MigIInv, RecordsOwn, AdaptersOwn, Own
<1>5. WorkOK(w)'
  BY DEF WorkOK, Own
<1> QED BY <1>1, <1>2, <1>3, <1>4, <1>5, OneMoves

\* What the process has, by its types.
LEMMA MindIs ==
  ASSUME MigIInv, NEW m \in Migrator
  PROVE  /\ work[m] \in Works /\ WorkOK(work[m])
         /\ work[m].epoch \in Epoch /\ work[m].todo \in SUBSET Item /\ work[m].card \in Card
         /\ work[m].rows \in SUBSET RowSet /\ work[m].listing \in Listings
         /\ source.first \in Epoch /\ begun \in 0 .. MaxOperations
BY DEF MigIInv, MigTypeOK, Works, RowSet

\* Rest, or the beginning of an operation.
LEMMA BegunIs ==
  ASSUME MigIInv, NEW p \in Pcs, NEW e \in Epoch, NEW todo \in SUBSET Item,
         p \notin {"duplicate", "apply", "applied", "rejected"}
  PROVE  /\ Rest \in Works /\ WorkOK(Rest)
         /\ [Rest EXCEPT !.pc = p, !.epoch = e, !.todo = todo] \in Works
         /\ WorkOK([Rest EXCEPT !.pc = p, !.epoch = e, !.todo = todo])
         /\ [Rest EXCEPT !.pc = p, !.epoch = e] \in Works
         /\ WorkOK([Rest EXCEPT !.pc = p, !.epoch = e])
<1>1. source.first \in Epoch
  BY DEF MigIInv, MigTypeOK
<1>2. PICK r \in Works : r = Rest /\ r.pc = "rest" /\ r.listing.cards = {}
  BY <1>1, FirstValues
<1>3. /\ [r EXCEPT !.pc = p, !.epoch = e, !.todo = todo] \in Works
      /\ [r EXCEPT !.pc = p, !.epoch = e] \in Works
  BY DEF Works, Pcs
<1>4. /\ [r EXCEPT !.pc = p, !.epoch = e, !.todo = todo].pc = p
      /\ [r EXCEPT !.pc = p, !.epoch = e, !.todo = todo].listing.cards = {}
      /\ [r EXCEPT !.pc = p, !.epoch = e].pc = p
      /\ [r EXCEPT !.pc = p, !.epoch = e].listing.cards = {}
  BY <1>2 DEF Works
<1>5. WorkOK(r)
  BY <1>2 DEF WorkOK
<1>6. WorkOK([r EXCEPT !.pc = p, !.epoch = e, !.todo = todo])
  BY <1>4 DEF WorkOK
<1>7. WorkOK([r EXCEPT !.pc = p, !.epoch = e])
  BY <1>4 DEF WorkOK
<1> QED BY <1>2, <1>3, <1>5, <1>6, <1>7

----------------------------------------------------------------------------
\* Actions that write no record, card or adapter

\* The process dies or fails.
LEMMA StopKeeps ==
  ASSUME MigIInv, NEW m \in Migrator, MigratorStops(m)
  PROVE  MigIInv'
<1>1. /\ work' = [work EXCEPT ![m] = Rest] /\ begun' = begun
      /\ UNCHANGED <<source, manifests, backup, epochs, records, imports, adapters,
                     projections>>
  BY DEF MigratorStops, Go
<1>2. Rest \in Works /\ WorkOK(Rest)
  <2>1. PICK e \in Epoch : TRUE
    BY MigrationAssumption
  <2>2. "rest" \in Pcs /\ {} \in SUBSET Item
    BY DEF Pcs
  <2> QED BY <2>1, <2>2, BegunIs
<1> QED BY <1>1, <1>2, OnlyMindMoves DEF MigIInv, MigTypeOK

LEMMA StageKeeps ==
  ASSUME MigIInv, NEW m \in Migrator, (\E e \in Epoch : StageFiles(m, e)) \/ StageManifest(m)
  PROVE  MigIInv'
<1>0. /\ begun \in 0 .. MaxOperations /\ manifests \subseteq Epoch
      /\ backup \in [Epoch -> Migrator \cup {NoMigrator}]
      /\ epochs \in [Epoch -> EpochRows] /\ projections \in [Epoch -> Listings]
  BY DEF MigIInv, MigTypeOK
<1>1. ASSUME NEW e \in Epoch, StageFiles(m, e) PROVE MigIInv'
  <2>1. /\ work' = [work EXCEPT ![m] = [Rest EXCEPT !.pc = "manifest", !.epoch = e]]
        /\ begun < MaxOperations /\ begun' = begun + 1
        /\ UNCHANGED <<source, manifests, epochs, records, imports, adapters, projections>>
        /\ backup' = [backup EXCEPT ![e] = m] \/ backup' = backup
    BY <1>1 DEF StageFiles, Start
  <2>2. PICK w \in Works : w = [Rest EXCEPT !.pc = "manifest", !.epoch = e] /\ WorkOK(w)
    <3>1. "manifest" \in Pcs /\ {} \in SUBSET Item
      BY DEF Pcs
    <3> QED BY <3>1, BegunIs
  <2>3. begun' \in 0 .. MaxOperations
    BY <1>0, <2>1, MigrationAssumption
  <2>4. backup' \in [Epoch -> Migrator \cup {NoMigrator}]
    BY <1>0, <2>1
  <2> QED BY <1>0, <2>1, <2>2, <2>3, <2>4, OnlyMindMoves
<1>2. CASE StageManifest(m)
  <2>0. PICK v \in Works : v = work[m] /\ WorkOK(v) /\ v.epoch \in Epoch
    BY MindIs
  <2>1. /\ work' = [work EXCEPT ![m] = [v EXCEPT !.pc = "staging"]]
        /\ begun' = begun /\ manifests' = manifests \cup {v.epoch}
        /\ UNCHANGED <<source, backup, epochs, records, imports, adapters, projections>>
    BY <1>2, <2>0 DEF StageManifest, Go
  <2>2. "staging" \in Pcs
    BY DEF Pcs
  <2>3. PICK w \in Works : /\ w = [v EXCEPT !.pc = "staging"]
                           /\ w.pc = "staging" /\ w.listing = v.listing /\ w.epoch = v.epoch
    BY <2>2, Turned
  <2>4. WorkOK(w)
    BY <2>0, <2>3 DEF WorkOK
  <2>5. manifests' \subseteq Epoch
    BY <1>0, <2>0, <2>1
  <2> QED BY <1>0, <2>1, <2>3, <2>4, <2>5, OnlyMindMoves
<1> QED BY <1>1, <1>2

\* An operation begins, with or without the manifest it loads.
LEMMA OperationBegins ==
  ASSUME MigIInv, NEW m \in Migrator, NEW w \in Works, WorkOK(w), Start(m, w),
         UNCHANGED <<source, manifests, backup, epochs, records, imports, adapters,
                     projections>>
  PROVE  MigIInv'
<1>1. /\ work' = [work EXCEPT ![m] = w] /\ begun < MaxOperations /\ begun' = begun + 1
      /\ begun \in 0 .. MaxOperations
  BY DEF Start, MigIInv, MigTypeOK
<1>2. begun' \in 0 .. MaxOperations
  BY <1>1, MigrationAssumption
<1> QED BY <1>1, <1>2, OnlyMindMoves DEF MigIInv, MigTypeOK

\* The rows of an epoch.
LEMMA RowsAre ==
  ASSUME MigIInv, NEW e \in Epoch, NEW statuses
  PROVE  /\ Rows(e, statuses) \in SUBSET RowSet
         /\ statuses = {"imported"} => \A row \in Rows(e, statuses) : Own(e, row.card)
<1>1. records \in [Epoch -> [Item -> RecordRows]]
  BY DEF MigIInv, MigTypeOK
<1>2. ASSUME NEW row \in Rows(e, statuses)
      PROVE  row \in RowSet /\ (statuses = {"imported"} => Own(e, row.card))
  <2>1. PICK i \in Item : /\ records[e][i].status \in statuses
                          /\ row = [item |-> i, card |-> records[e][i].card,
                                    revision |-> records[e][i].revision,
                                    status |-> records[e][i].status]
    BY <1>2 DEF Rows
  <2>2. records[e][i] \in RecordRows
    BY <1>1, <2>1
  <2>3. row \in RowSet
    BY <2>1, <2>2 DEF RowSet, RecordRows
  <2>4. statuses = {"imported"} => Own(e, row.card)
    BY <2>1 DEF MigIInv, RecordsOwn
  <2> QED BY <2>3, <2>4
<1> QED BY <1>2

LEMMA BeginKeeps ==
  ASSUME MigIInv, NEW m \in Migrator, NEW e \in Epoch,
         \/ ImportBegin(m, e) \/ VerifyBegin(m, e) \/ CutoverBegin(m, e)
         \/ AdapterBegin(m, e) \/ RollbackBegin(m, e)
  PROVE  MigIInv'
<1>0. UNCHANGED <<source, manifests, backup, epochs, records, imports, adapters, projections>>
  BY DEF ImportBegin, VerifyBegin, CutoverBegin, AdapterBegin, RollbackBegin
<1>p. "next" \in Pcs /\ "rows" \in Pcs /\ "list" \in Pcs /\ "switch off" \in Pcs
      /\ "claim" \in Pcs /\ {} \in SUBSET Item /\ Item \in SUBSET Item
  BY DEF Pcs
<1>1. CASE ImportBegin(m, e)
  <2>1. PICK w \in Works : /\ w = [Rest EXCEPT !.pc = "next", !.epoch = e, !.todo = Item]
                           /\ WorkOK(w)
    BY <1>p, BegunIs
  <2> QED BY <1>0, <1>1, <2>1, OperationBegins DEF ImportBegin, Begin
<1>2. CASE VerifyBegin(m, e)
  <2>1. PICK w \in Works : /\ w = [Rest EXCEPT !.pc = "rows", !.epoch = e, !.todo = Item]
                           /\ WorkOK(w)
    BY <1>p, BegunIs
  <2> QED BY <1>0, <1>2, <2>1, OperationBegins DEF VerifyBegin, Begin
<1>3. CASE AdapterBegin(m, e)
  <2>1. PICK w \in Works : /\ w = [Rest EXCEPT !.pc = "switch off", !.epoch = e, !.todo = {}]
                           /\ WorkOK(w)
    BY <1>p, BegunIs
  <2> QED BY <1>0, <1>3, <2>1, OperationBegins DEF AdapterBegin, Begin
<1>4. CASE CutoverBegin(m, e)
  <2>1. /\ epochs[e].generation < MaxGeneration
        /\ Start(m, [Rest EXCEPT !.pc = "list", !.epoch = e,
                       !.listing.generation = epochs[e].generation + 1])
    BY <1>4 DEF CutoverBegin
  <2>2. PICK g \in 0 .. MaxGeneration : g = epochs[e].generation + 1
    <3>1. epochs[e].generation \in 0 .. MaxGeneration
      BY DEF MigIInv, MigTypeOK, EpochRows
    <3> QED BY <2>1, <3>1, MigrationAssumption
  <2>3. PICK r \in Works : /\ r = [Rest EXCEPT !.pc = "list", !.epoch = e]
                           /\ r.pc = "list" /\ r.listing.cards = {}
    <3>1. PICK v \in Works : v = Rest /\ v.listing.cards = {}
      <4>1. source.first \in Epoch
        BY DEF MigIInv, MigTypeOK
      <4> QED BY <4>1, FirstValues
    <3>2. /\ [v EXCEPT !.pc = "list", !.epoch = e] \in Works
          /\ [v EXCEPT !.pc = "list", !.epoch = e].pc = "list"
          /\ [v EXCEPT !.pc = "list", !.epoch = e].listing = v.listing
      BY <1>p DEF Works
    <3> QED BY <3>1, <3>2
  <2>4. /\ [r EXCEPT !.listing.generation = g] \in Works
        /\ [r EXCEPT !.listing.generation = g].pc = "list"
        /\ [r EXCEPT !.listing.generation = g].listing.cards = {}
    <3>1. [r.listing EXCEPT !.generation = g] \in Listings
          /\ [r.listing EXCEPT !.generation = g].cards = {}
      BY <2>3 DEF Works, Listings
    <3>2. [r EXCEPT !.listing = [r.listing EXCEPT !.generation = g]] \in Works
      BY <3>1 DEF Works
    <3>3. [r EXCEPT !.listing.generation = g]
            = [r EXCEPT !.listing = [r.listing EXCEPT !.generation = g]]
      OBVIOUS
    <3> QED BY <2>3, <3>1, <3>2, <3>3 DEF Works
  <2>5. PICK w \in Works : /\ w = [r EXCEPT !.listing.generation = g]
                           /\ w.pc = "list" /\ w.listing.cards = {}
    BY <2>4
  <2>6. WorkOK(w)
    BY <2>5 DEF WorkOK
  <2>7. Start(m, w)
    <3>1. [Rest EXCEPT !.pc = "list", !.epoch = e, !.listing.generation = g] = w
      BY <2>3, <2>5
    <3> QED BY <2>1, <2>2, <3>1
  <2> QED BY <1>0, <2>6, <2>7, OperationBegins
<1>5. CASE RollbackBegin(m, e)
  <2>1. PICK rows \in SUBSET RowSet : rows = Rows(e, {"imported"})
    BY RowsAre
  <2>2. PICK v \in Works : v = Rest /\ v.listing.cards = {}
    <3>1. source.first \in Epoch
      BY DEF MigIInv, MigTypeOK
    <3> QED BY <3>1, FirstValues
  <2>3. PICK w : w = [v EXCEPT !.pc = "claim", !.epoch = e, !.rows = rows]
    OBVIOUS
  <2>4. w \in Works /\ w.pc = "claim" /\ w.listing = v.listing
    BY <1>p, <2>3 DEF Works, RowSet
  <2>5. WorkOK(w)
    BY <2>2, <2>4 DEF WorkOK
  <2> QED BY <1>0, <1>5, <2>1, <2>2, <2>3, <2>4, <2>5, OperationBegins DEF RollbackBegin
<1> QED BY <1>1, <1>2, <1>3, <1>4, <1>5

\* A process goes on with the next of its steps.
LEMMA GoesOn ==
  ASSUME MigIInv, NEW m \in Migrator, NEW w \in Works, WorkOK(w), Go(m, w),
         UNCHANGED <<source, manifests, backup, epochs, records, imports, adapters>>,
         projections' \in [Epoch -> Listings]
  PROVE  MigIInv'
<1>1. work' = [work EXCEPT ![m] = w] /\ begun' = begun
  BY DEF Go
<1> QED BY <1>1, OnlyMindMoves DEF MigIInv, MigTypeOK

\* One that compares, lists, checks or projects.
LEMMA StepKeeps ==
  ASSUME MigIInv, NEW m \in Migrator,
         \/ ImportLookUp(m) \/ VerifyRows(m) \/ VerifyCard(m)
         \/ CutoverList(m) \/ CutoverProject(m) \/ RollbackCheck(m)
  PROVE  MigIInv'
<1>0. UNCHANGED <<source, manifests, backup, epochs, records, imports, adapters>>
  BY DEF ImportLookUp, VerifyRows, VerifyCard, CutoverList, CutoverProject, RollbackCheck
<1>v. PICK v \in Works : /\ v = work[m] /\ WorkOK(v) /\ v.epoch \in Epoch
                         /\ v.listing \in Listings /\ v.rows \in SUBSET RowSet
  BY MindIs
<1>p. projections \in [Epoch -> Listings] /\ imports \in [Card -> Cards] /\ source.first \in Epoch
  BY DEF MigIInv, MigTypeOK
<1>1. CASE ImportLookUp(m)
  <2>1. PICK p, d : /\ p \in {"duplicate", "apply"} /\ Go(m, [v EXCEPT !.pc = p, !.card = d])
                    /\ d \in Card \/ d = Target(m)
    BY <1>1, <1>v DEF ImportLookUp
  <2>2. v.todo # {} /\ projections' = projections
    BY <1>1, <1>v DEF ImportLookUp
  <2>3. Target(m) \in Card
    <3>1. PICK i \in Item : i = Item1(m)
      BY <1>v, <2>2 DEF Item1, Works
    <3> QED BY <1>p, <1>v, <3>1 DEF Target, CardOf, Card
  <2>4. PICK w : w = [v EXCEPT !.pc = p, !.card = d]
    OBVIOUS
  <2>5. w \in Works /\ w.pc = p /\ w.todo = v.todo /\ w.listing = v.listing /\ w.epoch = v.epoch
    BY <2>1, <2>3, <2>4 DEF Works
  <2>6. WorkOK(w)
    BY <1>v, <2>1, <2>2, <2>5 DEF WorkOK
  <2> QED BY <1>0, <1>p, <2>1, <2>2, <2>4, <2>5, <2>6, GoesOn
<1>2. CASE VerifyRows(m)
  <2>1. PICK rows \in SUBSET RowSet : rows = Rows(v.epoch, {"imported", "deduplicated"})
    BY <1>v, RowsAre
  <2>2. PICK g \in BOOLEAN :
          Go(m, [v EXCEPT !.pc = "check", !.todo = {}, !.rows = rows, !.good = g])
    <3>1. PICK g : g = \A i \in Item : records[v.epoch][i].status \in
                         (IF source.mode = "legacy" THEN {"imported"}
                                                    ELSE {"imported", "deduplicated"})
      OBVIOUS
    <3>2. g \in BOOLEAN
      BY <3>1
    <3> QED BY <1>2, <1>v, <2>1, <3>1, <3>2 DEF VerifyRows
  <2>3. PICK w : w = [v EXCEPT !.pc = "check", !.todo = {}, !.rows = rows, !.good = g]
    OBVIOUS
  <2>4. w \in Works /\ w.pc = "check" /\ w.listing = v.listing /\ w.epoch = v.epoch
    BY <2>1, <2>2, <2>3 DEF Works, RowSet
  <2>5. WorkOK(w)
    BY <1>v, <2>4 DEF WorkOK
  <2>6. projections' = projections
    BY <1>2 DEF VerifyRows
  <2> QED BY <1>0, <1>p, <2>2, <2>3, <2>4, <2>5, <2>6, GoesOn
<1>3. CASE VerifyCard(m)
  <2>1. PICK row \in v.rows :
          Go(m, [v EXCEPT !.rows = @ \ {row}, !.good = @ /\ GoodCard(v.epoch, row)])
    BY <1>3, <1>v DEF VerifyCard
  <2>2. PICK g : g = (v.good /\ GoodCard(v.epoch, row))
    OBVIOUS
  <2>3. g \in BOOLEAN
    BY <2>2
  <2>4. PICK rows \in SUBSET RowSet : rows = v.rows \ {row}
    BY <1>v
  <2>5. PICK w : w = [v EXCEPT !.rows = rows, !.good = g]
    OBVIOUS
  <2>6. w \in Works /\ w.pc = v.pc /\ w.listing = v.listing /\ w.epoch = v.epoch
    BY <2>3, <2>4, <2>5 DEF Works, RowSet
  <2>7. WorkOK(w)
    <3>1. v.pc = "check"
      BY <1>3, <1>v DEF VerifyCard, At
    <3> QED BY <1>v, <2>6, <3>1 DEF WorkOK
  <2>8. projections' = projections
    BY <1>3 DEF VerifyCard
  <2> QED BY <1>0, <1>p, <2>1, <2>2, <2>4, <2>5, <2>6, <2>7, <2>8, GoesOn
<1>4. CASE CutoverList(m)
  <2>1. PICK cards, events :
          /\ cards = {r.card : r \in Rows(v.epoch, {"imported"})} /\ events = Events
          /\ Go(m, [v EXCEPT !.pc = "project", !.listing.events = events,
                            !.listing.cards = cards])
    BY <1>4, <1>v DEF CutoverList
  <2>2. events \in [Card -> Revisions]
    BY <1>p, <2>1 DEF Events, Cards
  <2>3. cards \in SUBSET Card /\ \A c \in cards : Own(v.epoch, c)
    <3>1. /\ Rows(v.epoch, {"imported"}) \in SUBSET RowSet
          /\ \A row \in Rows(v.epoch, {"imported"}) : Own(v.epoch, row.card)
      BY <1>v, RowsAre
    <3>2. \A row \in RowSet : row.card \in Card
      BY DEF RowSet
    <3> QED BY <2>1, <3>1, <3>2
  <2>4. PICK l : l = [v.listing EXCEPT !.events = events, !.cards = cards]
    OBVIOUS
  <2>5. l \in Listings /\ l.cards = cards
    BY <1>v, <2>2, <2>3, <2>4 DEF Listings
  <2>6. PICK w : w = [v EXCEPT !.pc = "project", !.listing = l]
    OBVIOUS
  <2>7. w = [v EXCEPT !.pc = "project", !.listing.events = events, !.listing.cards = cards]
    BY <2>4, <2>6 DEF Works
  <2>8. w \in Works /\ w.pc = "project" /\ w.listing = l /\ w.epoch = v.epoch
    BY <2>5, <2>6 DEF Works
  <2>9. WorkOK(w)
    BY <2>3, <2>5, <2>8 DEF WorkOK
  <2>10. projections' = projections
    BY <1>4 DEF CutoverList
  <2> QED BY <1>0, <1>p, <2>1, <2>7, <2>8, <2>9, <2>10, GoesOn
<1>5. CASE CutoverProject(m) \/ RollbackCheck(m)
  <2>1. PICK p \in {"forward", "trash"} : Go(m, [v EXCEPT !.pc = p])
    BY <1>5, <1>v DEF CutoverProject, RollbackCheck, GoTo
  <2>2. PICK w \in Works : /\ w = [v EXCEPT !.pc = p]
                           /\ w.pc = p /\ w.listing = v.listing /\ w.epoch = v.epoch
    <3>1. p \in Pcs
      BY DEF Pcs
    <3> QED BY <3>1, Turned
  <2>3. WorkOK(w)
    BY <1>v, <2>2 DEF WorkOK
  <2>4. projections' \in [Epoch -> Listings]
    BY <1>5, <1>p, <1>v DEF CutoverProject, RollbackCheck
  <2> QED BY <1>0, <2>1, <2>2, <2>3, <2>4, GoesOn
<1> QED BY <1>1, <1>2, <1>3, <1>4, <1>5

\* An operation ends, and the epoch has another status.
LEMMA OperationEndKeeps ==
  ASSUME MigIInv, NEW m \in Migrator, ImportEnd(m) \/ VerifyEnd(m)
  PROVE  MigIInv'
<1>1. /\ work' = [work EXCEPT ![m] = Rest] /\ begun' = begun
      /\ UNCHANGED <<source, manifests, backup, records, imports, adapters, projections>>
      /\ \E s \in {"imported", "verified"} : SetStatus(work[m].epoch, s)
  BY DEF ImportEnd, VerifyEnd, Go
<1>2. Rest \in Works /\ WorkOK(Rest)
  <2>1. PICK e \in Epoch : TRUE
    BY MigrationAssumption
  <2>2. "rest" \in Pcs /\ {} \in SUBSET Item
    BY DEF Pcs
  <2> QED BY <2>1, <2>2, BegunIs
<1>3. epochs' \in [Epoch -> EpochRows]
  <2>1. PICK s \in {"imported", "verified"} : SetStatus(work[m].epoch, s)
    BY <1>1
  <2>2. PICK e \in Epoch : e = work[m].epoch
    BY MindIs
  <2>3. epochs \in [Epoch -> EpochRows]
    BY DEF MigIInv, MigTypeOK
  <2>4. [epochs[e] EXCEPT !.status = s] \in EpochRows
    BY <2>3 DEF EpochRows
  <2>5. epochs' = [epochs EXCEPT ![e] = [epochs[e] EXCEPT !.status = s]]
    BY <2>1, <2>2, <2>3 DEF SetStatus
  <2> QED BY <2>3, <2>4, <2>5
<1> QED BY <1>1, <1>2, <1>3, OnlyMindMoves DEF MigIInv, MigTypeOK

----------------------------------------------------------------------------
\* Actions that write records

\* Records are written, and cards and adapters are not.
LEMMA RecordsMove ==
  ASSUME MigIInv, NEW m \in Migrator, NEW w \in Works, WorkOK(w),
         work' = [work EXCEPT ![m] = w], begun' = begun,
         UNCHANGED <<source, manifests, backup, imports, adapters, projections>>,
         epochs' \in [Epoch -> EpochRows],
         records' \in [Epoch -> [Item -> RecordRows]],
         \A e \in Epoch, i \in Item :
           records'[e][i].status = "imported" => Own(e, records'[e][i].card)
  PROVE  MigIInv'
<1>1. /\ source' = source /\ begun' \in 0 .. MaxOperations /\ manifests' \subseteq Epoch
      /\ backup' \in [Epoch -> Migrator \cup {NoMigrator}]
      /\ imports' \in [Card -> Cards] /\ projections' \in [Epoch -> Listings]
      /\ adapters' \in [Epoch -> [status : {"none", "forwarder", "read_only"},
                                  listing : Listings]]
      /\ imports' = imports
  BY DEF MigIInv, MigTypeOK
<1>2. \A c \in Card : RevisionOK(imports'[c])
  BY <1>1 DEF MigIInv
<1>3. \A e \in Epoch, c \in Card : Own(e, c) => Own(e, c)'
  BY <1>1 DEF Own
<1>4. RecordsOwn' /\ AdaptersOwn' /\ WorkOK(w)'
  BY DEF MigIInv, RecordsOwn, AdaptersOwn, WorkOK, Own
<1> QED BY <1>1, <1>2, <1>3, <1>4, OneMoves

LEMMA RestIs ==
  ASSUME MigIInv
  PROVE  Rest \in Works /\ WorkOK(Rest) /\ Rest.card \in Card
<1>1. source.first \in Epoch
  BY DEF MigIInv, MigTypeOK
<1>2. Rest \in Works /\ Rest.pc = "rest" /\ Rest.listing.cards = {} /\ Rest.card \in Card
  BY <1>1, FirstValues
<1> QED BY <1>2 DEF WorkOK

LEMMA StageCommitKeeps ==
  ASSUME MigIInv, NEW m \in Migrator, StageCommit(m)
  PROVE  MigIInv'
<1>0. /\ records \in [Epoch -> [Item -> RecordRows]] /\ epochs \in [Epoch -> EpochRows]
      /\ backup \in [Epoch -> Migrator \cup {NoMigrator}] /\ source.first \in Epoch
  BY DEF MigIInv, MigTypeOK
<1>1. /\ work' = [work EXCEPT ![m] = Rest] /\ begun' = begun
      /\ UNCHANGED <<source, manifests, backup, imports, adapters, projections>>
  BY DEF StageCommit, Go
<1>2. PICK e \in Epoch : e = work[m].epoch
  BY MindIs
<1>3. CASE UNCHANGED <<epochs, records>>
  BY <1>0, <1>1, <1>3, RestIs, RecordsMove DEF MigIInv, RecordsOwn
<1>4. CASE /\ epochs' = [epochs EXCEPT ![e] = [status |-> "staged", generation |-> 0,
                                               backup |-> backup[e]]]
           /\ records' = [records EXCEPT ![e] =
                            [i \in Item |-> [NoRecord EXCEPT !.status = "planned"]]]
  <2>1. epochs' \in [Epoch -> EpochRows]
    <3>1. 0 \in 0 .. MaxGeneration
      BY MigrationAssumption
    <3>2. [status |-> "staged", generation |-> 0, backup |-> backup[e]] \in EpochRows
      BY <1>0, <3>1 DEF EpochRows
    <3> QED BY <1>0, <1>4, <3>2
  <2>2. PICK row \in RecordRows : /\ row = [NoRecord EXCEPT !.status = "planned"]
                                  /\ row.status = "planned"
    <3>1. PICK r \in RecordRows : r = NoRecord
      BY <1>0, FirstValues
    <3>2. /\ [r EXCEPT !.status = "planned"] \in RecordRows
          /\ [r EXCEPT !.status = "planned"].status = "planned"
      BY DEF RecordRows, RecordStatus
    <3> QED BY <3>1, <3>2
  <2>3. records' = [records EXCEPT ![e] = [i \in Item |-> row]]
    BY <1>4, <2>2
  <2>4. records' \in [Epoch -> [Item -> RecordRows]]
    BY <1>0, <2>3
  <2>5. ASSUME NEW d \in Epoch, NEW i \in Item, records'[d][i].status = "imported"
        PROVE  Own(d, records'[d][i].card)
    <3>1. d # e
      BY <1>0, <2>2, <2>3, <2>5
    <3>2. records'[d] = records[d]
      BY <1>0, <2>3, <3>1
    <3> QED BY <2>5, <3>2 DEF MigIInv, RecordsOwn
  <2> QED BY <1>1, <2>1, <2>4, <2>5, RestIs, RecordsMove
<1> QED BY <1>2, <1>3, <1>4 DEF StageCommit

LEMMA ImportRecordKeeps ==
  ASSUME MigIInv, NEW m \in Migrator, ImportRecord(m)
  PROVE  MigIInv'
<1>0. /\ records \in [Epoch -> [Item -> RecordRows]] /\ epochs \in [Epoch -> EpochRows]
  BY DEF MigIInv, MigTypeOK
<1>1. PICK v \in Works : /\ v = work[m] /\ WorkOK(v) /\ v.epoch \in Epoch /\ v.card \in Card
                         /\ v.todo \in SUBSET Item
  BY MindIs
<1>2. v.pc \in {"duplicate", "applied", "rejected"} /\ v.todo # {}
  BY <1>1 DEF ImportRecord, WorkOK
<1>3. PICK i \in v.todo : i = Item1(m)
  BY <1>1, <1>2 DEF Item1
<1>4. PICK outcome \in {"deduplicated", "imported", "quarantined"} :
        /\ outcome = "imported" => v.pc = "applied"
        /\ outcome = CASE v.pc = "duplicate" -> "deduplicated"
                       [] v.pc = "applied" -> "imported"
                       [] OTHER -> "quarantined"
  BY <1>2
<1>5. PICK row : row = IF outcome = "quarantined"
                       THEN [records[v.epoch][i] EXCEPT !.status = outcome]
                       ELSE [status |-> outcome, card |-> v.card, revision |-> 1]
  OBVIOUS
<1>6. /\ records' = [records EXCEPT ![v.epoch][i] = row]
      /\ Go(m, [v EXCEPT !.pc = "next", !.todo = v.todo \ {i}, !.card = Rest.card])
      /\ UNCHANGED <<source, manifests, backup, epochs, imports, adapters, projections>>
  BY <1>1, <1>3, <1>4, <1>5 DEF ImportRecord
<1>7. row \in RecordRows /\ (row.status = "imported" => Own(v.epoch, row.card))
  <2>1. CASE outcome = "quarantined"
    <3>1. PICK r \in RecordRows : r = records[v.epoch][i]
      BY <1>0, <1>1, <1>3
    <3>2. row = [r EXCEPT !.status = "quarantined"]
      BY <1>5, <2>1, <3>1
    <3>3. row \in RecordRows /\ row.status = "quarantined"
      BY <3>2 DEF RecordRows, RecordStatus
    <3> QED BY <3>3
  <2>2. CASE outcome # "quarantined"
    <3>1. row = [status |-> outcome, card |-> v.card, revision |-> 1]
      BY <1>5, <2>2
    <3>2. row \in RecordRows
      BY <1>1, <3>1 DEF RecordRows, RecordStatus
    <3>3. row.status = outcome /\ row.card = v.card
      BY <3>1
    <3> QED BY <1>1, <1>4, <3>2, <3>3 DEF WorkOK
  <2> QED BY <2>1, <2>2
<1>8. PICK w : w = [v EXCEPT !.pc = "next", !.todo = v.todo \ {i}, !.card = Rest.card]
  OBVIOUS
<1>9. w \in Works /\ w.pc = "next" /\ w.listing = v.listing /\ w.epoch = v.epoch
  <2>1. Rest.card \in Card
    BY RestIs
  <2> QED BY <1>8, <2>1 DEF Works
<1>10. WorkOK(w)
  BY <1>1, <1>9 DEF WorkOK
<1>11. records' \in [Epoch -> [Item -> RecordRows]]
  BY <1>0, <1>1, <1>3, <1>6, <1>7
<1>12. ASSUME NEW d \in Epoch, NEW j \in Item, records'[d][j].status = "imported"
       PROVE  Own(d, records'[d][j].card)
  <2>1. CASE d = v.epoch /\ j = i
    <3>1. records'[d][j] = row
      BY <1>0, <1>6, <2>1
    <3> QED BY <1>7, <1>12, <2>1, <3>1
  <2>2. CASE ~(d = v.epoch /\ j = i)
    <3>1. records'[d][j] = records[d][j]
      BY <1>0, <1>1, <1>3, <1>6, <2>2
    <3> QED BY <1>12, <3>1 DEF MigIInv, RecordsOwn
  <2> QED BY <2>1, <2>2
<1>13. work' = [work EXCEPT ![m] = w] /\ begun' = begun /\ epochs' \in [Epoch -> EpochRows]
  BY <1>0, <1>6, <1>8 DEF Go
<1> QED BY <1>6, <1>9, <1>10, <1>11, <1>12, <1>13, RecordsMove

LEMMA RollbackEndKeeps ==
  ASSUME MigIInv, NEW m \in Migrator, RollbackEnd(m)
  PROVE  MigIInv'
<1>0. /\ records \in [Epoch -> [Item -> RecordRows]] /\ epochs \in [Epoch -> EpochRows]
  BY DEF MigIInv, MigTypeOK
<1>1. PICK v \in Works : v = work[m] /\ v.epoch \in Epoch /\ v.rows \in SUBSET RowSet
  BY MindIs
<1>2. PICK e \in Epoch : e = v.epoch
  BY <1>1
<1> DEFINE Back(i) == [records[e][i] EXCEPT !.status = "rolled_back",
                         !.revision = (CHOOSE row \in v.rows : row.item = i).revision]
           Taken == {row.item : row \in v.rows}
<1>3. /\ records' = [records EXCEPT ![e] =
                       [i \in Item |-> IF i \in Taken THEN Back(i) ELSE records[e][i]]]
      /\ SetStatus(e, "rolled_back")
      /\ work' = [work EXCEPT ![m] = Rest] /\ begun' = begun
      /\ UNCHANGED <<source, manifests, backup, imports, adapters, projections>>
  BY <1>1, <1>2 DEF RollbackEnd, Go
<1>4. ASSUME NEW i \in Item, i \in Taken
      PROVE  Back(i) \in RecordRows /\ Back(i).status = "rolled_back"
  <2>1. PICK row \in v.rows : row = CHOOSE x \in v.rows : x.item = i
    BY <1>4
  <2>2. row.revision \in 0 .. 1
    BY <1>1, <2>1 DEF RowSet
  <2>3. PICK r \in RecordRows : r = records[e][i]
    BY <1>0
  <2>4. Back(i) = [r EXCEPT !.status = "rolled_back", !.revision = row.revision]
    BY <2>1, <2>3
  <2> HIDE DEF Back
  <2> QED BY <2>2, <2>4 DEF RecordRows, RecordStatus
<1> HIDE DEF Back, Taken
<1>5. records' \in [Epoch -> [Item -> RecordRows]]
  BY <1>0, <1>3, <1>4
<1>6. ASSUME NEW d \in Epoch, NEW i \in Item, records'[d][i].status = "imported"
      PROVE  Own(d, records'[d][i].card)
  <2>1. CASE d = e /\ i \in Taken
    <3>1. records'[d][i] = Back(i)
      BY <1>0, <1>3, <2>1
    <3> QED BY <1>4, <1>6, <2>1, <3>1
  <2>2. CASE ~(d = e /\ i \in Taken)
    <3>1. records'[d][i] = records[d][i]
      BY <1>0, <1>3, <2>2
    <3> QED BY <1>6, <3>1 DEF MigIInv, RecordsOwn
  <2> QED BY <2>1, <2>2
<1>7. epochs' \in [Epoch -> EpochRows]
  <2>1. [epochs[e] EXCEPT !.status = "rolled_back"] \in EpochRows
    BY <1>0 DEF EpochRows
  <2>2. epochs' = [epochs EXCEPT ![e] = [epochs[e] EXCEPT !.status = "rolled_back"]]
    BY <1>0, <1>3 DEF SetStatus
  <2> QED BY <1>0, <2>1, <2>2
<1> QED BY <1>3, <1>5, <1>6, <1>7, RestIs, RecordsMove

----------------------------------------------------------------------------
\* Adapters

LEMMA AdapterKeeps ==
  ASSUME MigIInv, NEW m \in Migrator, CutoverCommit(m) \/ AdapterCommit(m)
  PROVE  MigIInv'
<1>0. /\ adapters \in [Epoch -> [status : {"none", "forwarder", "read_only"},
                                 listing : Listings]]
      /\ epochs \in [Epoch -> EpochRows]
  BY DEF MigIInv, MigTypeOK
<1>1. PICK v \in Works : /\ v = work[m] /\ WorkOK(v) /\ v.epoch \in Epoch
                         /\ v.listing \in Listings
  BY MindIs
<1>2. PICK e \in Epoch : e = v.epoch
  BY <1>1
<1>3. /\ work' = [work EXCEPT ![m] = Rest] /\ begun' = begun
      /\ UNCHANGED <<source, manifests, backup, records, imports, projections>>
  BY DEF CutoverCommit, AdapterCommit, Go
<1>4. PICK a, row : /\ a \in [status : {"none", "forwarder", "read_only"}, listing : Listings]
                    /\ \A c \in a.listing.cards : Own(e, c)
                    /\ row \in EpochRows
                    /\ adapters' = [adapters EXCEPT ![e] = a]
                    /\ epochs' = [epochs EXCEPT ![e] = row]
  <2>1. CASE CutoverCommit(m)
    <3>1. /\ adapters' = [adapters EXCEPT ![e] = [status |-> "forwarder",
                                                  listing |-> v.listing]]
          /\ epochs' = [epochs EXCEPT ![e].status = "cutover",
                                      ![e].generation = v.listing.generation]
      BY <1>1, <1>2, <2>1 DEF CutoverCommit
    <3>2. PICK a : a = [status |-> "forwarder", listing |-> v.listing]
      OBVIOUS
    <3>3. /\ a \in [status : {"none", "forwarder", "read_only"}, listing : Listings]
          /\ \A c \in a.listing.cards : Own(e, c)
      BY <1>1, <1>2, <3>2 DEF WorkOK
    <3>4. PICK row : row = [[epochs[e] EXCEPT !.status = "cutover"]
                              EXCEPT !.generation = v.listing.generation]
      OBVIOUS
    <3>5. row \in EpochRows
      <4>1. PICK b \in EpochRows : b = epochs[e]
        BY <1>0
      <4>2. PICK g \in 0 .. MaxGeneration : g = v.listing.generation
        BY <1>1 DEF Listings
      <4>3. PICK r \in EpochRows : r = [b EXCEPT !.status = "cutover"]
        BY DEF EpochRows
      <4>4. [r EXCEPT !.generation = g] \in EpochRows
        BY DEF EpochRows
      <4> QED BY <3>4, <4>1, <4>2, <4>3, <4>4
    <3>6. epochs' = [epochs EXCEPT ![e] = row]
      BY <1>0, <3>1, <3>4
    <3> QED BY <3>1, <3>2, <3>3, <3>5, <3>6
  <2>2. CASE AdapterCommit(m)
    <3>1. /\ adapters' = [adapters EXCEPT ![e].status = "read_only"]
          /\ epochs' = [epochs EXCEPT ![e].status = "adapter_rolled_back"]
      BY <1>1, <1>2, <2>2 DEF AdapterCommit, SetStatus
    <3>2. PICK b \in [status : {"none", "forwarder", "read_only"}, listing : Listings] :
            b = adapters[e]
      BY <1>0
    <3>3. PICK a : a = [b EXCEPT !.status = "read_only"]
      OBVIOUS
    <3>4. /\ a \in [status : {"none", "forwarder", "read_only"}, listing : Listings]
          /\ a.listing = b.listing
      BY <3>3
    <3>5. \A c \in a.listing.cards : Own(e, c)
      BY <3>2, <3>4 DEF MigIInv, AdaptersOwn
    <3>6. PICK row : row = [epochs[e] EXCEPT !.status = "adapter_rolled_back"]
      OBVIOUS
    <3>7. row \in EpochRows
      BY <1>0, <3>6 DEF EpochRows
    <3>8. adapters' = [adapters EXCEPT ![e] = a] /\ epochs' = [epochs EXCEPT ![e] = row]
      BY <1>0, <3>1, <3>2, <3>3, <3>6
    <3> QED BY <3>4, <3>5, <3>7, <3>8
  <2> QED BY <2>1, <2>2
<1>5. /\ source' = source /\ begun' \in 0 .. MaxOperations /\ manifests' \subseteq Epoch
      /\ backup' \in [Epoch -> Migrator \cup {NoMigrator}]
      /\ imports' \in [Card -> Cards] /\ projections' \in [Epoch -> Listings]
      /\ records' \in [Epoch -> [Item -> RecordRows]]
      /\ imports' = imports /\ records' = records
  BY <1>3 DEF MigIInv, MigTypeOK
<1>6. /\ epochs' \in [Epoch -> EpochRows]
      /\ adapters' \in [Epoch -> [status : {"none", "forwarder", "read_only"},
                                  listing : Listings]]
  BY <1>0, <1>4
<1>7. \A c \in Card : RevisionOK(imports'[c])
  BY <1>5 DEF MigIInv
<1>8. \A d \in Epoch, c \in Card : Own(d, c) => Own(d, c)'
  BY <1>5 DEF Own
<1>9. RecordsOwn'
  BY <1>5 DEF MigIInv, RecordsOwn, Own
<1>10. ASSUME NEW d \in Epoch, NEW c \in adapters'[d].listing.cards PROVE Own(d, c)
  <2>1. CASE d = e
    BY <1>0, <1>4, <1>10, <2>1
  <2>2. CASE d # e
    <3>1. adapters'[d] = adapters[d]
      BY <1>0, <1>4, <2>2
    <3> QED BY <1>10, <3>1 DEF MigIInv, AdaptersOwn
  <2> QED BY <2>1, <2>2
<1>11. AdaptersOwn'
  BY <1>5, <1>10 DEF AdaptersOwn, Own
<1>12. Rest \in Works /\ WorkOK(Rest)'
  BY <1>5, RestIs DEF WorkOK, Own
<1> QED BY <1>3, <1>5, <1>6, <1>7, <1>8, <1>9, <1>11, <1>12, OneMoves

----------------------------------------------------------------------------
\* Cards

\* Cards are written, none of them anew by another epoch.
LEMMA CardsMove ==
  ASSUME MigIInv, UNCHANGED <<source, manifests, backup, epochs, records, adapters,
                              projections>>,
         NEW m \in Migrator, NEW w \in Works, work' = [work EXCEPT ![m] = w],
         begun' = begun, WorkOK(w)',
         imports' \in [Card -> Cards],
         \A c \in Card : /\ RevisionOK(imports'[c])
                         /\ imports[c].revision > 0 =>
                              /\ imports'[c].revision > 0
                              /\ imports'[c].epoch = imports[c].epoch
  PROVE  MigIInv'
<1>1. /\ source' = source /\ begun' \in 0 .. MaxOperations /\ manifests' \subseteq Epoch
      /\ backup' \in [Epoch -> Migrator \cup {NoMigrator}]
      /\ epochs' \in [Epoch -> EpochRows] /\ projections' \in [Epoch -> Listings]
      /\ records' \in [Epoch -> [Item -> RecordRows]]
      /\ adapters' \in [Epoch -> [status : {"none", "forwarder", "read_only"},
                                  listing : Listings]]
      /\ records' = records /\ adapters' = adapters
  BY DEF MigIInv, MigTypeOK
<1>2. \A d \in Epoch, c \in Card : Own(d, c) => Own(d, c)'
  BY DEF Own
<1>3. RecordsOwn'
  <2> SUFFICES ASSUME NEW e \in Epoch, NEW i \in Item, records[e][i].status = "imported"
               PROVE  Own(e, records[e][i].card)'
    BY <1>1 DEF RecordsOwn
  <2>1. PICK c \in Card : c = records[e][i].card
    BY <1>1 DEF RecordRows
  <2>2. Own(e, c)
    BY <2>1 DEF MigIInv, RecordsOwn
  <2>3. Own(e, c)'
    BY <1>2, <2>2
  <2> QED BY <1>1, <2>1, <2>3 DEF Own
<1>4. AdaptersOwn'
  <2> SUFFICES ASSUME NEW e \in Epoch, NEW c \in adapters[e].listing.cards
               PROVE  Own(e, c)'
    BY <1>1 DEF AdaptersOwn
  <2>1. c \in Card
    BY <1>1 DEF Listings
  <2>2. Own(e, c)
    BY DEF MigIInv, AdaptersOwn
  <2> QED BY <1>2, <2>1, <2>2
<1> QED BY <1>1, <1>2, <1>3, <1>4, OneMoves

\* What a process knows of its own cards is still so.
LEMMA StillOwn ==
  ASSUME NEW w \in Works, WorkOK(w),
         \A c \in Card : imports[c].revision > 0 =>
                           /\ imports'[c].revision > 0
                           /\ imports'[c].epoch = imports[c].epoch
  PROVE  WorkOK(w)'
<1>1. w.card \in Card /\ w.listing.cards \subseteq Card
  BY DEF Works, Listings
<1> QED BY <1>1 DEF WorkOK, Own

LEMMA ImportApplyKeeps ==
  ASSUME MigIInv, NEW m \in Migrator, ImportApply(m)
  PROVE  MigIInv'
<1>0. imports \in [Card -> Cards] /\ source.first \in Epoch
  BY DEF MigIInv, MigTypeOK
<1>1. PICK v \in Works : /\ v = work[m] /\ WorkOK(v) /\ v.epoch \in Epoch /\ v.card \in Card
                         /\ v.pc = "apply"
  BY MindIs DEF ImportApply, At
<1>2. UNCHANGED <<source, manifests, backup, epochs, records, adapters, projections>>
  BY DEF ImportApply
<1>3. PICK p \in {"applied", "rejected"} :
        /\ GoTo(m, p)
        /\ \/ imports' = imports /\ (p = "applied" => SameCommand(v.epoch, v.card))
           \/ /\ p = "applied" /\ ~CommandLogged(v.epoch, v.card)
              /\ imports' = [imports EXCEPT ![v.card] =
                   [NoCard EXCEPT !.revision = 1, !.epoch = v.epoch,
                      !.lifecycle = IF source.mode = "legacy" THEN "active" ELSE "proposed"]]
  BY <1>1 DEF ImportApply
<1>4. PICK w \in Works : /\ w = [v EXCEPT !.pc = p] /\ w.pc = p /\ w.epoch = v.epoch
                         /\ w.todo = v.todo /\ w.card = v.card /\ w.listing = v.listing
  <2>1. p \in Pcs
    BY DEF Pcs
  <2> QED BY <2>1, Turned
<1>5. work' = [work EXCEPT ![m] = w] /\ begun' = begun
  BY <1>1, <1>3, <1>4 DEF GoTo, Go
<1>6. CASE imports' = imports /\ (p = "applied" => SameCommand(v.epoch, v.card))
  <2>1. WorkOK(w)
    BY <1>1, <1>4, <1>6 DEF WorkOK, Own, SameCommand, CommandLogged
  <2>2. WorkOK(w)'
    BY <1>6, <2>1, StillOwn
  <2> QED BY <1>0, <1>2, <1>5, <1>6, <2>2, CardsMove DEF MigIInv
<1>7. CASE /\ p = "applied" /\ ~CommandLogged(v.epoch, v.card)
           /\ imports' = [imports EXCEPT ![v.card] =
                [NoCard EXCEPT !.revision = 1, !.epoch = v.epoch,
                   !.lifecycle = IF source.mode = "legacy" THEN "active" ELSE "proposed"]]
  <2>1. PICK l \in {"active", "proposed"} :
          l = IF source.mode = "legacy" THEN "active" ELSE "proposed"
    OBVIOUS
  <2>2. PICK card : card = [NoCard EXCEPT !.revision = 1, !.epoch = v.epoch, !.lifecycle = l]
    OBVIOUS
  <2>3. /\ card \in Cards /\ card.revision = 1 /\ card.epoch = v.epoch
        /\ RevisionOK(card)
    <3>0. 1 \in Revisions /\ 0 \in 0 .. MaxUserMoves
      BY MigrationAssumption DEF Revisions
    <3>1. FALSE \in BOOLEAN
      BY Zenon
    <3>2. card = [revision |-> 1, lifecycle |-> l, epoch |-> v.epoch, moves |-> 0,
                  undone |-> FALSE]
      BY <2>2 DEF NoCard
    <3>3. card \in Cards
      BY <1>1, <3>0, <3>1, <3>2 DEF Cards
    <3>4. card.revision = 1 /\ card.epoch = v.epoch /\ card.moves = 0
      BY <3>2
    <3>5. RevisionOK(card)
      BY <3>4 DEF RevisionOK
    <3> QED BY <3>3, <3>4, <3>5
  <2>4. imports' = [imports EXCEPT ![v.card] = card]
    BY <1>7, <2>1, <2>2
  <2>5. imports' \in [Card -> Cards] /\ imports'[v.card] = card
        /\ \A c \in Card : c # v.card => imports'[c] = imports[c]
    BY <1>0, <1>1, <2>3, <2>4
  <2>6. ~(imports[v.card].revision > 0)
    BY <1>7 DEF CommandLogged
  <2>7. \A c \in Card : /\ RevisionOK(imports'[c])
                        /\ imports[c].revision > 0 =>
                             /\ imports'[c].revision > 0
                             /\ imports'[c].epoch = imports[c].epoch
    BY <2>3, <2>5, <2>6 DEF MigIInv
  <2>8. WorkOK(w)'
    <3>1. \A c \in w.listing.cards : Own(w.epoch, c)'
      <4>1. WorkOK(v)'
        BY <1>1, <2>7, StillOwn
      <4> QED BY <1>4, <4>1 DEF WorkOK
    <3>2. Own(w.epoch, w.card)'
      BY <1>4, <2>3, <2>5 DEF Own
    <3>3. w.pc = "applied" /\ w.todo # {}
      BY <1>1, <1>4, <1>7 DEF WorkOK
    <3> QED BY <3>1, <3>2, <3>3 DEF WorkOK
  <2> QED BY <1>2, <1>5, <2>5, <2>7, <2>8, CardsMove
<1> QED BY <1>3, <1>6, <1>7

\* The cards a rollback takes back: as they were imported, and not the user's.
LEMMA TrashIs ==
  ASSUME MigIInv, NEW m \in Migrator, RollbackTrash(m), NEW row \in work[m].rows
  PROVE  /\ row.card \in Card /\ imports[row.card].revision = 1
         /\ imports[row.card].moves = 0
<1>1. row.card \in Card /\ row.revision \in 0 .. 1
  BY MindIs DEF RowSet
<1>2. /\ imports[row.card].lifecycle \in {"active", "proposed"}
      /\ imports[row.card].revision = row.revision
  BY DEF RollbackTrash, TrashApplies, CanBeTrashed
<1>3. PICK card \in Cards : card = imports[row.card]
  BY <1>1 DEF MigIInv, MigTypeOK
<1>4. RevisionOK(card)
  BY <1>1, <1>3 DEF MigIInv
<1>5. card.moves \in Nat /\ card.revision \in Nat
  BY DEF Cards, Revisions
<1>6. card.revision = 1
  BY <1>1, <1>2, <1>3, <1>4, <1>5 DEF RevisionOK
<1>7. card.moves = 0
  BY <1>4, <1>5, <1>6 DEF RevisionOK
<1> QED BY <1>1, <1>3, <1>6, <1>7

LEMMA RollbackTrashKeeps ==
  ASSUME MigIInv, NEW m \in Migrator, RollbackTrash(m)
  PROVE  MigIInv'
<1>0. imports \in [Card -> Cards]
  BY DEF MigIInv, MigTypeOK
<1>1. PICK v \in Works : v = work[m] /\ WorkOK(v) /\ v.rows \in SUBSET RowSet
  BY MindIs
<1> DEFINE Taken == {row.card : row \in v.rows}
           Back(c) == [imports[c] EXCEPT !.revision = @ + 1, !.lifecycle = "trashed",
                                         !.undone = TRUE]
<1>2. /\ UNCHANGED <<source, manifests, backup, epochs, records, adapters, projections>>
      /\ GoTo(m, "trashed")
      /\ imports' = [c \in Card |-> IF c \in Taken THEN Back(c) ELSE imports[c]]
  BY <1>1 DEF RollbackTrash
<1>3. PICK w \in Works : /\ w = [v EXCEPT !.pc = "trashed"] /\ w.pc = "trashed"
                         /\ w.epoch = v.epoch /\ w.listing = v.listing
  <2>1. "trashed" \in Pcs
    BY DEF Pcs
  <2> QED BY <2>1, Turned
<1>4. work' = [work EXCEPT ![m] = w] /\ begun' = begun
  BY <1>1, <1>2, <1>3 DEF GoTo, Go
<1>5. ASSUME NEW c \in Card, c \in Taken
      PROVE  /\ Back(c) \in Cards /\ RevisionOK(Back(c))
             /\ Back(c).revision > 0 /\ Back(c).epoch = imports[c].epoch
  <2>1. imports[c].revision = 1 /\ imports[c].moves = 0
    BY <1>1, <1>5, TrashIs
  <2>2. PICK card \in Cards : card = imports[c]
    BY <1>0
  <2>3. PICK r : r = card.revision + 1
    OBVIOUS
  <2>4. r = 2 /\ r \in Revisions
    BY <2>1, <2>2, <2>3, MigrationAssumption DEF Revisions
  <2>5. TRUE \in BOOLEAN
    BY Zenon
  <2>6. Back(c) = [card EXCEPT !.revision = r, !.lifecycle = "trashed", !.undone = TRUE]
    BY <2>2, <2>3
  <2> HIDE DEF Back
  <2>7. /\ Back(c) \in Cards /\ Back(c).revision = 2 /\ Back(c).epoch = card.epoch
        /\ Back(c).moves = card.moves
    BY <2>4, <2>5, <2>6 DEF Cards
  <2>8. RevisionOK(Back(c))
    BY <2>1, <2>2, <2>7 DEF RevisionOK
  <2> QED BY <2>2, <2>7, <2>8
<1> HIDE DEF Back, Taken
<1>6. imports' \in [Card -> Cards]
  BY <1>0, <1>2, <1>5
<1>7. ASSUME NEW c \in Card
      PROVE  /\ RevisionOK(imports'[c])
             /\ imports[c].revision > 0 =>
                  /\ imports'[c].revision > 0
                  /\ imports'[c].epoch = imports[c].epoch
  <2>1. CASE c \in Taken
    BY <1>2, <1>5, <2>1
  <2>2. CASE c \notin Taken
    BY <1>2, <2>2 DEF MigIInv
  <2> QED BY <2>1, <2>2
<1>8. WorkOK(w)'
  <2>1. WorkOK(w)
    BY <1>1, <1>3 DEF WorkOK
  <2> QED BY <1>7, <2>1, StillOwn
<1> QED BY <1>2, <1>4, <1>6, <1>7, <1>8, CardsMove

\* The user: no process moves.
LEMMA UserMovesKeeps ==
  ASSUME MigIInv, NEW c \in Card, UserMovesCard(c)
  PROVE  MigIInv'
<1>0. imports \in [Card -> Cards] /\ work \in [Migrator -> Works]
  BY DEF MigIInv, MigTypeOK
<1>1. /\ imports[c].revision > 0 /\ imports[c].moves < MaxUserMoves
      /\ UNCHANGED <<source, manifests, backup, epochs, records, adapters, projections,
                     work, begun>>
  BY DEF UserMovesCard
<1>2. PICK l \in {"proposed", "active", "trashed"} :
        imports' = [imports EXCEPT ![c].revision = @ + 1, ![c].lifecycle = l,
                                   ![c].moves = @ + 1, ![c].undone = FALSE]
  BY DEF UserMovesCard
<1>3. PICK card \in Cards : card = imports[c] /\ RevisionOK(card)
  BY <1>0 DEF MigIInv
<1>4. PICK r, n : r = card.revision + 1 /\ n = card.moves + 1
  OBVIOUS
<1>5. /\ card.revision \in Nat /\ card.moves \in Nat /\ card.revision > 0
      /\ card.moves < MaxUserMoves /\ card.moves < card.revision
      /\ card.revision <= card.moves + 2
  BY <1>1, <1>3 DEF Cards, Revisions, RevisionOK
<1>6. r \in Revisions /\ n \in 0 .. MaxUserMoves /\ n < r /\ r <= n + 2 /\ r > 0
  BY <1>4, <1>5, MigrationAssumption DEF Revisions
<1>7. PICK x : x = [card EXCEPT !.revision = r, !.lifecycle = l, !.moves = n, !.undone = FALSE]
  OBVIOUS
<1>8. /\ x \in Cards /\ x.revision = r /\ x.moves = n /\ x.epoch = card.epoch
  <2>1. FALSE \in BOOLEAN
    BY Zenon
  <2> QED BY <1>6, <1>7, <2>1 DEF Cards
<1>9. RevisionOK(x)
  BY <1>6, <1>8 DEF RevisionOK
<1>10. imports' = [imports EXCEPT ![c] = x]
  BY <1>0, <1>2, <1>3, <1>4, <1>7
<1>11. imports' \in [Card -> Cards]
  BY <1>0, <1>8, <1>10
<1>12. ASSUME NEW d \in Card
       PROVE  /\ RevisionOK(imports'[d])
              /\ imports[d].revision > 0 =>
                   /\ imports'[d].revision > 0
                   /\ imports'[d].epoch = imports[d].epoch
  <2>1. CASE d = c
    <3>1. imports'[d] = x
      BY <1>0, <1>10, <2>1
    <3> QED BY <1>3, <1>6, <1>8, <1>9, <2>1, <3>1
  <2>2. CASE d # c
    <3>1. imports'[d] = imports[d]
      BY <1>0, <1>10, <2>2
    <3> QED BY <3>1 DEF MigIInv
  <2> QED BY <2>1, <2>2
<1>13. CASE Migrator # {}
  <2>1. PICK m \in Migrator : TRUE
    BY <1>13
  <2>2. PICK w \in Works : w = work[m] /\ WorkOK(w)
    BY <2>1, MindIs
  <2>3. work' = [work EXCEPT ![m] = w] /\ begun' = begun
    BY <1>0, <1>1, <2>2
  <2>4. WorkOK(w)'
    BY <1>12, <2>2, StillOwn
  <2> QED BY <1>1, <1>11, <1>12, <2>3, <2>4, CardsMove
<1>14. CASE Migrator = {}
  <2>1. /\ MigTypeOK'
    BY <1>1, <1>11 DEF MigIInv, MigTypeOK
  <2>2. RecordsOwn'
    <3> SUFFICES ASSUME NEW e \in Epoch, NEW i \in Item, records[e][i].status = "imported"
                 PROVE  Own(e, records[e][i].card)'
      BY <1>1 DEF RecordsOwn
    <3>1. PICK d \in Card : d = records[e][i].card
      BY DEF MigIInv, MigTypeOK, RecordRows
    <3>2. Own(e, d)
      BY <3>1 DEF MigIInv, RecordsOwn
    <3> QED BY <1>1, <1>12, <3>1, <3>2 DEF Own
  <2>3. AdaptersOwn'
    <3> SUFFICES ASSUME NEW e \in Epoch, NEW d \in adapters[e].listing.cards
                 PROVE  Own(e, d)'
      BY <1>1 DEF AdaptersOwn
    <3>1. d \in Card
      BY DEF MigIInv, MigTypeOK, Listings
    <3>2. Own(e, d)
      BY DEF MigIInv, AdaptersOwn
    <3> QED BY <1>12, <3>1, <3>2 DEF Own
  <2> QED BY <1>12, <1>14, <2>1, <2>2, <2>3 DEF MigIInv
<1> QED BY <1>13, <1>14

\* Nothing has happened yet.
LEMMA MigInitHolds ==
  ASSUME MigInit
  PROVE  MigIInv
<1>1. /\ source.mode \in {"legacy", "sandglass"} /\ source.first \in Epoch
      /\ source \in [mode : {"legacy", "sandglass"}, same : BOOLEAN, alike : BOOLEAN,
                     first : Epoch]
  <2>1. (CHOOSE e \in Epoch : TRUE) \in Epoch
    BY MigrationAssumption
  <2> QED BY <2>1 DEF MigInit
<1>2. /\ NoCard \in Cards /\ RevisionOK(NoCard) /\ NoRecord \in RecordRows
      /\ NoAdapter.listing \in Listings /\ NoAdapter.listing.cards = {}
      /\ NoAdapter \in [status : {"none", "forwarder", "read_only"}, listing : Listings]
      /\ Rest \in Works /\ Rest.pc = "rest" /\ Rest.listing = NoAdapter.listing
  BY <1>1, FirstValues
<1>3. /\ manifests \subseteq Epoch /\ begun \in 0 .. MaxOperations
      /\ backup \in [Epoch -> Migrator \cup {NoMigrator}]
  BY MigrationAssumption DEF MigInit
<1>4. epochs \in [Epoch -> EpochRows]
  <2>1. 0 \in 0 .. MaxGeneration
    BY MigrationAssumption
  <2>2. ASSUME NEW e \in Epoch
        PROVE [status |-> IF e \in Staged THEN "staged" ELSE "none", generation |-> 0,
               backup |-> NoMigrator] \in EpochRows
    BY <2>1 DEF EpochRows
  <2> QED BY <2>2 DEF MigInit
<1>5. \A e \in Epoch, i \in Item :
        /\ records[e][i] \in RecordRows /\ records[e][i].status # "imported"
  <2>1. ASSUME NEW s \in {"none", "planned"}
        PROVE /\ [NoRecord EXCEPT !.status = s] \in RecordRows
              /\ [NoRecord EXCEPT !.status = s].status # "imported"
    BY <1>2 DEF RecordRows, RecordStatus
  <2> QED BY <2>1 DEF MigInit
<1>6. records \in [Epoch -> [Item -> RecordRows]]
  <2>1. \A e \in Epoch : records[e] \in [Item -> RecordRows]
    <3> TAKE e \in Epoch
    <3>1. records[e] = [i \in Item |->
            [NoRecord EXCEPT !.status = IF e \in Staged THEN "planned" ELSE "none"]]
      BY DEF MigInit
    <3> QED BY <1>5, <3>1
  <2> QED BY <2>1 DEF MigInit
<1>7. imports \in [Card -> Cards] /\ \A c \in Card : RevisionOK(imports[c])
  <2>1. imports = [c \in Card |-> NoCard]
    BY DEF MigInit
  <2>2. \A c \in Card : imports[c] = NoCard
    BY <2>1
  <2> QED BY <1>2, <2>1, <2>2
<1>8. /\ adapters \in [Epoch -> [status : {"none", "forwarder", "read_only"},
                                 listing : Listings]]
      /\ projections \in [Epoch -> Listings]
      /\ \A e \in Epoch : adapters[e].listing.cards = {}
  BY <1>2 DEF MigInit
<1>9. work \in [Migrator -> Works] /\ \A m \in Migrator : WorkOK(work[m])
  <2>1. work = [m \in Migrator |-> Rest] /\ WorkOK(Rest)
    BY <1>2 DEF MigInit, WorkOK
  <2>2. \A m \in Migrator : work[m] = Rest
    BY <2>1
  <2> QED BY <1>2, <2>1, <2>2
<1>10. RecordsOwn /\ AdaptersOwn
  BY <1>5, <1>8 DEF RecordsOwn, AdaptersOwn
<1> QED BY <1>1, <1>3, <1>4, <1>6, <1>7, <1>8, <1>9, <1>10 DEF MigIInv, MigTypeOK

\* Whatever happens next.
LEMMA MigStepKeeps ==
  ASSUME MigIInv, [MigNext]_migrationVars
  PROVE  MigIInv'
<1>1. ASSUME NEW m \in Migrator, NEW e \in Epoch,
             \/ ImportBegin(m, e) \/ VerifyBegin(m, e) \/ CutoverBegin(m, e)
             \/ AdapterBegin(m, e) \/ RollbackBegin(m, e)
      PROVE MigIInv'
  BY <1>1, BeginKeeps
<1>2. ASSUME NEW m \in Migrator, NEW e \in Epoch, StageFiles(m, e)
      PROVE MigIInv'
  BY <1>2, StageKeeps
<1>3. ASSUME NEW m \in Migrator, StageManifest(m)
      PROVE MigIInv'
  BY <1>3, StageKeeps
<1>4. ASSUME NEW m \in Migrator,
             \/ ImportLookUp(m) \/ VerifyRows(m) \/ VerifyCard(m)
             \/ CutoverList(m) \/ CutoverProject(m) \/ RollbackCheck(m)
      PROVE MigIInv'
  BY <1>4, StepKeeps
<1>5. ASSUME NEW m \in Migrator, ImportEnd(m) \/ VerifyEnd(m)
      PROVE MigIInv'
  BY <1>5, OperationEndKeeps
<1>6. ASSUME NEW m \in Migrator, CutoverCommit(m) \/ AdapterCommit(m)
      PROVE MigIInv'
  BY <1>6, AdapterKeeps
<1>7. ASSUME NEW m \in Migrator,
             \/ StageCommit(m) \/ ImportRecord(m) \/ RollbackEnd(m)
             \/ ImportApply(m) \/ RollbackTrash(m) \/ MigratorStops(m)
      PROVE MigIInv'
  BY <1>7, StageCommitKeeps, ImportRecordKeeps, RollbackEndKeeps, ImportApplyKeeps,
     RollbackTrashKeeps, StopKeeps
<1>8. ASSUME NEW c \in Card, UserMovesCard(c)
      PROVE MigIInv'
  BY <1>8, UserMovesKeeps
<1>9. CASE UNCHANGED migrationVars
  <2>0. UNCHANGED <<source, manifests, backup, epochs, records, imports, adapters,
                    projections, work, begun>>
    BY <1>9 DEF migrationVars
  <2>1. MigTypeOK'
    BY <2>0 DEF MigIInv, MigTypeOK
  <2>2. (\A c \in Card : RevisionOK(imports[c]))'
    BY <2>0 DEF MigIInv
  <2>3. (RecordsOwn /\ AdaptersOwn)'
    BY <2>0 DEF MigIInv, RecordsOwn, AdaptersOwn, Own
  <2>4. (\A m \in Migrator : WorkOK(work[m]))'
    BY <2>0 DEF MigIInv, WorkOK, Own
  <2> QED BY <2>1, <2>2, <2>3, <2>4 DEF MigIInv
<1> QED BY <1>1, <1>2, <1>3, <1>4, <1>5, <1>6, <1>7, <1>8, <1>9 DEF MigNext

\* The inductive invariant of the epochs and the cards.
THEOREM MigInvariance == MigSpec => []MigIInv
<1>1. MigInit => MigIInv
  BY MigInitHolds
<1>2. MigIInv /\ [MigNext]_migrationVars => MigIInv'
  BY MigStepKeeps
<1> QED BY <1>1, <1>2, PTL DEF MigSpec

\* Every row, card, file and process is what it may be, for any number of processes,
\* epochs and records (the operations of migration_control.py).
THEOREM MigTypeCorrect == MigSpec => []MigTypeOK
<1>1. MigIInv => MigTypeOK
  BY DEF MigIInv
<1> QED BY <1>1, MigInvariance, PTL

\* A record counts as imported, and an adapter lists a card, only if the card was
\* created by that epoch (import_epoch, cutover and their crashes and repetitions).
THEOREM OwnCards == MigSpec => []OnlyItsOwnCards
<1>1. MigIInv => OnlyItsOwnCards
  BY DEF MigIInv, RecordsOwn, AdaptersOwn, Own, OnlyItsOwnCards
<1> QED BY <1>1, MigInvariance, PTL

\* A rollback takes back only cards that nobody touched since they were imported
\* (sandglass_rollback, whose commands name the revision that was imported).
THEOREM RollbackSpares == MigSpec => RollbackSparesTheUsersCards
<1>1. MigIInv /\ [MigNext]_migrationVars =>
        [\A c \in Card : imports[c].moves > 0 /\ imports'[c].undone => imports[c].undone]_migrationVars
  <2> SUFFICES ASSUME MigIInv, MigNext, NEW c \in Card, imports[c].moves > 0,
                      imports'[c].undone
               PROVE  imports[c].undone
    OBVIOUS
  <2>0. imports \in [Card -> Cards] /\ work \in [Migrator -> Works]
    BY DEF MigIInv, MigTypeOK
  <2>1. CASE imports' = imports
    BY <2>1
  <2>2. ASSUME NEW m \in Migrator, ImportApply(m), imports' # imports
        PROVE imports[c].undone
    <3>1. PICK d \in Card : /\ imports' = [imports EXCEPT ![d] = imports'[d]]
                            /\ ~imports'[d].undone
      <4>1. work[m].card \in Card
        BY <2>0 DEF Works
      <4>2. PICK d \in Card : d = work[m].card
        BY <4>1
      <4>3. PICK new : /\ imports' = [imports EXCEPT ![d] = new] /\ ~new.undone
        <5>1. imports' = [imports EXCEPT ![d] =
                [NoCard EXCEPT !.revision = 1, !.epoch = work[m].epoch,
                   !.lifecycle = IF source.mode = "legacy" THEN "active" ELSE "proposed"]]
          BY <2>2, <4>2 DEF ImportApply
        <5>2. PICK new : new =
                [NoCard EXCEPT !.revision = 1, !.epoch = work[m].epoch,
                   !.lifecycle = IF source.mode = "legacy" THEN "active" ELSE "proposed"]
          OBVIOUS
        <5>3. ~new.undone
          BY <5>2 DEF NoCard
        <5> QED BY <5>1, <5>2, <5>3
      <4> QED BY <2>0, <4>3
    <3> QED BY <2>0, <3>1
  <2>3. ASSUME NEW m \in Migrator, RollbackTrash(m)
        PROVE imports[c].undone
    <3>1. c \notin {row.card : row \in work[m].rows}
      BY <2>3, TrashIs
    <3> QED BY <2>3, <3>1 DEF RollbackTrash
  <2>4. ASSUME NEW d \in Card, UserMovesCard(d)
        PROVE imports[c].undone
    <3>1. PICK lifecycle \in {"proposed", "active", "trashed"} :
            imports' = [imports EXCEPT ![d].revision = @ + 1, ![d].lifecycle = lifecycle,
                                       ![d].moves = @ + 1, ![d].undone = FALSE]
      BY <2>4 DEF UserMovesCard
    <3>2. PICK card \in Cards : card = imports[d]
      BY <2>0
    <3>3. PICK new : /\ imports' = [imports EXCEPT ![d] = new] /\ ~new.undone
      <4>1. PICK new : new = [card EXCEPT !.revision = @ + 1, !.lifecycle = lifecycle,
                                          !.moves = @ + 1, !.undone = FALSE]
        OBVIOUS
      <4>2. ~new.undone
        BY <4>1 DEF Cards
      <4> QED BY <2>0, <3>1, <3>2, <4>1, <4>2
    <3> QED BY <2>0, <3>3
  <2> QED
    BY ZenonT(40), <2>1, <2>2, <2>3, <2>4
    DEF MigNext, StageFiles, StageManifest, StageCommit, ImportBegin, ImportLookUp,
        ImportRecord, ImportEnd, VerifyBegin, VerifyRows, VerifyCard, VerifyEnd,
        CutoverBegin, CutoverList, CutoverProject, CutoverCommit, AdapterBegin,
        AdapterCommit, RollbackBegin, RollbackCheck, RollbackEnd, MigratorStops
<1>2. MigSpec => [][MigNext]_migrationVars
  BY PTL DEF MigSpec
<1> QED BY <1>1, MigInvariance, PTL DEF MigSpec, RollbackSparesTheUsersCards

===============================================================================
