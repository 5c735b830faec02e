--------------------------- MODULE MigrationSource ---------------------------
(***************************************************************************)
(* What a migration reads (migration_control.py): plan and stage scan the   *)
(* legacy files, stage copies them into a private archive, import and       *)
(* verify scan them again, and import reads each file once more for every   *)
(* card it makes of it.  The files are the user's and nobody locks them:    *)
(* they may be edited, removed and put back between any two reads.  What    *)
(* the epoch's rows, cards and adapters go through is in Migration.         *)
(*                                                                          *)
(* Bytes are abstract, and a hash stands for its bytes.  The files of all   *)
(* roots are taken together; a Sandglass source is the pair of a text and   *)
(* its SQLite index.  One epoch, one operation at a time.                   *)
(***************************************************************************)
EXTENDS Naturals, Sequences, FiniteSets, SequencesExt

CONSTANTS SourceFile,
          Bytes,       \* what a file may hold (see RecordsOf)
          History,     \* what a Sandglass text or index may hold: lines
          Gone, NoReview,
          MaxEdits     \* bound on the user's changes

FileBytes == [format : {"text", "json", "jsonl", "other"}, readable : BOOLEAN,
              large : BOOLEAN, utf8 : BOOLEAN, sensitive : BOOLEAN, items : Seq(BOOLEAN)]
Lines == Seq([user : BOOLEAN, sensitive : BOOLEAN, signal : STRING])

\* What _scan finds, and what plan keeps of it and shows for review.
SourceRecords == [file : SourceFile, bytes : Bytes \cup {Gone}, item : Nat,
                  state : {"planned", "quarantined", "ignored"}]
ReviewPlans == [records : SUBSET SourceRecords, files : SUBSET (SourceFile \X (Bytes \cup {Gone}))]
HistoryPlans == [text : History, index : History]

ASSUME MigrationSourceAssumption ==
    /\ Bytes \subseteq FileBytes /\ History \subseteq Lines
    /\ Gone \notin Bytes /\ Gone \notin History
    /\ NoReview \notin ReviewPlans \cup HistoryPlans
    /\ MaxEdits \in Nat

VARIABLES kind,        \* which of the two the epoch is of
          legacy,      \* the user's files
          sandglass,   \* the user's text and index
          approved,    \* the plan that was reviewed; stage is asked for its fingerprint
          archive,     \* the private copies
          manifest,    \* the plan of the staged epoch
          made,        \* the cards
          eligible,    \* what verify found
          job,         \* the operation that runs
          edits

sourceVars ==
    <<kind, legacy, sandglass, approved, archive, manifest, made, eligible, job, edits>>
stored == <<approved, archive, manifest, made, eligible>>

(***************************************************************************)
(* Records of a file and of a Sandglass text                               *)
(***************************************************************************)
\* _records_for_file: the first trouble with the file makes one record of it; a file
\* without any has a record for each item, line or chunk.
Trouble(b) ==
    IF ~b.readable \/ b.large THEN "quarantined"
    ELSE IF b.format = "other" THEN "ignored"
    ELSE IF ~b.utf8 \/ b.sensitive THEN "quarantined" ELSE "none"

SourceRecord(f, b, i, state) ==
    [file |-> f, bytes |-> IF b.readable THEN b ELSE Gone, item |-> i, state |-> state]

\* A JSON file that does not parse is one record, a line of JSONL that does not is its
\* own; nothing in a file is a record too, but for an empty list of JSON.
RecordsOf(f, b) ==
    CASE Trouble(b) # "none" -> {SourceRecord(f, b, 0, Trouble(b))}
      [] Trouble(b) = "none" /\ b.items = <<>> ->
           IF b.format = "json" THEN {} ELSE {SourceRecord(f, b, 0, "ignored")}
      [] OTHER -> {SourceRecord(f, b, i, IF b.items[i] THEN "planned" ELSE "quarantined") :
                     i \in DOMAIN b.items}

Unreadable == [format |-> "text", readable |-> FALSE, large |-> FALSE, utf8 |-> TRUE,
               sensitive |-> FALSE, items |-> <<>>]

\* _scan: the records of the files there were, and each file with the hash its records
\* have (none, where it has no record).
Records(seen) == UNION {RecordsOf(f, seen[f]) : f \in {g \in SourceFile : seen[g] # Gone}}
Hash(f, b) == IF RecordsOf(f, b) = {} \/ ~b.readable THEN Gone ELSE b
PlanOf(seen) ==
    [records |-> Records(seen),
     files   |-> {<<f, Hash(f, seen[f])>> : f \in {g \in SourceFile : seen[g] # Gone}}]

Planned(records) == {r \in records : r.state = "planned"}

\* _scan_sandglass: lines are quarantined or ignored; the user's lines with a stable
\* signal go, by group, into a candidate.
Signals(text) == {text[i].signal : i \in DOMAIN text} \ {"none", "command", "question"}
LinesOf(text, group) ==
    {i \in DOMAIN text : /\ ~text[i].sensitive /\ text[i].user
                         /\ text[i].signal = group}
Candidates(text) ==
    {[text |-> text, group |-> g, lines |-> LinesOf(text, g)] :
       g \in {h \in Signals(text) : LinesOf(text, h) # {}}}
HistoryPlan(text, index) == [text |-> text, index |-> index]

(***************************************************************************)
(* Scans                                                                   *)
(***************************************************************************)
Unstarted == [does |-> "rest"]
Does(what) == job.does = what
StoredUnchanged == UNCHANGED stored
SourcesUnchanged == UNCHANGED <<kind, legacy, sandglass, edits>>

Listed == {f \in SourceFile : legacy[f] # Gone}
Scan(for, left) ==
    [does |-> "scan", for |-> for, left |-> left, todo |-> Listed,
     seen |-> [f \in SourceFile |-> Gone]]

\* What an operation needs to begin: stage a reviewed plan and a new epoch, import and
\* verify a staged one.
MayBegin(for) ==
    CASE for = "plan"  -> approved = NoReview
      [] for = "stage" -> approved # NoReview /\ manifest = NoReview
      [] OTHER         -> manifest # NoReview

BeginScan(for) ==
    /\ Does("rest") /\ kind = "legacy" /\ MayBegin(for)
    /\ job' = Scan(for, {})
    /\ StoredUnchanged /\ SourcesUnchanged

\* The files are read in the order of their paths; one that is gone is unreadable.
NextOf(files) == CHOOSE f \in files : TRUE
ReadFile ==
    /\ Does("scan") /\ job.todo # {}
    /\ LET f == NextOf(job.todo)
       IN job' = [job EXCEPT !.todo = @ \ {f},
                    !.seen[f] = IF legacy[f] = Gone THEN Unreadable ELSE legacy[f]]
    /\ StoredUnchanged /\ SourcesUnchanged

Scanned(for) == Does("scan") /\ job.for = for /\ job.todo = {}

PlanEnds ==
    /\ Scanned("plan")
    /\ approved' = PlanOf(job.seen) /\ job' = Unstarted
    /\ UNCHANGED <<archive, manifest, made, eligible>> /\ SourcesUnchanged

(***************************************************************************)
(* stage                                                                   *)
(***************************************************************************)
\* BRAIN_CONTROL_MIGRATION_PLAN_STALE, or the files that have a hash are copied.
StageCompares ==
    /\ Scanned("stage")
    /\ job' = IF PlanOf(job.seen) # approved THEN Unstarted
              ELSE [does |-> "copy", plan |-> approved,
                    todo |-> {e \in approved.files : e[2] # Gone}]
    /\ StoredUnchanged /\ SourcesUnchanged

\* _copy_archive: the copy is of the bytes that were planned, or stage fails.
StillThere(f, b) == legacy[f] # Gone
SameBytes(f, b) == legacy[f] = b
CopyFile ==
    /\ Does("copy")
    /\ \E e \in job.todo :
         IF SameBytes(e[1], e[2])
         THEN /\ archive' = [archive EXCEPT ![e[1]] = legacy[e[1]]]
              /\ job' = [job EXCEPT !.todo = @ \ {e}]
         ELSE archive' = archive /\ job' = Unstarted
    /\ UNCHANGED <<approved, manifest, made, eligible>> /\ SourcesUnchanged

StageEnds ==
    /\ Does("copy") /\ job.todo = {}
    /\ manifest' = job.plan /\ job' = Unstarted
    /\ UNCHANGED <<approved, archive, made, eligible>> /\ SourcesUnchanged

(***************************************************************************)
(* import_epoch and verify                                                 *)
(***************************************************************************)
\* _cards_for_import: the same records as were staged, or SOURCE_CHANGED.
AsStaged(seen) == Records(seen) = manifest.records

ImportCompares ==
    /\ Scanned("import")
    /\ job' = IF AsStaged(job.seen)
              THEN [does |-> "next", left |-> Planned(manifest.records)] ELSE Unstarted
    /\ StoredUnchanged /\ SourcesUnchanged

\* _payload_for_record scans everything again for each record,
NextRecord ==
    /\ Does("next") /\ job.left # {}
    /\ job' = Scan("payload", job.left)
    /\ StoredUnchanged /\ SourcesUnchanged

\* the record must be among what it finds,
PayloadFound ==
    /\ Scanned("payload")
    /\ job' = IF NextOf(job.left) \in Records(job.seen)
              THEN [does |-> "read", left |-> job.left] ELSE Unstarted
    /\ StoredUnchanged /\ SourcesUnchanged

\* and the bytes of its file, read once more, those of the record.  An error here is
\* not one of the card's: it ends the import.
RecordBytes(r) == legacy[r.file] = r.bytes
MakeCard ==
    /\ Does("read")
    /\ LET r == NextOf(job.left)
       IN IF RecordBytes(r)
          THEN /\ made' = made \cup {[file |-> r.file, item |-> r.item,
                                      bytes |-> legacy[r.file]]}
               /\ job' = [does |-> "next", left |-> job.left \ {r}]
          ELSE made' = made /\ job' = Unstarted
    /\ UNCHANGED <<approved, archive, manifest, eligible>> /\ SourcesUnchanged

ImportEnds ==
    /\ Does("next") /\ job.left = {}
    /\ job' = Unstarted
    /\ StoredUnchanged /\ SourcesUnchanged

\* Every planned record has its card, and nothing was quarantined.
CardOfRecord(r) == [file |-> r.file, item |-> r.item, bytes |-> r.bytes]
VerifyEnds ==
    /\ Scanned("verify")
    /\ eligible' = IF ~AsStaged(job.seen) THEN eligible
                   ELSE /\ \A r \in Planned(manifest.records) : CardOfRecord(r) \in made
                        /\ \A r \in manifest.records : r.state # "quarantined"
    /\ job' = Unstarted
    /\ UNCHANGED <<approved, archive, manifest, made>> /\ SourcesUnchanged

(***************************************************************************)
(* The same operations on a Sandglass source                               *)
(***************************************************************************)
\* stage is refused a plan that differs; import and verify first hash both files, one
\* after the other, and compare them with the manifest.
BeginHistory(for) ==
    /\ Does("rest") /\ kind = "sandglass" /\ MayBegin(for)
    /\ job' = [does |-> IF for \in {"plan", "stage"} THEN "read text" ELSE "hash text",
               for |-> for]
    /\ StoredUnchanged /\ SourcesUnchanged

HashStep(at, file, then) ==
    /\ Does(at)
    /\ job' = IF sandglass[file] = manifest[file] THEN [job EXCEPT !.does = then] ELSE Unstarted
    /\ StoredUnchanged /\ SourcesUnchanged

HashText == HashStep("hash text", "text", "hash index")
HashIndex == HashStep("hash index", "index", "read text")

\* The text is read once, the index twice: its rows, which must be the text's lines,
\* and then its bytes for the hash.
ReadText ==
    /\ Does("read text")
    /\ job' = IF sandglass.text = Gone THEN Unstarted
              ELSE [does |-> "read rows", for |-> job.for, text |-> sandglass.text]
    /\ StoredUnchanged /\ SourcesUnchanged

Parity(text, index) == index = text
ReadRows ==
    /\ Does("read rows")
    /\ job' = IF Parity(job.text, sandglass.index)
              THEN [job EXCEPT !.does = "read index"] ELSE Unstarted
    /\ StoredUnchanged /\ SourcesUnchanged

\* The scan is complete: plan and stage keep it, import and verify compare the records
\* with those staged, which are the text's.
HistoryScanned(index) ==
    LET plan == HistoryPlan(job.text, index)
    IN CASE job.for = "plan" ->
              /\ approved' = plan /\ job' = Unstarted /\ UNCHANGED <<manifest, eligible>>
         [] job.for = "stage" ->
              /\ manifest' = IF plan = approved THEN plan ELSE manifest
              /\ job' = Unstarted /\ UNCHANGED <<approved, eligible>>
         [] job.for = "import" ->
              /\ job' = IF job.text # manifest.text THEN Unstarted
                        ELSE [does |-> "candidates", left |-> Candidates(job.text)]
              /\ UNCHANGED <<approved, manifest, eligible>>
         [] job.for = "verify" ->
              /\ eligible' = IF job.text # manifest.text THEN eligible
                             ELSE Candidates(job.text) \subseteq made
              /\ job' = Unstarted /\ UNCHANGED <<approved, manifest>>

ReadIndex ==
    /\ Does("read index")
    /\ IF sandglass.index = Gone THEN job' = Unstarted /\ StoredUnchanged
       ELSE HistoryScanned(sandglass.index) /\ UNCHANGED <<archive, made>>
    /\ SourcesUnchanged

\* A candidate's card is made of what the scan found.
MakeCandidate ==
    /\ Does("candidates") /\ job.left # {}
    /\ made' = made \cup {NextOf(job.left)}
    /\ job' = [job EXCEPT !.left = @ \ {NextOf(job.left)}]
    /\ UNCHANGED <<approved, archive, manifest, eligible>> /\ SourcesUnchanged

CandidatesEnd ==
    /\ Does("candidates") /\ job.left = {}
    /\ job' = Unstarted
    /\ StoredUnchanged /\ SourcesUnchanged

(***************************************************************************)
(* Behaviours                                                              *)
(***************************************************************************)
JobDies ==
    /\ ~Does("rest") /\ job' = Unstarted
    /\ StoredUnchanged /\ SourcesUnchanged

\* A file is written, removed or put back; Sandglass writes its text before its index.
UserEdits ==
    /\ edits < MaxEdits /\ edits' = edits + 1
    /\ IF kind = "legacy"
       THEN /\ \E f \in SourceFile, b \in Bytes \cup {Gone} :
                 legacy[f] # b /\ legacy' = [legacy EXCEPT ![f] = b]
            /\ UNCHANGED sandglass
       ELSE /\ \E f \in {"text", "index"}, h \in History \cup {Gone} :
                 sandglass[f] # h /\ sandglass' = [sandglass EXCEPT ![f] = h]
            /\ UNCHANGED legacy
    /\ UNCHANGED <<kind, job>> /\ StoredUnchanged

SourceInit ==
    /\ kind \in {"legacy", "sandglass"}
    /\ legacy \in IF kind = "legacy" THEN [SourceFile -> Bytes]
                  ELSE {[f \in SourceFile |-> Gone]}
    /\ sandglass \in IF kind = "legacy" THEN {[text |-> Gone, index |-> Gone]}
                     ELSE {[text |-> h, index |-> h] : h \in History}
    /\ approved = NoReview /\ manifest = NoReview
    /\ archive = [f \in SourceFile |-> Gone]
    /\ made = {} /\ eligible = FALSE /\ job = Unstarted /\ edits = 0

Operation == {"plan", "stage", "import", "verify"}
SourceNext ==
    \/ \E for \in Operation : BeginScan(for) \/ BeginHistory(for)
    \/ ReadFile \/ PlanEnds \/ StageCompares \/ CopyFile \/ StageEnds
    \/ ImportCompares \/ NextRecord \/ PayloadFound \/ MakeCard \/ ImportEnds
    \/ VerifyEnds
    \/ HashText \/ HashIndex \/ ReadText \/ ReadRows \/ ReadIndex
    \/ MakeCandidate \/ CandidatesEnd
    \/ JobDies \/ UserEdits

SourceSpec == SourceInit /\ [][SourceNext]_sourceVars

Readings == Bytes \cup {Gone, Unreadable}
FileCards == [file : SourceFile, item : Nat, bytes : Bytes]
CandidateRecords == [text : History, group : STRING, lines : SUBSET Nat]
Jobs == {Unstarted}
        \cup [does : {"scan"}, for : Operation \cup {"payload"}, left : SUBSET SourceRecords,
              todo : SUBSET SourceFile, seen : [SourceFile -> Readings]]
        \cup [does : {"copy"}, plan : ReviewPlans, todo : SUBSET (SourceFile \X Bytes)]
        \cup [does : {"next", "read"}, left : SUBSET SourceRecords]
        \cup [does : {"hash text", "hash index", "read text"}, for : Operation]
        \cup [does : {"read rows", "read index"}, for : Operation, text : History]
        \cup [does : {"candidates"}, left : SUBSET CandidateRecords]

SourceTypeOK ==
    /\ kind \in {"legacy", "sandglass"} /\ edits \in 0 .. MaxEdits
    /\ legacy \in [SourceFile -> Bytes \cup {Gone}]
    /\ archive \in [SourceFile -> Bytes \cup {Gone}]
    /\ sandglass \in [text : History \cup {Gone}, index : History \cup {Gone}]
    /\ approved \in {NoReview} \cup (IF kind = "legacy" THEN ReviewPlans ELSE HistoryPlans)
    /\ manifest \in {NoReview, approved}
    /\ made \subseteq IF kind = "legacy" THEN FileCards ELSE CandidateRecords
    /\ eligible \in BOOLEAN
    /\ job \in Jobs

(***************************************************************************)
(* Properties                                                              *)
(***************************************************************************)
\* What is imported is what was reviewed, however the user's files changed and changed
\* back between the reads: every card is of a record that the reviewed plan has as
\* planned, with the bytes that record was made of, and none of it is sensitive; the
\* archive of a staged epoch has the reviewed bytes; and an epoch that verify found eligible has
\* them all.
ImportedAsReviewed ==
    /\ kind = "legacy" =>
         /\ \A c \in made : \E r \in approved.records :
              r.state = "planned" /\ c = CardOfRecord(r)
         /\ \A c \in made : ~c.bytes.sensitive
         /\ manifest # NoReview => \A e \in approved.files : archive[e[1]] = e[2]
         /\ eligible => \A r \in approved.records :
                          CardOfRecord(r) \in made \/ r.state = "ignored"
    /\ kind = "sandglass" =>
         /\ \A c \in made : /\ c.text = approved.text
                            /\ \A i \in c.lines : c.text[i].user /\ ~c.text[i].sensitive
         /\ eligible => Candidates(approved.text) \subseteq made
=============================================================================
