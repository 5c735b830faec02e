----------------------- MODULE TaskStateStore_proofs -----------------------
(***************************************************************************)
(* Proofs about TaskStateStore.  The invariant has four parts.             *)
(*                                                                         *)
(* StoreIInv holds whatever happens: every revision of the authority       *)
(* between the journal's end and the head has its outbox row, every id     *)
(* stands for one transaction wherever it was written down, at most one    *)
(* prepared transaction has no committed event, and the process inside     *)
(* the lock, or waiting with something it read before, is based on what    *)
(* is still there.                                                         *)
(*                                                                         *)
(* LogIInv says what holds as long as the journal replays: the head is at  *)
(* the journal's end or one past it, a completion is the last thing in it, *)
(* has its row and is what the projection shows.  It gives the finality of *)
(* completions and the refinement of TaskLog.                              *)
(*                                                                         *)
(* ImageIInv is about the images the journal was replayed to: each of its  *)
(* revisions was committed, and as long as the authority accepted what was *)
(* committed, the projection, what is prepared, and what waits to be       *)
(* written are based on such images.  FilesIInv is about the files of the  *)
(* run inside the lock, whatever the journal says: what it has done, what  *)
(* it has backups of, and that its event is not yet committed while it may *)
(* change them.                                                            *)
(***************************************************************************)
EXTENDS TaskStateStore, FiniteSetTheorems, WellFoundedInduction, TLAPS

----------------------------------------------------------------------------
(* The invariant that holds whatever happens. *)

\* A transaction whether or not it was written down with its outbox row.
Core(tx) == [tx EXCEPT !.authority = TRUE]

PreparedTx ==
    {journal[n].tx : n \in {i \in 1 .. Len(journal) : journal[i].phase = "prepared"}}

\* A row is of the revision its transaction targets, and not past the head.
RowsOK ==
    \A r \in Rows :
        /\ Target(outbox[r].tx) = r
        /\ outbox[r].tx.commands # <<>>
        /\ sql # None
        /\ r <= sql

\* One id, one transaction; a committed event has its transaction's id or none.
IdsOK ==
    /\ \A t, u \in Recorded : t.id = u.id => Core(t) = Core(u)
    /\ \A e \in CommittedEvents : e.id \in {0, e.tx.id}

\* A head that is past a transaction's revision got there by its row.
Passed(tx) == sql # None /\ sql > tx.prev => Target(tx) \in Rows

\* A prepared transaction that names its row has it.
PreparedOK ==
    \A tx \in PreparedTx :
        /\ tx.commands # <<>>
        /\ tx.authority => Target(tx) \in Rows
        /\ tx.kind = "contract_continuity" => Passed(tx)

\* A committed continuity has moved the authority.
ContinuityBound ==
    \A e \in CommittedEvents : e.tx.kind = "contract_continuity" => sql # None

\* At most one transaction is half done.
AtMostOneIncomplete == \A t, u \in Incomplete : t = u

\* A journal that replays does so to an image that nothing committed and no
\* projection is past, and the head got past it by rows.
HeadFollows ==
    /\ CommittedEvents = {} => Replayed = NewProjection
    /\ Replayable =>
        /\ Replayed \in Projection
        /\ sql # None => Replayed.rev + 1 .. sql \subseteq Rows
        /\ projection.rev <= Replayed.rev
        /\ \A e \in CommittedEvents : Target(e.tx) <= Replayed.rev

\* A run before its prepared event: nothing is half done and its id is new.
Beginning(o) ==
    /\ o.mode = "direct"
    /\ Incomplete = {}
    /\ \A tx \in JournalTx : tx.id # o.tx.id
    /\ \A r \in Rows : outbox[r].tx.id = o.tx.id => Core(outbox[r].tx) = Core(o.tx)
    /\ o.tx.kind = "contract_continuity" => o.pc = "prepare" /\ Passed(o.tx)

\* A run after it is of a transaction in the journal, or of a row.
Begun(o) ==
    /\ o.mode = "outbox" =>
        Target(o.tx) \in Rows /\ o.tx = outbox[Target(o.tx)].tx
    /\ o.mode # "outbox" => \E t \in PreparedTx : Core(t) = Core(o.tx)

\* What runs inside the lock.
RunOK(o) ==
    /\ o \in Running
    /\ o.tx.commands # <<>>
    /\ o.todo \subseteq Rows
    /\ o.tx.authority => Target(o.tx) \in Rows
    /\ o.pc \in {"authority", "prepare", "write"} => o.left # <<>>
    /\ o.pc = "rollback" => o.undo # <<>>
    /\ IF o.pc \in {"authority", "prepare"} THEN Beginning(o) ELSE Begun(o)
    /\ o.pc = "bind" => o.tx.kind = "contract_continuity" /\ o.mode # "outbox"
    /\ o.pc = "commit" /\ o.tx.kind = "contract_continuity" => Target(o.tx) \in Rows
    /\ o.pc \in {"deliver", "publish"} => o.tx.authority
    /\ Replayable => o.tx.prev <= Replayed.rev
    /\ Replayable /\ o.pc \in {"project", "deliver", "publish"} => Target(o.tx) <= Replayed.rev

\* What waits for it, with what it read before.
WaitOK(o) ==
    /\ o \in {Idle} \cup Waiting
    /\ o.pc = "replay" => o.tx \in PreparedTx
    /\ o.pc = "row" => o.todo # {} /\ o.todo \subseteq Rows
    /\ o.pc = "image" => (Replayable => o.image.rev <= Replayed.rev)

ProcessesOK ==
    \A p \in Process : IF lock = p THEN RunOK(op[p]) ELSE WaitOK(op[p])

StoreOK ==
    /\ RowsOK
    /\ IdsOK
    /\ PreparedOK
    /\ ContinuityBound
    /\ AtMostOneIncomplete
    /\ HeadFollows
    /\ DeliveredInOrder

StoreIInv == TypeOK /\ StoreOK /\ ProcessesOK

----------------------------------------------------------------------------
(* What holds as long as the journal replays. *)

Open == Replayed.life = "open"

\* A completed life is what completions bring, and nothing else.
Lives(tx) == tx.life = "completed" <=> tx.kind = "task_completion"

\* The row of a completion seals the task.
Sealed(tx) ==
    tx.kind = "task_completion" =>
        Target(tx) \in Rows /\ outbox[Target(tx)].tx.life = "completed"

\* Where the head may be while tx, based on the journal's end, is under way.
Underway(tx) ==
    tx.prev = Replayed.rev =>
        /\ Open
        /\ \/ sql \in {None, Target(tx)}
           \/ tx.kind = "contract_continuity" /\ sql = tx.prev

\* Whatever was written down is of the right kind of life.
RecordsOK ==
    /\ \A tx \in Recorded : Lives(tx)
    /\ \A tx \in PreparedTx : Sealed(tx)

\* The head is at the journal's end or at the next revision of an open task;
\* a completed task's last row and projection are completed.
HeadOK ==
    /\ sql \in {None, Replayed.rev, Replayed.rev + 1}
    /\ sql \in {None, Replayed.rev + 1} => Open
    /\ ~Open => /\ Replayed.rev \in Rows
                /\ outbox[Replayed.rev].tx.life = "completed"
    /\ \A r \in Rows : outbox[r].status # "pending" => r <= Replayed.rev
    /\ projection.rev = Replayed.rev /\ ~Open => projection.life = "completed"

\* A completion is the end, and what was prepared is based on it or earlier.
JournalOK ==
    /\ \A e \in CommittedEvents : e.tx.kind = "task_completion" => ~Open
    /\ \A tx \in PreparedTx :
        /\ tx.prev <= Replayed.rev
        /\ Underway(tx)
        /\ tx.kind = "contract_continuity" /\ sql = None => tx.prev = Replayed.rev

\* What a run in the lock owes to the log: always, and while the journal replays.
RunLives(o) == Lives(o.tx) /\ (o.pc # "authority" => Sealed(o.tx))

RunLogOK(o) ==
    /\ o.pc = "authority" =>
        /\ o.tx.prev = Replayed.rev => Open
        /\ o.tx.kind = "task_completion" => o.tx.prev = Replayed.rev
    /\ o.pc = "prepare" =>
        /\ Underway(o.tx) /\ Open
        /\ o.tx.kind = "contract_continuity" => o.tx.prev = Replayed.rev
    /\ o.pc = "project" /\ Target(o.tx) = Replayed.rev /\ ~Open =>
        o.tx.life = "completed"

\* What a rebuild that waits with its image owes to it.
WaitLogOK(o) ==
    o.pc = "image" /\ o.image.rev = Replayed.rev /\ ~Open
        => o.image.life = "completed"

RunsLogOK ==
    \A p \in Process :
        IF lock = p THEN RunLives(op[p]) /\ (Replayable => RunLogOK(op[p]))
        ELSE Replayable => WaitLogOK(op[p])

LogOK == Replayable => HeadOK /\ JournalOK /\ CompletionIsFinal

LogIInv == RecordsOK /\ LogOK /\ RunsLogOK

----------------------------------------------------------------------------
(* The replay of a journal, event by event.  It is a recursive function, and *)
(* what is said of it for every length is proved by looking at the least     *)
(* position where it would fail.                                             *)

\* f is the images after the first m events.
Images(f, events, m) ==
    f = [n \in 0 .. m |->
            IF n = 0 THEN NewProjection ELSE Extended(f[n - 1], events[n])]

\* A set of natural numbers has a least element.
LEMMA LeastElement ==
    ASSUME NEW T \in SUBSET Nat, T # {}
    PROVE  \E x \in T : \A y \in T : x <= y
<1>1. IsWellFoundedOn(OpToRel(<, Nat), Nat)
  BY NatLessThanWellFounded
<1>2. \E x \in T : \A y \in T : ~ (<<y, x>> \in OpToRel(<, Nat))
  BY <1>1, WFMin
<1>3. \E x \in T : \A y \in T : ~(y < x)
  BY <1>2 DEF OpToRel
<1> QED BY <1>3

\* However many events there are, the images after them exist.
LEMMA ImagesExist ==
    ASSUME NEW events, NEW m \in Nat
    PROVE  \E f : Images(f, events, m)
<1> DEFINE Bad == {k \in 0 .. m : ~ \E f : Images(f, events, k)}
<1>1. SUFFICES Bad = {}
  OBVIOUS
<1>2. SUFFICES ASSUME Bad # {} PROVE FALSE
  OBVIOUS
<1>3. Bad \in SUBSET Nat
  OBVIOUS
<1>4. PICK k \in Bad : \A y \in Bad : k <= y
  <2> HIDE DEF Bad
  <2> QED BY <1>2, <1>3, LeastElement
<1>5. CASE k = 0
  <2>1. PICK f : f = [n \in 0 .. 0 |-> NewProjection]
    OBVIOUS
  <2>2. Images(f, events, 0)
    BY <2>1 DEF Images
  <2> QED BY <2>2, <1>4, <1>5
<1>6. CASE k # 0
  <2>1. k \in Nat /\ k > 0 /\ k - 1 \in Nat /\ k - 1 < k /\ k <= m
    BY <1>4, <1>6
  <2>2. k - 1 \in 0 .. m
    BY <2>1
  <2>3. k - 1 \notin Bad
    <3> HIDE DEF Bad
    <3> QED BY <2>1, <1>4
  <2>4. PICK g : Images(g, events, k - 1)
    BY <2>2, <2>3
  <2>5. PICK f : f = [n \in 0 .. k |-> IF n = 0 THEN NewProjection
                                       ELSE Extended(g[n - 1], events[n])]
    OBVIOUS
  <2>6. \A n \in 0 .. k - 1 : n \in 0 .. k /\ f[n] = g[n]
    BY <2>1, <2>4, <2>5 DEF Images
  <2>7. \A n \in 0 .. k : n # 0 => n - 1 \in 0 .. k - 1
    BY <2>1
  <2>8. \A n \in 0 .. k : f[n] = IF n = 0 THEN NewProjection
                                 ELSE Extended(f[n - 1], events[n])
    BY <2>5, <2>6, <2>7
  <2>9. f = [n \in 0 .. k |-> f[n]]
    BY <2>5
  <2>10. Images(f, events, k)
    BY <2>8, <2>9 DEF Images
  <2> QED BY <2>10, <1>4
<1> QED BY <1>5, <1>6

\* The replay is the last of the images.
LEMMA ReplayIsLast ==
    ASSUME NEW events, Len(events) \in Nat
    PROVE  \E f : Images(f, events, Len(events)) /\ ReplayOf(events) = f[Len(events)]
<1> DEFINE g == CHOOSE f : Images(f, events, Len(events))
<1>1. Images(g, events, Len(events))
  BY ImagesExist
<1>2. ReplayOf(events) = g[Len(events)]
  BY DEF ReplayOf, Images
<1> QED BY <1>1, <1>2

\* What an image is, position by position.
LEMMA ImageAt ==
    ASSUME NEW f, NEW events, NEW m \in Nat, Images(f, events, m)
    PROVE  /\ f[0] = NewProjection
           /\ \A n \in 1 .. m : f[n] = Extended(f[n - 1], events[n])
<1>1. \A n \in 0 .. m : f[n] = IF n = 0 THEN NewProjection
                               ELSE Extended(f[n - 1], events[n])
  BY DEF Images
<1>2. 0 \in 0 .. m /\ \A n \in 1 .. m : n \in 0 .. m /\ n # 0
  OBVIOUS
<1> QED BY <1>1, <1>2

\* An empty journal replays to a new projection.
LEMMA ReplayOfNothing == ReplayOf(<<>>) = NewProjection
<1>1. PICK f : Images(f, <<>>, 0) /\ ReplayOf(<<>>) = f[0]
  BY ReplayIsLast
<1> QED BY <1>1, ImageAt

\* One more event extends the image by that event.
LEMMA ReplayOfAppend ==
    ASSUME NEW S, NEW events \in Seq(S), NEW e \in S
    PROVE  ReplayOf(Append(events, e)) = Extended(ReplayOf(events), e)
<1>1. PICK longer : longer = Append(events, e)
  OBVIOUS
<1>2. PICK m \in Nat : m = Len(events)
  OBVIOUS
<1>3. /\ Len(longer) = m + 1 /\ longer[m + 1] = e
      /\ \A n \in 1 .. m : longer[n] = events[n]
  BY <1>1, <1>2
<1>4. PICK f : Images(f, events, m) /\ ReplayOf(events) = f[m]
  BY <1>2, ReplayIsLast
<1>5. PICK g : Images(g, longer, m + 1) /\ ReplayOf(longer) = g[m + 1]
  BY <1>3, ReplayIsLast
<1>6. /\ f[0] = NewProjection
      /\ \A n \in 1 .. m : f[n] = Extended(f[n - 1], events[n])
  BY <1>4, ImageAt
<1>7. m + 1 \in Nat
  OBVIOUS
<1>8. /\ g[0] = NewProjection
      /\ \A n \in 1 .. m + 1 : g[n] = Extended(g[n - 1], longer[n])
  BY <1>5, <1>7, ImageAt
<1> DEFINE Bad == {n \in 0 .. m : f[n] # g[n]}
<1>9. Bad = {}
  <2> SUFFICES ASSUME Bad # {} PROVE FALSE
    OBVIOUS
  <2>1. Bad \in SUBSET Nat
    OBVIOUS
  <2>2. PICK k \in Bad : \A y \in Bad : k <= y
    <3> HIDE DEF Bad
    <3> QED BY <2>1, LeastElement
  <2>3. k \in 1 .. m /\ k \in 1 .. m + 1 /\ k - 1 \in 0 .. m /\ k - 1 < k
    BY <1>6, <1>8, <2>2
  <2>4. f[k - 1] = g[k - 1]
    BY <2>2, <2>3
  <2>5. f[k] = g[k]
    BY <2>3, <2>4, <1>3, <1>6, <1>8
  <2> QED BY <2>2, <2>5
<1>10. f[m] = g[m]
  BY <1>9
<1>11. g[m + 1] = Extended(g[m], longer[m + 1])
  <2>1. m + 1 \in 1 .. m + 1 /\ (m + 1) - 1 = m
    OBVIOUS
  <2> QED BY <2>1, <1>8
<1> QED BY <1>1, <1>3, <1>4, <1>5, <1>10, <1>11

----------------------------------------------------------------------------
(* Transactions, images and the journal. *)

\* The fields of a transaction.
LEMMA TransactionFields ==
    ASSUME NEW tx \in Transaction
    PROVE  /\ tx.id \in Nat \ {0}
           /\ tx.prev \in Nat /\ tx.prev \in 0 .. MaxRevision - 1
           /\ Target(tx) = tx.prev + 1
           /\ Target(tx) \in Nat /\ Target(tx) \in 1 .. MaxRevision
           /\ tx.ent \in [Kinds -> Content]
           /\ tx.life \in {"open", "completed"}
           /\ tx.commands \in Seq(Slots)
           /\ tx.seen \in [Slots -> Content]
           /\ tx.authority \in BOOLEAN
<1>1. MaxRevision \in Nat
  BY TaskStateStoreAssumption
<1>2. tx.prev \in 0 .. MaxRevision - 1
  BY DEF Transaction
<1>3. tx.prev \in Nat /\ tx.prev + 1 \in Nat /\ tx.prev + 1 \in 1 .. MaxRevision
  BY <1>1, <1>2
<1> QED BY <1>2, <1>3 DEF Transaction, Target

\* Naming an outbox row changes nothing else of a transaction.
LEMMA CoreFields ==
    ASSUME NEW tx \in Transaction
    PROVE  /\ Core(tx) \in Transaction
           /\ Core(tx).authority
           /\ Core(tx).id = tx.id /\ Core(tx).kind = tx.kind
           /\ Core(tx).prev = tx.prev /\ Core(tx).life = tx.life
           /\ Core(tx).commands = tx.commands
           /\ Core(tx).ent = tx.ent
           /\ Target(Core(tx)) = Target(tx)
           /\ Core(Core(tx)) = Core(tx)
BY DEF Core, Transaction, Target

\* A gap is no image, and nothing closes it.
LEMMA GapStays ==
    ASSUME NEW e \in Event
    PROVE  /\ Gap \notin Projection
           /\ Extended(Gap, e) = Gap
<1>1. Gap.rev = -1
  BY DEF Gap, NewProjection
<1>2. Gap \notin Projection
  <2>1. \A i \in Projection : i.rev \in 0 .. MaxRevision
    BY DEF Projection
  <2> QED BY <1>1, <2>1
<1>3. e.phase # "prepared" => e.tx \in Transaction
  BY DEF Event
<1>4. e.phase # "prepared" => e.tx.prev # -1
  BY <1>3, TransactionFields
<1>5. Extended(Gap, e) = Gap
  BY <1>1, <1>4 DEF Extended
<1> QED BY <1>2, <1>5

\* What a transaction projects to is an image, of the revision it targets.
LEMMA ProjectedIs ==
    ASSUME NEW image \in Projection, NEW tx \in Transaction, NEW whole \in BOOLEAN
    PROVE  /\ Projected(image, tx, whole) \in Projection
           /\ Projected(image, tx, whole).rev = Target(tx)
           /\ Projected(image, tx, whole).life = IF whole THEN tx.life ELSE image.life
<1>1. Target(tx) \in 0 .. MaxRevision
  BY TransactionFields, TaskStateStoreAssumption
<1>2. tx.ent \in [Kinds -> Content] /\ tx.life \in {"open", "completed"}
  BY TransactionFields
<1>3. image.ent \in [Kinds -> Content] /\ image.life \in {"open", "completed"}
  BY DEF Projection
<1>4. PICK ent : ent = IF whole THEN tx.ent
                       ELSE [k \in Kinds |-> IF k \in Touched(tx) THEN tx.ent[k]
                                             ELSE image.ent[k]]
  OBVIOUS
<1>5. ent \in [Kinds -> Content]
  BY <1>2, <1>3, <1>4
<1>6. PICK life : life = IF whole THEN tx.life ELSE image.life
  OBVIOUS
<1>7. life \in {"open", "completed"}
  BY <1>2, <1>3, <1>6
<1>8. Projected(image, tx, whole) = [rev |-> Target(tx), ent |-> ent, life |-> life]
  BY <1>4, <1>6 DEF Projected
<1>9. [rev |-> Target(tx), ent |-> ent, life |-> life] \in Projection
  BY <1>1, <1>5, <1>7 DEF Projection
<1> QED BY <1>6, <1>8, <1>9

\* An event extends an image of the revision before, or leaves a gap.
LEMMA ExtendedIs ==
    ASSUME NEW image \in Projection, NEW e \in Event
    PROVE  /\ Extended(image, e) \in Projection \cup {Gap}
           /\ e.phase = "prepared" => Extended(image, e) = image
           /\ e.phase = "committed" /\ Extended(image, e) # Gap =>
                /\ image.rev = e.tx.prev
                /\ Extended(image, e) = Projected(image, e.tx, e.whole)
                /\ Extended(image, e).rev = image.rev + 1
                /\ Extended(image, e).rev = Target(e.tx)
<1>1. CASE e.phase = "prepared"
  BY <1>1 DEF Extended
<1>2. CASE e.phase # "prepared"
  <2>1. e.tx \in Transaction /\ e.whole \in BOOLEAN
    BY <1>2 DEF Event
  <2>2. CASE image.rev = e.tx.prev
    <3>1. Extended(image, e) = Projected(image, e.tx, e.whole)
      BY <1>2, <2>2 DEF Extended
    <3>2. /\ Projected(image, e.tx, e.whole) \in Projection
          /\ Projected(image, e.tx, e.whole).rev = Target(e.tx)
      BY <2>1, ProjectedIs
    <3> QED BY <3>1, <3>2, <2>2, <1>2 DEF Target
  <2>3. CASE image.rev # e.tx.prev
    BY <2>3, <1>2 DEF Extended
  <2> QED BY <2>2, <2>3
<1> QED BY <1>1, <1>2

\* A new projection is one.
LEMMA NewProjectionIs == NewProjection \in Projection
BY TaskStateStoreAssumption DEF NewProjection, Projection, Content

\* What one more event does to what is read from the journal.
LEMMA JournalGrows ==
    ASSUME journal \in Seq(Event), NEW e \in Event, journal' = Append(journal, e)
    PROVE  /\ journal' \in Seq(Event)
           /\ Replayed' = Extended(Replayed, e)
           /\ JournalTx' = JournalTx \cup {e.tx}
           /\ e.phase = "committed" =>
                CommittedEvents' = CommittedEvents \cup {e} /\ PreparedTx' = PreparedTx
           /\ e.phase = "prepared" =>
                CommittedEvents' = CommittedEvents /\ PreparedTx' = PreparedTx \cup {e.tx}
<1>1. PICK m \in Nat : m = Len(journal)
  OBVIOUS
<1>2. /\ journal' \in Seq(Event) /\ Len(journal') = m + 1 /\ journal'[m + 1] = e
      /\ \A n \in 1 .. m : journal'[n] = journal[n]
  BY <1>1
<1>3. 1 .. m + 1 = (1 .. m) \cup {m + 1} /\ m + 1 \notin 1 .. m
  OBVIOUS
<1>4. Replayed' = Extended(Replayed, e)
  BY ReplayOfAppend DEF Replayed
<1>5. JournalTx' = JournalTx \cup {e.tx}
  BY <1>1, <1>2, <1>3 DEF JournalTx
<1>6. CommittedEvents' = IF e.phase = "committed" THEN CommittedEvents \cup {e}
                         ELSE CommittedEvents
  BY <1>1, <1>2, <1>3 DEF CommittedEvents
<1>7. PreparedTx' = IF e.phase = "prepared" THEN PreparedTx \cup {e.tx}
                    ELSE PreparedTx
  BY <1>1, <1>2, <1>3 DEF PreparedTx
<1> QED BY <1>2, <1>4, <1>5, <1>6, <1>7

\* The journal's sets and what their members are.
LEMMA JournalSets ==
    ASSUME journal \in Seq(Event)
    PROVE  /\ PreparedTx \subseteq JournalTx
           /\ JournalTx \subseteq Transaction
           /\ \A e \in CommittedEvents :
                e \in Event /\ e.phase = "committed" /\ e.tx \in JournalTx
           /\ Incomplete = {tx \in PreparedTx : \A e \in CommittedEvents : e.id # tx.id}
<1>1. PreparedTx \subseteq JournalTx
  BY DEF PreparedTx, JournalTx
<1>2. \A n \in 1 .. Len(journal) : journal[n] \in Event
  OBVIOUS
<1>3. \A e \in Event : e.tx \in Transaction
  BY DEF Event
<1>4. JournalTx \subseteq Transaction
  BY <1>2, <1>3 DEF JournalTx
<1>5. \A e \in CommittedEvents :
        e \in Event /\ e.phase = "committed" /\ e.tx \in JournalTx
  BY <1>2 DEF CommittedEvents, JournalTx
<1>6. Incomplete = {tx \in PreparedTx : \A e \in CommittedEvents : e.id # tx.id}
  BY DEF Incomplete, PreparedTx
<1> QED BY <1>1, <1>4, <1>5, <1>6

----------------------------------------------------------------------------
(* How the steps of one process leave the others alone. *)

Durable == <<journal, projection, sql, outbox>>

\* What was prepared stays prepared, rows stay, and a journal that replays
\* replayed before, to no later revision.
Grows ==
    /\ PreparedTx \subseteq PreparedTx'
    /\ Rows \subseteq Rows'
    /\ Replayable' => Replayable /\ Replayed.rev <= Replayed'.rev

\* A journal that replays does so to an image with a revision.
LEMMA RevisionOf ==
    ASSUME StoreOK, Replayable
    PROVE  Replayed \in Projection /\ Replayed.rev \in Nat /\ Replayed.rev \in 0 .. MaxRevision
BY TaskStateStoreAssumption DEF StoreOK, HeadFollows, Projection

\* Nothing of this changes when the durable state does not.
LEMMA SameStore ==
    ASSUME StoreOK, UNCHANGED Durable
    PROVE  /\ Grows
           /\ StoreOK'
           /\ \A o : RunOK(o)' <=> RunOK(o)
           /\ \A o : WaitOK(o)' <=> WaitOK(o)
<1>1. sql' = sql /\ outbox' = outbox /\ projection' = projection /\ journal' = journal
  BY DEF Durable
<1>2. /\ PreparedTx' = PreparedTx /\ Rows' = Rows /\ JournalTx' = JournalTx
      /\ Replayed' = Replayed /\ CommittedEvents' = CommittedEvents
      /\ Incomplete' = Incomplete
  BY <1>1 DEF PreparedTx, Rows, JournalTx, Replayed, CommittedEvents, Incomplete
<1>3. (Replayable' <=> Replayable) /\ Recorded' = Recorded
  BY <1>1, <1>2 DEF Replayable, Recorded
<1>4. Grows
  BY <1>2, <1>3, RevisionOf DEF Grows
<1>5. StoreOK'
  <2>1. RowsOK'
    BY <1>1, <1>2 DEF StoreOK, RowsOK
  <2>2. IdsOK'
    BY <1>1, <1>2, <1>3 DEF StoreOK, IdsOK
  <2>3. PreparedOK'
    BY <1>1, <1>2, <1>3 DEF StoreOK, PreparedOK, Passed
  <2>4. ContinuityBound' /\ AtMostOneIncomplete' /\ HeadFollows'
    BY <1>1, <1>2, <1>3 DEF StoreOK, ContinuityBound, AtMostOneIncomplete, HeadFollows
  <2>5. DeliveredInOrder'
    BY <1>1, <1>2 DEF StoreOK, DeliveredInOrder
  <2> QED BY <2>1, <2>2, <2>3, <2>4, <2>5 DEF StoreOK
<1>6. ASSUME NEW o PROVE RunOK(o)' <=> RunOK(o)
  <2>1. Beginning(o)' <=> Beginning(o)
    BY <1>1, <1>2 DEF Beginning, Passed
  <2>2. Begun(o)' <=> Begun(o)
    BY <1>1, <1>2 DEF Begun
  <2> QED BY <2>1, <2>2, <1>1, <1>2, <1>3 DEF RunOK
<1>7. ASSUME NEW o PROVE WaitOK(o)' <=> WaitOK(o)
  BY <1>2, <1>3 DEF WaitOK
<1> QED BY <1>4, <1>5, <1>6, <1>7

\* The fields of a waiting operation.
LEMMA WaitingFields ==
    ASSUME NEW o \in {Idle} \cup Waiting
    PROVE  /\ o.pc \in {"idle", "ready", "replay", "outbox", "rebuild", "row", "image"}
           /\ o.pc = "idle" => o = Idle
           /\ o.pc = "ready" => o.known \in (0 .. MaxRevision) \cup {None}
           /\ o.pc = "replay" => o.tx \in Transaction
           /\ o.pc = "row" => o.todo \in SUBSET (1 .. MaxRevision)
           /\ o.pc = "image" => o.image \in Projection
BY DEF Idle, Waiting

\* What a process waits for stays there.
LEMMA WaitKept ==
    ASSUME StoreOK, StoreOK', Grows, NEW o, WaitOK(o)
    PROVE  WaitOK(o)'
<1>1. o \in {Idle} \cup Waiting
  BY DEF WaitOK
<1>2. o.pc = "replay" => o.tx \in PreparedTx'
  BY DEF WaitOK, Grows
<1>3. o.pc = "row" => o.todo # {} /\ o.todo \subseteq Rows'
  BY DEF WaitOK, Grows
<1>4. ASSUME o.pc = "image", Replayable' PROVE o.image.rev <= Replayed'.rev
  <2>1. Replayable /\ Replayed.rev <= Replayed'.rev
    BY <1>4 DEF Grows
  <2>2. Replayed.rev \in Nat
    BY <2>1, RevisionOf
  <2>3. Replayed'.rev \in Nat
    BY <1>4, RevisionOf, TaskStateStoreAssumption DEF StoreOK, HeadFollows, Projection
  <2>4. o.image.rev \in Nat
    BY <1>1, <1>4, WaitingFields, TaskStateStoreAssumption DEF Projection
  <2>5. o.image.rev <= Replayed.rev
    BY <1>4, <2>1 DEF WaitOK
  <2> QED BY <2>1, <2>2, <2>3, <2>4, <2>5
<1> QED BY <1>1, <1>2, <1>3, <1>4 DEF WaitOK

\* A step of p, with or without the lock, keeps the invariant if it keeps the
\* store in order and leaves p in order; only the holder of the lock or, when
\* there is none, anybody changes the durable state.
LEMMA Moved ==
    ASSUME StoreIInv, NEW p \in Process, NEW o,
           op' = [op EXCEPT ![p] = o],
           \/ lock' = lock
           \/ lock = p /\ lock' = None
           \/ lock = None /\ lock' = p,
           lock \in {p, None} \/ UNCHANGED Durable,
           journal' \in Seq(Event), projection' \in Projection,
           files' \in [Slots -> Content],
           sql' \in (0 .. MaxRevision) \cup {None},
           outbox' \in [1 .. MaxRevision -> Row \cup {None}],
           faults' \in 0 .. MaxFaults,
           Grows, StoreOK',
           IF lock' = p THEN RunOK(o)' ELSE WaitOK(o)'
    PROVE  StoreIInv'
<1>1. None \notin Process
  BY NoneAssumption
<1>2. op \in [Process -> {Idle} \cup Waiting \cup Running] /\ lock \in Process \cup {None}
  BY DEF StoreIInv, TypeOK
<1>3. op'[p] = o /\ \A q \in Process : q # p => op'[q] = op[q]
  BY <1>2
<1>4. lock' \in Process \cup {None}
  BY <1>2
<1>5. ASSUME NEW q \in Process
      PROVE  (IF lock = q THEN RunOK(op[q]) ELSE WaitOK(op[q]))'
  <2>1. PICK u : u = op'[q]
    OBVIOUS
  <2>2. CASE q = p
    <3>1. u = o
      BY <1>3, <2>1, <2>2
    <3>2. IF lock' = q THEN RunOK(u)' ELSE WaitOK(u)'
      BY <3>1, <2>2
    <3> QED BY <3>2, <2>1 DEF RunOK, Beginning, Begun, Passed, WaitOK
  <2>3. CASE q # p /\ lock = q
    <3>1. lock' = q /\ UNCHANGED Durable
      BY <2>3, <1>1
    <3>2. u = op[q]
      BY <1>3, <2>1, <2>3
    <3>3. RunOK(u)
      BY <2>3, <3>2 DEF StoreIInv, ProcessesOK
    <3>4. RunOK(u)'
      BY <3>1, <3>3, SameStore DEF StoreIInv
    <3> QED BY <3>1, <3>4, <2>1 DEF RunOK, Beginning, Begun, Passed
  <2>4. CASE q # p /\ lock # q
    <3>1. lock' # q
      BY <2>4, <1>1
    <3>2. u = op[q]
      BY <1>3, <2>1, <2>4
    <3>3. WaitOK(u)
      BY <2>4, <3>2 DEF StoreIInv, ProcessesOK
    <3>4. WaitOK(u)'
      BY <3>3, WaitKept DEF StoreIInv
    <3> QED BY <3>1, <3>4, <2>1 DEF WaitOK
  <2> QED BY <2>2, <2>3, <2>4
<1>6. ProcessesOK'
  BY <1>5 DEF ProcessesOK
<1>7. op' \in [Process -> {Idle} \cup Waiting \cup Running]
  <2>1. o \in {Idle} \cup Waiting \cup Running
    BY DEF RunOK, WaitOK
  <2> QED BY <1>2, <2>1
<1>8. TypeOK'
  BY <1>4, <1>7 DEF TypeOK
<1> QED BY <1>6, <1>8 DEF StoreIInv

\* The same for a step that leaves the durable state alone.
LEMMA Quiet ==
    ASSUME StoreIInv, NEW p \in Process, NEW o,
           op' = [op EXCEPT ![p] = o],
           \/ lock' = lock
           \/ lock = p /\ lock' = None
           \/ lock = None /\ lock' = p,
           UNCHANGED Durable,
           files' \in [Slots -> Content], faults' \in 0 .. MaxFaults,
           IF lock' = p THEN RunOK(o) ELSE WaitOK(o)
    PROVE  StoreIInv'
<1>1. Grows /\ StoreOK' /\ (RunOK(o)' <=> RunOK(o)) /\ (WaitOK(o)' <=> WaitOK(o))
  BY SameStore DEF StoreIInv
<1>2. /\ journal' \in Seq(Event) /\ projection' \in Projection
      /\ sql' \in (0 .. MaxRevision) \cup {None}
      /\ outbox' \in [1 .. MaxRevision -> Row \cup {None}]
  BY DEF StoreIInv, TypeOK, Durable
<1> QED BY <1>1, <1>2, Moved

----------------------------------------------------------------------------
(* Beginning a transaction. *)

\* The fields of a running operation.
LEMMA RunningFields ==
    ASSUME NEW o \in Running
    PROVE  /\ o.pc \in {"authority", "prepare", "write", "bind", "commit", "project",
                        "deliver", "publish", "clean", "rollback"}
           /\ o.mode \in {"direct", "replay", "outbox"}
           /\ o.tx \in Transaction
           /\ o.left \in Seq(Slots)
           /\ o.undo \in Seq([slot: Slots, before: Content])
           /\ o.todo \in SUBSET (1 .. MaxRevision)
           /\ o.known \in (0 .. MaxRevision) \cup {None}
BY DEF Running

\* A run starts with what it is given.
LEMMA RunIs ==
    ASSUME NEW mode \in {"direct", "replay", "outbox"},
           NEW pc \in {"authority", "prepare", "write"},
           NEW tx \in Transaction, NEW todo \in SUBSET (1 .. MaxRevision),
           NEW known \in (0 .. MaxRevision) \cup {None}
    PROVE  /\ Run(mode, pc, tx, todo, known) \in Running
           /\ Run(mode, pc, tx, todo, known).pc = pc
           /\ Run(mode, pc, tx, todo, known).mode = mode
           /\ Run(mode, pc, tx, todo, known).tx = tx
           /\ Run(mode, pc, tx, todo, known).left = tx.commands
           /\ Run(mode, pc, tx, todo, known).todo = todo
<1>1. tx.commands \in Seq(Slots)
  BY TransactionFields
<1>2. <<>> \in Seq([slot: Slots, before: Content])
  OBVIOUS
<1> QED BY <1>1, <1>2 DEF Run, Running

\* A function takes finitely many values on a finite set.
LEMMA FiniteImage ==
    ASSUME NEW S, NEW f, f = [x \in S |-> f[x]], IsFiniteSet(S)
    PROVE  IsFiniteSet({f[x] : x \in S})
<1>1. PICK T : T = {f[x] : x \in S}
  OBVIOUS
<1>2. f \in Surjection(S, T)
  BY <1>1 DEF Surjection
<1> QED BY <1>1, <1>2, FS_Surjection

\* There is always an id nobody has used.
LEMMA NewIdIsFresh ==
    ASSUME journal \in Seq(Event)
    PROVE  /\ NewId \in Nat \ {0}
           /\ \A tx \in JournalTx : tx.id # NewId
           /\ \A r \in Rows : outbox[r].tx.id # NewId
<1> DEFINE ofEvents == {journal[n].tx.id : n \in 1 .. Len(journal)}
           ofRows == {outbox[r].tx.id : r \in Rows}
           used == ofEvents \cup ofRows
           free == 1 .. Cardinality(used) + 1
<1>1. IsFiniteSet(ofEvents)
  <2>1. Len(journal) \in Nat
    OBVIOUS
  <2>2. IsFiniteSet(1 .. Len(journal))
    BY <2>1, FS_Interval
  <2>3. PICK f : f = [n \in 1 .. Len(journal) |-> journal[n].tx.id]
    OBVIOUS
  <2>4. ofEvents = {f[n] : n \in 1 .. Len(journal)}
    BY <2>3
  <2> QED BY <2>2, <2>3, <2>4, FiniteImage
<1>2. IsFiniteSet(ofRows)
  <2>1. IsFiniteSet(1 .. MaxRevision)
    BY FS_Interval, TaskStateStoreAssumption
  <2>2. IsFiniteSet(Rows)
    BY <2>1, FS_Subset DEF Rows
  <2>3. PICK f : f = [r \in Rows |-> outbox[r].tx.id]
    OBVIOUS
  <2>4. ofRows = {f[r] : r \in Rows}
    BY <2>3
  <2> QED BY <2>2, <2>3, <2>4, FiniteImage
<1>3. IsFiniteSet(used)
  <2> HIDE DEF ofEvents, ofRows
  <2> QED BY <1>1, <1>2, FS_Union
<1>4. Cardinality(used) \in Nat
  <2> HIDE DEF used
  <2> QED BY <1>3, FS_CardinalityType
<1>5. \E id \in free : id \notin used
  <2> HIDE DEF used
  <2>1. SUFFICES ASSUME free \subseteq used PROVE FALSE
    OBVIOUS
  <2>2. Cardinality(free) <= Cardinality(used)
    BY <2>1, <1>3, FS_Subset
  <2>3. Cardinality(free) = Cardinality(used) + 1
    <3>1. PICK c \in Int : c = Cardinality(used) + 1 /\ c > 0
      BY <1>4
    <3>2. Cardinality(1 .. c) = c
      BY <3>1, FS_Interval
    <3> QED BY <3>1, <3>2
  <2> QED BY <2>2, <2>3, <1>4
<1>6. NewId \in free /\ NewId \notin used
  <2>1. NewId = CHOOSE id \in free : id \notin used
    BY DEF NewId
  <2> HIDE DEF used, free
  <2> QED BY <2>1, <1>5
<1>7. NewId \in Nat \ {0}
  <2> HIDE DEF used
  <2> QED BY <1>4, <1>6
<1>8. NewId \notin ofEvents /\ NewId \notin ofRows
  BY <1>6
<1> QED BY <1>7, <1>8 DEF JournalTx

\* A transaction begins with nothing half done, in the caller's name, and, if
\* it is a continuity, with a head that its own revision has not passed.
LEMMA BeginKeeps ==
    ASSUME StoreIInv, NEW p \in Process,
           NEW kind \in {"entity_upsert", "entity_clear", "active_task_bundle",
                         "contract_continuity", "task_completion"},
           NEW ent \in [Kinds -> Content], NEW life \in {"open", "completed"},
           NEW commands \in Seq(Slots), commands # <<>>,
           NEW first \in {"authority", "prepare"},
           kind = "contract_continuity" => first = "prepare" /\ op[p].known # None,
           Begin(p, kind, ent, life, commands, first)
    PROVE  StoreIInv'
<1>1. PICK known : known = op[p].known
  OBVIOUS
<1>2. PICK tx : tx = [id |-> NewId, kind |-> kind, prev |-> projection.rev,
                      ent |-> ent, life |-> life, commands |-> commands,
                      seen |-> files, authority |-> FALSE]
  OBVIOUS
<1>3. PICK o : o = Run("direct", first, tx, {}, known)
  OBVIOUS
<1>4. /\ op[p].pc = "ready" /\ lock = None /\ NothingIncomplete(known)
      /\ projection.rev < MaxRevision
      /\ lock' = p /\ op' = [op EXCEPT ![p] = o]
      /\ UNCHANGED <<journal, projection, files, sql, outbox, faults>>
  BY <1>1, <1>2, <1>3 DEF Begin
<1>5. TypeOK /\ StoreOK /\ ProcessesOK
  BY DEF StoreIInv
<1>6. known \in (0 .. MaxRevision) \cup {None}
  <2>1. WaitOK(op[p])
    BY <1>4, <1>5, NoneAssumption DEF ProcessesOK
  <2> QED BY <1>1, <1>4, <2>1, WaitingFields DEF WaitOK
<1>7. tx \in Transaction
  <2>1. NewId \in Nat \ {0}
    BY <1>5, NewIdIsFresh DEF TypeOK
  <2>2. projection.rev \in 0 .. MaxRevision - 1
    BY <1>4, <1>5, TaskStateStoreAssumption DEF TypeOK, Projection
  <2>3. files \in [Slots -> Content]
    BY <1>5 DEF TypeOK
  <2> QED BY <1>2, <2>1, <2>2, <2>3 DEF Transaction
<1>8. o \in Running /\ o.pc = first /\ o.mode = "direct" /\ o.tx = tx /\ o.todo = {}
      /\ o.left = tx.commands
  BY <1>3, <1>6, <1>7, RunIs
<1>9. Replayable /\ Incomplete = {}
  BY <1>4 DEF NothingIncomplete, Replayable
<1>10. tx.prev = projection.rev /\ tx.prev <= Replayed.rev
  BY <1>2, <1>5, <1>9 DEF StoreOK, HeadFollows
<1>11. ASSUME kind = "contract_continuity" PROVE Passed(tx)
  <2>1. CommittedEvents = {} \/ projection = Replayed
    BY <1>1, <1>4, <1>11 DEF NothingIncomplete
  <2>2. tx.prev = Replayed.rev
    <3>1. CASE projection = Replayed
      BY <3>1, <1>10
    <3>2. CASE CommittedEvents = {}
      <4>1. Replayed.rev = 0
        BY <3>2, <1>5 DEF StoreOK, HeadFollows, NewProjection
      <4>2. tx.prev \in Nat
        BY <1>7, TransactionFields
      <4> QED BY <4>1, <4>2, <1>10
    <3> QED BY <2>1, <3>1, <3>2
  <2>3. sql # None => Replayed.rev + 1 .. sql \subseteq Rows
    BY <1>5, <1>9 DEF StoreOK, HeadFollows
  <2>4. sql # None => sql \in Nat
    BY <1>5, TaskStateStoreAssumption DEF TypeOK
  <2>5. tx.prev \in Nat /\ Target(tx) = tx.prev + 1
    BY <1>7, TransactionFields
  <2> QED BY <2>2, <2>3, <2>4, <2>5 DEF Passed
<1>12. Beginning(o)
  <2>1. /\ \A t \in JournalTx : t.id # NewId
        /\ \A r \in Rows : outbox[r].tx.id # NewId
    BY <1>5, NewIdIsFresh DEF TypeOK
  <2>2. tx.id = NewId /\ tx.kind = kind
    BY <1>2
  <2> QED BY <2>1, <2>2, <1>8, <1>9, <1>11 DEF Beginning
<1>13. RunOK(o)
  <2>1. ~tx.authority /\ tx.commands # <<>>
    BY <1>2
  <2> QED BY <2>1, <1>8, <1>10, <1>12 DEF RunOK
<1>14. files' \in [Slots -> Content] /\ faults' \in 0 .. MaxFaults /\ UNCHANGED Durable
  BY <1>4, <1>5 DEF TypeOK, Durable
<1> QED BY <1>4, <1>13, <1>14, Quiet

----------------------------------------------------------------------------
(* The steps that leave the durable state alone. *)

\* The holder of the lock runs, the others wait.
LEMMA WhoRuns ==
    ASSUME StoreIInv, NEW p \in Process
    PROVE  /\ TypeOK /\ StoreOK
           /\ lock = p => RunOK(op[p]) /\ op[p] \in Running
           /\ lock # p => WaitOK(op[p]) /\ op[p] \in {Idle} \cup Waiting
           /\ lock = None => lock # p
           /\ op \in [Process -> {Idle} \cup Waiting \cup Running]
BY NoneAssumption DEF StoreIInv, ProcessesOK, TypeOK, RunOK, WaitOK

\* Anybody may stop.
LEMMA IdleWaits == WaitOK(Idle)
BY DEF WaitOK, Idle

\* So may a process that is on its way to a rebuild or to the outbox.
LEMMA PlainWaits ==
    ASSUME NEW pc \in {"outbox", "rebuild"}
    PROVE  WaitOK([pc |-> pc])
<1>1. [pc |-> pc] \in Waiting
  BY DEF Waiting
<1> QED BY <1>1 DEF WaitOK

\* And one with rows still to come.
LEMMA RowWaits ==
    ASSUME NEW todo \in SUBSET (1 .. MaxRevision), todo # {}, todo \subseteq Rows
    PROVE  WaitOK([pc |-> "row", todo |-> todo])
<1>1. [pc |-> "row", todo |-> todo] \in Waiting
  BY DEF Waiting
<1> QED BY <1>1 DEF WaitOK

\* What comes after a run is something to wait for.
LEMMA NextWaits ==
    ASSUME NEW p \in Process, RunOK(op[p]), NEW done \in BOOLEAN
    PROVE  WaitOK(Next_(p, done)) /\ Next_(p, done).pc # "image"
<1>1. op[p] \in Running /\ op[p].todo \subseteq Rows
  BY DEF RunOK
<1>2. op[p].mode \in {"direct", "replay", "outbox"} /\ op[p].todo \in SUBSET (1 .. MaxRevision)
  BY <1>1, RunningFields
<1>3. CASE op[p].mode = "direct"
  BY <1>3, IdleWaits DEF Next_, Idle
<1>4. CASE op[p].mode = "replay"
  <2>1. Next_(p, done) = [pc |-> IF done THEN "outbox" ELSE "rebuild"]
    BY <1>4 DEF Next_
  <2> QED BY <2>1, PlainWaits
<1>5. CASE op[p].mode = "outbox"
  <2>1. PICK rest : rest = op[p].todo \ {Target(op[p].tx)}
    OBVIOUS
  <2>2. Next_(p, done) = IF rest = {} THEN [pc |-> "rebuild"]
                         ELSE [pc |-> "row", todo |-> rest]
    BY <1>5, <2>1 DEF Next_
  <2>3. rest \in SUBSET (1 .. MaxRevision) /\ rest \subseteq Rows
    BY <1>1, <1>2, <2>1
  <2> QED BY <2>2, <2>3, PlainWaits, RowWaits
<1> QED BY <1>2, <1>3, <1>4, <1>5

\* A run that has begun may be given up at any time for its rollback.
LEMMA RollbackRuns ==
    ASSUME NEW o, RunOK(o), o.pc \notin {"authority", "prepare"}, o.undo # <<>>
    PROVE  RunOK([o EXCEPT !.pc = "rollback"])
<1>1. PICK n : n = [o EXCEPT !.pc = "rollback"]
  OBVIOUS
<1>2. o \in Running
  BY DEF RunOK
<1>3. /\ n \in Running /\ n.pc = "rollback" /\ n.mode = o.mode /\ n.tx = o.tx
      /\ n.undo = o.undo /\ n.todo = o.todo
  BY <1>1, <1>2 DEF Running
<1>4. Begun(n)
  BY <1>3 DEF RunOK, Begun
<1>5. RunOK(n)
  BY <1>3, <1>4 DEF RunOK
<1> QED BY <1>1, <1>5

\* p lets go of the lock or rolls back.
Leaves(p, o) ==
    /\ op' = [op EXCEPT ![p] = o]
    /\ \/ lock' = lock /\ RunOK(o)
       \/ lock' = None /\ WaitOK(o)

\* And it does nothing else.
Steady(p, o) ==
    /\ o.pc # "image"
    /\ lock' = lock => o.tx = op[p].tx /\ o.pc = "rollback"

\* An exception before the committed event leaves a process in order.
LEMMA UnwindLeaves ==
    ASSUME NEW p \in Process, op \in [Process -> {Idle} \cup Waiting \cup Running],
           RunOK(op[p]), op[p].pc \notin {"authority", "prepare"}, lock = p, Unwind(p)
    PROVE  \E o : Leaves(p, o) /\ Steady(p, o)
<1>1. CASE op[p].undo # <<>> /\ ~(op[p].mode = "replay" /\ Entity(op[p].tx))
  <2>1. PICK o : o = [op[p] EXCEPT !.pc = "rollback"]
    OBVIOUS
  <2>2. op' = [op EXCEPT ![p] = o] /\ lock' = lock
    BY <1>1, <2>1 DEF Unwind
  <2>3. RunOK(o) /\ o.pc = "rollback" /\ o.tx = op[p].tx
    BY <1>1, <2>1, RollbackRuns DEF RunOK, Running
  <2> QED BY <2>2, <2>3 DEF Leaves, Steady
<1>2. CASE ~(op[p].undo # <<>> /\ ~(op[p].mode = "replay" /\ Entity(op[p].tx)))
  <2>1. PICK o : o = IF op[p].mode = "replay" /\ Entity(op[p].tx) THEN Idle
                     ELSE Next_(p, FALSE)
    OBVIOUS
  <2>2. op' = [op EXCEPT ![p] = o] /\ lock' = None
    BY <1>2, <2>1 DEF Unwind, Release
  <2>3. WaitOK(o) /\ o.pc # "image"
    BY <2>1, IdleWaits, NextWaits DEF Idle
  <2> QED BY <2>2, <2>3, NoneAssumption DEF Leaves, Steady
<1> QED BY <1>1, <1>2

\* So does one after it.
LEMMA FailLateLeaves ==
    ASSUME NEW p \in Process, op \in [Process -> {Idle} \cup Waiting \cup Running],
           RunOK(op[p]), op[p].pc \notin {"authority", "prepare"}, lock = p, FailLate(p)
    PROVE  \E o : Leaves(p, o) /\ Steady(p, o)
<1>1. CASE Unwind(p)
  BY <1>1, UnwindLeaves
<1>2. CASE Release(p, Next_(p, FALSE))
  <2>1. WaitOK(Next_(p, FALSE)) /\ Next_(p, FALSE).pc # "image"
    BY NextWaits
  <2>2. op' = [op EXCEPT ![p] = Next_(p, FALSE)] /\ lock' = None
    BY <1>2 DEF Release
  <2> QED BY <2>1, <2>2, NoneAssumption DEF Leaves, Steady
<1> QED BY <1>1, <1>2 DEF FailLate

\* Leaving keeps the invariant where the durable state stays.
LEMMA LeavesKeeps ==
    ASSUME StoreIInv, NEW p \in Process, lock = p, NEW o, Leaves(p, o),
           UNCHANGED Durable,
           files' \in [Slots -> Content], faults' \in 0 .. MaxFaults
    PROVE  StoreIInv'
<1>1. p # None
  BY NoneAssumption
<1>2. /\ op' = [op EXCEPT ![p] = o]
      /\ (lock' = p /\ RunOK(o)) \/ (lock' = None /\ WaitOK(o))
  BY DEF Leaves
<1>3. IF lock' = p THEN RunOK(o) ELSE WaitOK(o)
  BY <1>1, <1>2
<1>4. lock' = lock \/ (lock = p /\ lock' = None)
  BY <1>2
<1> QED BY <1>2, <1>3, <1>4, Quiet

\* A sequence that is not empty has a head and a tail.
LEMMA HeadAndTail ==
    ASSUME NEW S, NEW s \in Seq(S), s # <<>>
    PROVE  Head(s) \in S /\ Tail(s) \in Seq(S)
OBVIOUS

\* Reading a revision.
LEMMA ReadKeeps ==
    ASSUME StoreIInv, NEW p \in Process, Read(p)
    PROVE  StoreIInv'
<1>1. TypeOK /\ StoreOK
  BY WhoRuns
<1>2. PICK known : /\ known \in {projection.rev, None}
                   /\ op' = [op EXCEPT ![p] = [pc |-> "ready", known |-> known]]
  BY DEF Read
<1>3. known \in (0 .. MaxRevision) \cup {None}
  BY <1>1, <1>2 DEF TypeOK, Projection
<1>4. WaitOK([pc |-> "ready", known |-> known])
  BY <1>3 DEF WaitOK, Waiting
<1>5. op[p] = Idle /\ lock' = lock /\ UNCHANGED Durable /\ files' = files /\ faults' = faults
  BY DEF Read, Durable
<1>6. lock # p
  BY <1>5, WhoRuns, RunningFields DEF Idle
<1> QED BY <1>1, <1>2, <1>4, <1>5, <1>6, Quiet DEF TypeOK

\* A lock that is not granted, or a death between two locks.
LEMMA GiveUpKeeps ==
    ASSUME StoreIInv, NEW p \in Process, GiveUp(p)
    PROVE  StoreIInv'
<1>1. TypeOK /\ lock # p /\ lock' = lock /\ UNCHANGED Durable /\ files' = files
      /\ faults' = faults /\ op' = [op EXCEPT ![p] = Idle]
  BY WhoRuns DEF GiveUp, Durable
<1> QED BY <1>1, IdleWaits, Quiet DEF TypeOK

\* A death inside the lock.
LEMMA CrashKeeps ==
    ASSUME StoreIInv, NEW p \in Process, Crash(p)
    PROVE  StoreIInv'
<1>1. TypeOK /\ lock = p /\ UNCHANGED Durable /\ files' = files
  BY WhoRuns DEF Crash, Durable
<1>2. faults' \in 0 .. MaxFaults
  BY <1>1, TaskStateStoreAssumption DEF Crash, TypeOK
<1>3. Leaves(p, Idle)
  BY IdleWaits DEF Crash, Release, Leaves
<1> QED BY <1>1, <1>2, <1>3, LeavesKeeps DEF TypeOK

\* Letting go of the lock, to something to wait for.
LEMMA ReleaseLeaves ==
    ASSUME NEW p \in Process, lock = p, NEW o, WaitOK(o), o.pc # "image", Release(p, o)
    PROVE  Leaves(p, o) /\ Steady(p, o)
BY NoneAssumption DEF Release, Leaves, Steady

\* An exception at any step.
LEMMA FailLeaves ==
    ASSUME StoreIInv, NEW p \in Process, Fail(p)
    PROVE  \E o : Leaves(p, o) /\ Steady(p, o)
<1>1. lock = p
  BY DEF Fail
<1>2. RunOK(op[p]) /\ op[p] \in Running
      /\ op \in [Process -> {Idle} \cup Waiting \cup Running]
  BY <1>1, WhoRuns
<1>3. WaitOK(Idle) /\ Idle.pc # "image"
  BY IdleWaits DEF Idle
<1>4. CASE op[p].pc \in {"authority", "prepare"}
  <2>1. Release(p, Idle)
    BY <1>4 DEF Fail
  <2> QED BY <1>1, <1>3, <2>1, ReleaseLeaves
<1>5. CASE op[p].pc \in {"write", "bind", "commit"}
  <2>1. Unwind(p)
    BY <1>5 DEF Fail
  <2> QED BY <1>1, <1>2, <1>5, <2>1, UnwindLeaves
<1>6. CASE op[p].pc \in {"project", "deliver", "publish", "clean"}
  <2>1. Release(p, Idle) \/ FailLate(p)
    BY <1>6 DEF Fail
  <2>2. CASE Release(p, Idle)
    BY <1>1, <1>3, <2>2, ReleaseLeaves
  <2> QED BY <1>1, <1>2, <1>6, <2>1, <2>2, FailLateLeaves
<1>7. CASE op[p].pc = "rollback"
  <2>1. Release(p, Next_(p, FALSE))
    BY <1>7 DEF Fail
  <2>2. WaitOK(Next_(p, FALSE)) /\ Next_(p, FALSE).pc # "image"
    BY <1>2, NextWaits
  <2> QED BY <1>1, <2>1, <2>2, ReleaseLeaves
<1> QED BY <1>4, <1>5, <1>6, <1>7, <1>2, RunningFields

\* It leaves the invariant alone, as does what was restored before.
LEMMA FailKeeps ==
    ASSUME StoreIInv, NEW p \in Process, Fail(p)
    PROVE  StoreIInv'
<1>1. TypeOK /\ StoreOK /\ lock = p /\ UNCHANGED Durable /\ files' = files
  BY WhoRuns DEF Fail, Durable
<1>2. faults' \in 0 .. MaxFaults
  BY <1>1, TaskStateStoreAssumption DEF Fail, TypeOK
<1> QED BY <1>1, <1>2, FailLeaves, LeavesKeeps DEF TypeOK

\* The end of a run that went well.
LEMMA CleanUpKeeps ==
    ASSUME StoreIInv, NEW p \in Process, CleanUp(p)
    PROVE  StoreIInv'
<1>1. TypeOK /\ lock = p /\ UNCHANGED Durable /\ files' = files /\ faults' = faults
  BY WhoRuns DEF CleanUp, Durable, Holds
<1>2. WaitOK(Next_(p, TRUE))
  BY <1>1, WhoRuns, NextWaits
<1>3. Leaves(p, Next_(p, TRUE))
  BY <1>2 DEF CleanUp, Release, Leaves
<1> QED BY <1>1, <1>3, LeavesKeeps DEF TypeOK

\* A target that is restored holds what it held before.
LEMMA RollbackKeeps ==
    ASSUME StoreIInv, NEW p \in Process, Rollback(p)
    PROVE  StoreIInv'
<1>1. PICK o : o = op[p]
  OBVIOUS
<1>2. /\ TypeOK /\ lock = p /\ UNCHANGED Durable /\ faults' = faults
      /\ o.pc = "rollback" /\ RunOK(o) /\ o \in Running
      /\ op \in [Process -> {Idle} \cup Waiting \cup Running]
  BY <1>1, WhoRuns DEF Rollback, Durable, Holds
<1>3. PICK last, rest : last = Head(o.undo) /\ rest = Tail(o.undo)
  OBVIOUS
<1>4. last \in [slot: Slots, before: Content] /\ rest \in Seq([slot: Slots, before: Content])
  <2>1. o.undo \in Seq([slot: Slots, before: Content]) /\ o.undo # <<>>
    BY <1>2, RunningFields DEF RunOK
  <2> QED BY <2>1, <1>3, HeadAndTail
<1>5. files' \in [Slots -> Content]
  <2>1. last.slot \in Slots /\ last.before \in Content
    BY <1>4
  <2>2. files' = files \/ files' = [files EXCEPT ![last.slot] = last.before]
    BY <1>1, <1>3 DEF Rollback
  <2> QED BY <2>1, <2>2, <1>2 DEF TypeOK
<1>6. CASE rest = <<>>
  <2>1. Release(p, Next_(p, FALSE))
    BY <1>6, <1>3, <1>1 DEF Rollback
  <2>2. Leaves(p, Next_(p, FALSE))
    BY <2>1, <1>1, <1>2, NextWaits DEF Release, Leaves
  <2> QED BY <2>2, <1>2, <1>5, LeavesKeeps DEF TypeOK
<1>7. CASE rest # <<>>
  <2>1. PICK n : n = [o EXCEPT !.undo = rest]
    OBVIOUS
  <2>2. op' = [op EXCEPT ![p] = n] /\ lock' = lock
    BY <1>7, <1>3, <1>1, <2>1 DEF Rollback
  <2>3. /\ n \in Running /\ n.pc = "rollback" /\ n.mode = o.mode /\ n.tx = o.tx
        /\ n.undo = rest /\ n.todo = o.todo
    BY <1>2, <1>4, <2>1 DEF Running
  <2>4. Begun(n)
    BY <1>2, <2>3 DEF RunOK, Begun
  <2>5. RunOK(n)
    BY <1>2, <1>7, <2>3, <2>4 DEF RunOK
  <2>6. Leaves(p, n)
    BY <2>2, <2>5 DEF Leaves
  <2> QED BY <2>6, <1>2, <1>5, LeavesKeeps DEF TypeOK
<1> QED BY <1>6, <1>7

\* The next revision can be the content of a file.
LEMMA NewRevisionIsContent ==
    ASSUME StoreIInv, projection.rev < MaxRevision
    PROVE  /\ New \in Content /\ Absent \in Content
           /\ projection.ent \in [Kinds -> Content]
BY TaskStateStoreAssumption DEF StoreIInv, TypeOK, Projection, New, Content

\* Lists of commands.
LEMMA SingleCommands ==
    /\ <<>> \in Seq(Slots)
    /\ \A s \in Slots : <<s>> \in Seq(Slots)
    /\ {"terminal", "context", "checkpoint", "task_card"} = Slots
BY DEF Slots, Kinds

\* Two lists of commands make a list of commands.
LEMMA Appended ==
    ASSUME NEW a \in Seq(Slots), NEW b \in Seq(Slots), Len(a) > 0
    PROVE  a \o b \in Seq(Slots) /\ a \o b # <<>>
<1>1. Len(a \o b) > 0 /\ a \o b \in Seq(Slots)
  OBVIOUS
<1> QED BY <1>1

\* The operations of a writer, each with its own guard: one entity ...
LEMMA CommitEntityKeeps ==
    ASSUME StoreIInv, NEW p \in Process, NEW kind \in Kinds,
           NEW operation \in {"upsert", "clear"}, CommitEntity(p, kind, operation)
    PROVE  StoreIInv'
<1>1. PICK ent : ent = [projection.ent EXCEPT
                            ![kind] = IF operation = "clear" THEN Absent ELSE New]
  OBVIOUS
<1>2. PICK name : name = IF operation = "clear" THEN "entity_clear" ELSE "entity_upsert"
  OBVIOUS
<1>3. Begin(p, name, ent, "open", <<kind>>, "authority")
  BY <1>1, <1>2 DEF CommitEntity
<1>4. ent \in [Kinds -> Content]
  BY <1>1, <1>3, NewRevisionIsContent DEF Begin
<1>5. /\ name \in {"entity_upsert", "entity_clear", "active_task_bundle",
                   "contract_continuity", "task_completion"}
      /\ name # "contract_continuity"
  BY <1>2
<1>6. <<kind>> \in Seq(Slots) /\ <<kind>> # <<>>
  BY DEF Slots
<1> QED BY <1>3, <1>4, <1>5, <1>6, BeginKeeps

\* ... checkpoint and task card together ...
LEMMA CommitActiveTaskBundleKeeps ==
    ASSUME StoreIInv, NEW p \in Process, CommitActiveTaskBundle(p)
    PROVE  StoreIInv'
<1>1. PICK ent : ent = [projection.ent EXCEPT !["checkpoint"] = New, !["task_card"] = New]
  OBVIOUS
<1>2. PICK commands : commands = <<"checkpoint", "task_card">>
  OBVIOUS
<1>3. Begin(p, "active_task_bundle", ent, "open", commands, "authority")
  BY <1>1, <1>2 DEF CommitActiveTaskBundle
<1>4. ent \in [Kinds -> Content]
  BY <1>1, <1>3, NewRevisionIsContent DEF Begin, Kinds
<1>5. commands \in Seq(Slots) /\ commands # <<>>
  BY <1>2 DEF Slots, Kinds
<1> QED BY <1>3, <1>4, <1>5, BeginKeeps

\* ... the context of a contract, with what goes with it ...
LEMMA CommitContractContinuityKeeps ==
    ASSUME StoreIInv, NEW p \in Process, NEW checkpointToo \in BOOLEAN,
           CommitContractContinuity(p, checkpointToo)
    PROVE  StoreIInv'
<1>1. PICK commands : commands = <<"context">>
                        \o (IF checkpointToo THEN <<"checkpoint">> ELSE <<>>)
                        \o <<"task_card">>
  OBVIOUS
<1>2. PICK ent : ent = [k \in Kinds |->
                            IF k \in {commands[n] : n \in 1 .. Len(commands)} THEN New
                            ELSE projection.ent[k]]
  OBVIOUS
<1>3. /\ op[p].known # None
      /\ Begin(p, "contract_continuity", ent, "open", commands, "prepare")
  BY <1>1, <1>2 DEF CommitContractContinuity
<1>4. ent \in [Kinds -> Content]
  BY <1>2, <1>3, NewRevisionIsContent DEF Begin
<1>5. commands \in Seq(Slots) /\ commands # <<>>
  <2>1. PICK b : b = IF checkpointToo THEN <<"checkpoint">> ELSE <<>>
    OBVIOUS
  <2>2. <<"context">> \in Seq(Slots) /\ <<"task_card">> \in Seq(Slots) /\ b \in Seq(Slots)
    BY <2>1, SingleCommands
  <2>3. Len(<<"context">> \o b) > 0 /\ <<"context">> \o b \in Seq(Slots)
    BY <2>2
  <2> QED BY <1>1, <2>1, <2>2, <2>3, Appended
<1> QED BY <1>3, <1>4, <1>5, BeginKeeps

\* ... and the completion.
LEMMA CompleteTaskStateKeeps ==
    ASSUME StoreIInv, NEW p \in Process, CompleteTaskState(p)
    PROVE  StoreIInv'
<1>1. PICK a, b, c : /\ a = IF files["context"] = Absent THEN <<>> ELSE <<"context">>
                     /\ b = IF files["checkpoint"] = Absent THEN <<>> ELSE <<"checkpoint">>
                     /\ c = IF files["task_card"] = Absent THEN <<>> ELSE <<"task_card">>
  OBVIOUS
<1>2. PICK commands : commands = <<"terminal">> \o a \o b \o c
  OBVIOUS
<1>3. Begin(p, "task_completion", [k \in Kinds |-> Absent], "completed", commands,
            "authority")
  BY <1>1, <1>2 DEF CompleteTaskState
<1>4. [k \in Kinds |-> Absent] \in [Kinds -> Content]
  BY DEF Content
<1>5. commands \in Seq(Slots) /\ commands # <<>>
  <2>1. <<"terminal">> \in Seq(Slots) /\ a \in Seq(Slots) /\ b \in Seq(Slots)
        /\ c \in Seq(Slots)
    BY <1>1, SingleCommands
  <2>2. Len(commands) > 0
    BY <1>2, <2>1
  <2> QED BY <1>2, <2>1, <2>2
<1> QED BY <1>3, <1>4, <1>5, BeginKeeps

\* One target after the other is written.
LEMMA WriteFileKeeps ==
    ASSUME StoreIInv, NEW p \in Process, WriteFile(p)
    PROVE  StoreIInv'
<1>1. PICK o : o = op[p]
  OBVIOUS
<1>2. /\ TypeOK /\ StoreOK /\ lock = p /\ UNCHANGED Durable /\ faults' = faults
      /\ o.pc = "write" /\ RunOK(o) /\ o \in Running
      /\ op \in [Process -> {Idle} \cup Waiting \cup Running]
  BY <1>1, WhoRuns DEF WriteFile, Durable, Holds
<1>3. PICK s, rest : s = Head(o.left) /\ rest = Tail(o.left)
  OBVIOUS
<1>4. s \in Slots /\ rest \in Seq(Slots)
  BY <1>2, <1>3, HeadAndTail, RunningFields DEF RunOK
<1>5. PICK after : after = IF rest # <<>> THEN "write"
                           ELSE IF o.tx.kind = "contract_continuity" /\ o.mode # "outbox"
                           THEN "bind" ELSE "commit"
  OBVIOUS
<1>6. ASSUME NEW undo \in Seq([slot: Slots, before: Content]),
             op' = [op EXCEPT ![p] = [o EXCEPT !.pc = after, !.left = rest, !.undo = undo]],
             lock' = lock, files' \in [Slots -> Content]
      PROVE  StoreIInv'
  <2>1. PICK n : n = [o EXCEPT !.pc = after, !.left = rest, !.undo = undo]
    OBVIOUS
  <2>2. after \in {"write", "bind", "commit"}
    BY <1>5
  <2>3. /\ n \in Running /\ n.pc = after /\ n.mode = o.mode /\ n.tx = o.tx
        /\ n.left = rest /\ n.todo = o.todo
    BY <1>2, <1>4, <2>1, <2>2 DEF Running
  <2>4. Begun(n)
    BY <1>2, <2>3 DEF RunOK, Begun
  <2>5. after = "commit" /\ n.tx.kind = "contract_continuity" => Target(n.tx) \in Rows
    <3>1. after = "commit" /\ n.tx.kind = "contract_continuity" => n.mode = "outbox"
      BY <1>5, <2>3
    <3> QED BY <2>4, <3>1 DEF Begun
  <2>6. RunOK(n)
    <3>1. after = "write" => rest # <<>>
      BY <1>5
    <3>2. after = "bind" => n.tx.kind = "contract_continuity" /\ n.mode # "outbox"
      BY <1>5, <2>3
    <3> QED BY <1>2, <2>2, <2>3, <2>4, <2>5, <3>1, <3>2 DEF RunOK
  <2>7. Leaves(p, n)
    BY <1>6, <2>1, <2>6 DEF Leaves
  <2> QED BY <1>2, <1>6, <2>7, LeavesKeeps DEF TypeOK
<1>7. files \in [Slots -> Content] /\ o.undo \in Seq([slot: Slots, before: Content])
  BY <1>2, RunningFields DEF TypeOK
<1>8. PICK done \in BOOLEAN :
        done <=> /\ files[s] = Desired(o.tx, s)
                 /\ ~ /\ o.mode = "replay" /\ o.tx.kind = "entity_clear"
                      /\ files[s] # o.tx.seen[s]
  OBVIOUS
<1>9. CASE done /\ op' = [op EXCEPT ![p].pc = after, ![p].left = rest]
                /\ UNCHANGED <<files, lock>>
  <2>1. op' = [op EXCEPT ![p] = [o EXCEPT !.pc = after, !.left = rest]]
    BY <1>1, <1>2, <1>9
  <2>2. [o EXCEPT !.pc = after, !.left = rest]
            = [o EXCEPT !.pc = after, !.left = rest, !.undo = o.undo]
    BY <1>2 DEF Running
  <2> QED BY <1>6, <1>7, <1>9, <2>1, <2>2
<1>10. CASE /\ files' = [files EXCEPT ![s] = Desired(o.tx, s)]
            /\ op' = [op EXCEPT ![p].pc = after, ![p].left = rest,
                                ![p].undo = <<[slot |-> s, before |-> files[s]]>> \o @]
            /\ UNCHANGED lock
  <2>1. PICK undo : undo = <<[slot |-> s, before |-> files[s]]>> \o o.undo
    OBVIOUS
  <2>2. undo \in Seq([slot: Slots, before: Content])
    <3>1. [slot |-> s, before |-> files[s]] \in [slot: Slots, before: Content]
      BY <1>4, <1>7
    <3> QED BY <1>7, <2>1, <3>1
  <2>3. op' = [op EXCEPT ![p] = [o EXCEPT !.pc = after, !.left = rest, !.undo = undo]]
    BY <1>1, <1>2, <1>10, <2>1 DEF Running
  <2>4. Desired(o.tx, s) \in Content
    <3>1. o.tx \in Transaction
      BY <1>2, RunningFields
    <3> QED BY <1>4, <3>1, TransactionFields DEF Desired, Content, Slots
  <2>5. files' \in [Slots -> Content]
    BY <1>7, <1>10, <2>4
  <2> QED BY <1>6, <1>10, <2>2, <2>3, <2>5
<1>11. CASE /\ IF o.mode = "replay" /\ Entity(o.tx)
               THEN Release(p, Next_(p, FALSE)) ELSE Unwind(p)
            /\ UNCHANGED files
  <2>1. WaitOK(Next_(p, FALSE))
    BY <1>1, <1>2, NextWaits
  <2>2. Release(p, Next_(p, FALSE)) => Leaves(p, Next_(p, FALSE))
    BY <2>1 DEF Release, Leaves
  <2>3. Unwind(p) => \E n : Leaves(p, n)
    BY <1>1, <1>2, UnwindLeaves
  <2> QED BY <1>2, <1>7, <1>11, <2>2, <2>3, LeavesKeeps DEF TypeOK
<1> QED
  <2>1. \/ /\ done /\ op' = [op EXCEPT ![p].pc = after, ![p].left = rest]
           /\ UNCHANGED <<files, lock>>
        \/ /\ files' = [files EXCEPT ![s] = Desired(o.tx, s)]
           /\ op' = [op EXCEPT ![p].pc = after, ![p].left = rest,
                               ![p].undo = <<[slot |-> s, before |-> files[s]]>> \o @]
           /\ UNCHANGED lock
        \/ /\ IF o.mode = "replay" /\ Entity(o.tx)
              THEN Release(p, Next_(p, FALSE)) ELSE Unwind(p)
           /\ UNCHANGED files
    BY <1>1, <1>3, <1>5, <1>8 DEF WriteFile
  <2> QED BY <1>9, <1>10, <1>11, <2>1

\* Somebody else writes a file.
LEMMA OutsideEditKeeps ==
    ASSUME StoreIInv, OutsideEdit
    PROVE  StoreIInv'
<1>1. /\ TypeOK /\ StoreOK /\ UNCHANGED Durable /\ lock' = lock /\ op' = op
  BY DEF StoreIInv, OutsideEdit, Durable
<1>2. files' \in [Slots -> Content] /\ faults' \in 0 .. MaxFaults
  BY <1>1, TaskStateStoreAssumption DEF OutsideEdit, TypeOK, Slots, Content
<1>3. TypeOK'
  BY <1>1, <1>2 DEF TypeOK, Durable
<1>4. StoreOK' /\ (\A o : (RunOK(o)' <=> RunOK(o)) /\ (WaitOK(o)' <=> WaitOK(o)))
  BY <1>1, SameStore
<1>5. ASSUME NEW q \in Process
      PROVE  (IF lock = q THEN RunOK(op[q]) ELSE WaitOK(op[q]))'
  <2>1. PICK u : u = op[q]
    OBVIOUS
  <2>2. u = op'[q]
    BY <1>1, <2>1
  <2>3. IF lock = q THEN RunOK(u) ELSE WaitOK(u)
    BY <2>1 DEF StoreIInv, ProcessesOK
  <2>4. IF lock' = q THEN RunOK(u)' ELSE WaitOK(u)'
    BY <1>1, <1>4, <2>3
  <2> QED BY <2>2, <2>4 DEF RunOK, Beginning, Begun, Passed, WaitOK
<1>6. ProcessesOK'
  BY <1>5 DEF ProcessesOK
<1> QED BY <1>3, <1>4, <1>6 DEF StoreIInv

----------------------------------------------------------------------------
(* The steps of a recovery. *)

\* A recovery waits for the transaction it found prepared, or for the outbox.
LEMMA ReconcileReadKeeps ==
    ASSUME StoreIInv, NEW p \in Process, ReconcileRead(p)
    PROVE  StoreIInv'
<1>1. /\ TypeOK /\ op[p] = Idle /\ lock' = lock /\ UNCHANGED Durable
      /\ files' = files /\ faults' = faults
  BY WhoRuns DEF ReconcileRead, Durable
<1>2. lock # p
  BY <1>1, WhoRuns, RunningFields DEF Idle
<1>3. CASE \E tx \in Incomplete : op' = [op EXCEPT ![p] = [pc |-> "replay", tx |-> tx]]
  <2>1. PICK tx \in Incomplete : op' = [op EXCEPT ![p] = [pc |-> "replay", tx |-> tx]]
    BY <1>3
  <2>2. tx \in PreparedTx /\ tx \in Transaction
    BY <1>1, JournalSets DEF TypeOK
  <2>3. WaitOK([pc |-> "replay", tx |-> tx])
    BY <2>2 DEF WaitOK, Waiting
  <2> QED BY <1>1, <1>2, <2>1, <2>3, Quiet DEF TypeOK
<1>4. CASE op' = [op EXCEPT ![p] = [pc |-> "outbox"]]
  BY <1>1, <1>2, <1>4, PlainWaits, Quiet DEF TypeOK
<1> QED BY <1>3, <1>4 DEF ReconcileRead

\* What is replayed is based on a revision the journal has.
LEMMA ReplayBeginKeeps ==
    ASSUME StoreIInv, NEW p \in Process, ReplayBegin(p)
    PROVE  StoreIInv'
<1>1. /\ TypeOK /\ StoreOK /\ UNCHANGED Durable /\ files' = files /\ faults' = faults
      /\ lock = None /\ lock # p /\ op[p].pc = "replay"
  BY WhoRuns DEF ReplayBegin, Durable
<1>2. PICK tx : tx = op[p].tx
  OBVIOUS
<1>3. tx \in PreparedTx /\ tx \in Transaction
  <2>1. tx \in PreparedTx
    BY <1>1, <1>2, WhoRuns DEF WaitOK
  <2> QED BY <2>1, <1>1, JournalSets DEF TypeOK
<1>4. CASE projection.rev = tx.prev
  <2>1. PICK o : o = Run("replay", "write", tx, {}, None)
    OBVIOUS
  <2>2. lock' = p /\ op' = [op EXCEPT ![p] = o]
    BY <1>2, <1>4, <2>1 DEF ReplayBegin
  <2>3. o \in Running /\ o.pc = "write" /\ o.mode = "replay" /\ o.tx = tx
        /\ o.left = tx.commands /\ o.todo = {}
    BY <1>3, <2>1, RunIs
  <2>4. tx.commands # <<>> /\ (tx.authority => Target(tx) \in Rows)
    BY <1>1, <1>3 DEF StoreOK, PreparedOK
  <2>5. Replayable => tx.prev <= Replayed.rev
    BY <1>1, <1>4 DEF StoreOK, HeadFollows
  <2>6. Begun(o)
    BY <1>3, <2>3 DEF Begun
  <2>7. RunOK(o)
    BY <2>3, <2>4, <2>5, <2>6 DEF RunOK
  <2> QED BY <1>1, <2>2, <2>7, Quiet DEF TypeOK
<1>5. CASE projection.rev # tx.prev
  <2>1. lock' = lock /\ op' = [op EXCEPT ![p] = [pc |-> "rebuild"]]
    BY <1>2, <1>5 DEF ReplayBegin
  <2> QED BY <1>1, <2>1, PlainWaits, Quiet DEF TypeOK
<1> QED BY <1>4, <1>5

\* The rows a recovery goes through are rows.
LEMMA OutboxReadKeeps ==
    ASSUME StoreIInv, NEW p \in Process, OutboxRead(p)
    PROVE  StoreIInv'
<1>1. /\ TypeOK /\ UNCHANGED Durable /\ lock' = lock /\ files' = files
      /\ faults' = faults /\ op[p].pc = "outbox"
  BY WhoRuns DEF OutboxRead, Durable
<1>2. lock # p
  BY <1>1, WhoRuns, RunningFields
<1>3. PICK o : o = IF PendingRows = {} THEN [pc |-> "rebuild"]
                   ELSE [pc |-> "row", todo |-> PendingRows]
  OBVIOUS
<1>4. op' = [op EXCEPT ![p] = o]
  BY <1>3 DEF OutboxRead
<1>5. PendingRows \in SUBSET (1 .. MaxRevision) /\ PendingRows \subseteq Rows
  BY DEF PendingRows, Rows
<1>6. WaitOK(o)
  BY <1>3, <1>5, PlainWaits, RowWaits
<1> QED BY <1>1, <1>2, <1>4, <1>6, Quiet DEF TypeOK

\* Some row is the oldest, and some row is the newest.
LEMMA OldestIs ==
    ASSUME NEW rows \in SUBSET (1 .. MaxRevision), rows # {}
    PROVE  Oldest(rows) \in rows /\ \A s \in rows : Oldest(rows) <= s
<1>1. rows \in SUBSET Nat
  BY TaskStateStoreAssumption
<1>2. \E r \in rows : \A s \in rows : r <= s
  BY <1>1, LeastElement
<1> QED BY <1>2 DEF Oldest

\* The newest of some rows is one of them, and no other is newer.
LEMMA NewestIs ==
    ASSUME NEW rows \in SUBSET (1 .. MaxRevision), rows # {}
    PROVE  Newest(rows) \in rows /\ \A s \in rows : s <= Newest(rows)
<1>1. MaxRevision \in Nat /\ \A s \in rows : s \in Nat /\ s <= MaxRevision
  BY TaskStateStoreAssumption
<1>2. PICK above : above = {n \in Nat : \A s \in rows : s <= n}
  OBVIOUS
<1>3. above \in SUBSET Nat /\ above # {}
  BY <1>1, <1>2
<1>4. PICK n \in above : \A m \in above : n <= m
  BY <1>3, LeastElement
<1>5. n \in rows
  <2> SUFFICES ASSUME n \notin rows PROVE FALSE
    OBVIOUS
  <2>1. n \in Nat /\ \A s \in rows : s <= n /\ s # n
    BY <1>2, <1>4
  <2>2. n # 0
    <3>1. PICK s \in rows : TRUE
      OBVIOUS
    <3>2. s \in Nat /\ s <= n /\ s # n
      BY <1>1, <2>1
    <3> QED BY <2>1, <3>2
  <2>3. n - 1 \in Nat /\ \A s \in rows : s <= n - 1
    BY <1>1, <2>1, <2>2
  <2>4. n - 1 \in above
    BY <1>2, <2>3
  <2> QED BY <1>4, <2>1, <2>4
<1>6. \E r \in rows : \A s \in rows : s <= r
  BY <1>2, <1>4, <1>5
<1> QED BY <1>6 DEF Newest

\* A row that is delivered is based on a revision the journal has.
LEMMA OutboxBeginKeeps ==
    ASSUME StoreIInv, NEW p \in Process, OutboxBegin(p)
    PROVE  StoreIInv'
<1>1. /\ TypeOK /\ StoreOK /\ UNCHANGED Durable /\ files' = files /\ faults' = faults
      /\ lock = None /\ lock # p /\ op[p].pc = "row"
  BY WhoRuns DEF OutboxBegin, Durable
<1>2. PICK todo : todo = op[p].todo
  OBVIOUS
<1>3. todo \in SUBSET (1 .. MaxRevision) /\ todo # {} /\ todo \subseteq Rows
  BY <1>1, <1>2, WhoRuns, WaitingFields DEF WaitOK
<1>4. PICK r : r = Oldest(todo)
  OBVIOUS
<1>5. r \in todo /\ r \in Rows /\ r \in Nat
  <2>1. r \in todo
    BY <1>3, <1>4, OldestIs
  <2>2. 1 .. MaxRevision \subseteq Nat
    BY TaskStateStoreAssumption
  <2> QED BY <1>3, <2>1, <2>2
<1>6. PICK tx : tx = outbox[r].tx
  OBVIOUS
<1>7. tx \in Transaction /\ Target(tx) = r /\ tx.commands # <<>> /\ tx.prev = r - 1
  <2>1. outbox[r] \in Row
    BY <1>1, <1>5 DEF TypeOK, Rows
  <2>2. tx \in Transaction
    BY <1>6, <2>1 DEF Row
  <2>3. Target(tx) = r /\ tx.commands # <<>>
    BY <1>1, <1>5, <1>6 DEF StoreOK, RowsOK
  <2> QED BY <2>2, <2>3, TransactionFields
<1>8. CASE projection.rev \in {r - 1, r}
  <2>1. PICK o : o = Run("outbox", "write", tx, todo, None)
    OBVIOUS
  <2>2. lock' = p /\ op' = [op EXCEPT ![p] = o]
    BY <1>2, <1>4, <1>6, <1>8, <2>1 DEF OutboxBegin
  <2>3. o \in Running /\ o.pc = "write" /\ o.mode = "outbox" /\ o.tx = tx
        /\ o.left = tx.commands /\ o.todo = todo
    <3>1. tx \in Transaction /\ todo \in SUBSET (1 .. MaxRevision)
      BY <1>3, <1>7
    <3>2. PICK known : known = None
      OBVIOUS
    <3>3. known \in (0 .. MaxRevision) \cup {None}
      BY <3>2
    <3>4. /\ Run("outbox", "write", tx, todo, known) \in Running
          /\ Run("outbox", "write", tx, todo, known).pc = "write"
          /\ Run("outbox", "write", tx, todo, known).mode = "outbox"
          /\ Run("outbox", "write", tx, todo, known).tx = tx
          /\ Run("outbox", "write", tx, todo, known).left = tx.commands
          /\ Run("outbox", "write", tx, todo, known).todo = todo
      BY <3>1, <3>3, RunIs
    <3> QED BY <3>2, <3>4, <2>1
  <2>4. Replayable => tx.prev <= Replayed.rev
    <3>1. Replayable => projection.rev <= Replayed.rev
      BY <1>1 DEF StoreOK, HeadFollows
    <3>2. Replayable => Replayed.rev \in Nat
      BY <1>1, RevisionOf
    <3> QED BY <1>5, <1>7, <1>8, <3>1, <3>2
  <2>5. Begun(o)
    BY <1>5, <1>6, <1>7, <2>3 DEF Begun
  <2>6. RunOK(o)
    BY <1>3, <1>5, <1>7, <2>3, <2>4, <2>5 DEF RunOK
  <2> QED BY <1>1, <2>2, <2>6, Quiet DEF TypeOK
<1>9. CASE projection.rev \notin {r - 1, r}
  <2>1. PICK rest : rest = todo \ {r}
    OBVIOUS
  <2>2. PICK o : o = IF rest = {} THEN [pc |-> "rebuild"]
                     ELSE [pc |-> "row", todo |-> rest]
    OBVIOUS
  <2>3. lock' = lock /\ op' = [op EXCEPT ![p] = o]
    BY <1>2, <1>4, <1>9, <2>1, <2>2 DEF OutboxBegin
  <2>4. rest \in SUBSET (1 .. MaxRevision) /\ rest \subseteq Rows
    BY <1>3, <2>1
  <2>5. WaitOK(o)
    BY <2>2, <2>4, PlainWaits, RowWaits
  <2> QED BY <1>1, <2>3, <2>5, Quiet DEF TypeOK
<1> QED BY <1>8, <1>9

\* The image of a rebuild is what the journal replays to.
LEMMA RebuildReadKeeps ==
    ASSUME StoreIInv, NEW p \in Process, RebuildRead(p)
    PROVE  StoreIInv'
<1>1. /\ TypeOK /\ StoreOK /\ UNCHANGED Durable /\ lock' = lock /\ files' = files
      /\ faults' = faults /\ op[p].pc \in {"rebuild", "idle"}
  BY WhoRuns DEF RebuildRead, Durable
<1>2. lock # p
  BY <1>1, WhoRuns, RunningFields
<1>3. PICK image : image = Replayed
  OBVIOUS
<1>4. PICK o : o = IF Replayable /\ AuthorityAgrees /\ CommittedEvents # {}
                   THEN [pc |-> "image", image |-> image] ELSE Idle
  OBVIOUS
<1>5. op' = [op EXCEPT ![p] = o]
  BY <1>3, <1>4 DEF RebuildRead, Replayable
<1>6. WaitOK(o)
  <2>1. CASE o = Idle
    BY <2>1, IdleWaits
  <2>2. CASE Replayable /\ o = [pc |-> "image", image |-> image]
    <3>1. image \in Projection /\ image.rev <= Replayed.rev
      BY <1>1, <1>3, <2>2, RevisionOf
    <3> QED BY <2>2, <3>1 DEF WaitOK, Waiting
  <2> QED BY <1>4, <2>1, <2>2
<1> QED BY <1>1, <1>2, <1>5, <1>6, Quiet DEF TypeOK

\* The projection matters to the store by its revision only.
LEMMA SameButProjection ==
    ASSUME StoreOK, UNCHANGED <<journal, sql, outbox>>,
           Replayable => projection'.rev <= Replayed.rev
    PROVE  /\ Grows
           /\ StoreOK'
           /\ \A o : RunOK(o)' <=> RunOK(o)
<1>1. sql' = sql /\ outbox' = outbox /\ journal' = journal
  OBVIOUS
<1>2. /\ PreparedTx' = PreparedTx /\ Rows' = Rows /\ JournalTx' = JournalTx
      /\ Replayed' = Replayed /\ CommittedEvents' = CommittedEvents
      /\ Incomplete' = Incomplete
  BY <1>1 DEF PreparedTx, Rows, JournalTx, Replayed, CommittedEvents, Incomplete
<1>3. (Replayable' <=> Replayable) /\ Recorded' = Recorded
  BY <1>1, <1>2 DEF Replayable, Recorded
<1>4. Grows
  BY <1>2, <1>3, RevisionOf DEF Grows
<1>5. RowsOK' /\ IdsOK' /\ PreparedOK'
  BY <1>1, <1>2, <1>3 DEF StoreOK, RowsOK, IdsOK, PreparedOK, Passed
<1>6. ContinuityBound' /\ AtMostOneIncomplete' /\ HeadFollows'
  BY <1>1, <1>2, <1>3 DEF StoreOK, ContinuityBound, AtMostOneIncomplete, HeadFollows
<1>7. DeliveredInOrder'
  BY <1>1, <1>2 DEF StoreOK, DeliveredInOrder
<1>8. ASSUME NEW o PROVE RunOK(o)' <=> RunOK(o)
  <2>1. Beginning(o)' <=> Beginning(o)
    BY <1>1, <1>2 DEF Beginning, Passed
  <2>2. Begun(o)' <=> Begun(o)
    BY <1>1, <1>2 DEF Begun
  <2> QED BY <2>1, <2>2, <1>1, <1>2, <1>3 DEF RunOK
<1> QED BY <1>4, <1>5, <1>6, <1>7, <1>8 DEF StoreOK

\* It is written under the lock, and by then the journal may be longer.
LEMMA RebuildWriteKeeps ==
    ASSUME StoreIInv, NEW p \in Process, RebuildWrite(p)
    PROVE  StoreIInv'
<1>1. /\ TypeOK /\ StoreOK /\ lock = None /\ lock' = lock /\ files' = files
      /\ faults' = faults /\ op[p].pc = "image" /\ op' = [op EXCEPT ![p] = Idle]
      /\ journal' = journal /\ sql' = sql /\ outbox' = outbox
      /\ projection' = op[p].image
  BY WhoRuns DEF RebuildWrite
<1>2. lock # p /\ WaitOK(op[p]) /\ op[p] \in {Idle} \cup Waiting
  BY <1>1, WhoRuns
<1>3. projection' \in Projection
  BY <1>1, <1>2, WaitingFields
<1>4. Replayable => projection'.rev <= Replayed.rev
  BY <1>1, <1>2 DEF WaitOK
<1>5. Grows /\ StoreOK'
  BY <1>1, <1>4, SameButProjection
<1>6. WaitOK(Idle)'
  BY DEF WaitOK, Idle
<1> QED BY <1>1, <1>2, <1>3, <1>5, <1>6, Moved DEF TypeOK

----------------------------------------------------------------------------
(* The authority moves. *)

\* A continuity SQLite knows nothing of has no committed event.
LEMMA UnboundIsIncomplete ==
    ASSUME TypeOK, StoreOK, sql = None, NEW t \in PreparedTx,
           t.kind = "contract_continuity"
    PROVE  t \in Incomplete
<1>1. journal \in Seq(Event)
  BY DEF TypeOK
<1>2. t \in JournalTx /\ t \in Transaction
  BY <1>1, JournalSets
<1>3. SUFFICES ASSUME NEW e \in CommittedEvents, e.id = t.id PROVE FALSE
  BY <1>1, JournalSets
<1>4. e.tx \in JournalTx /\ e.tx \in Transaction
  BY <1>1, JournalSets
<1>5. t.id # 0
  BY <1>2, TransactionFields
<1>6. e.tx.id = t.id
  BY <1>3, <1>5 DEF StoreOK, IdsOK
<1>7. Core(e.tx) = Core(t)
  BY <1>2, <1>4, <1>6 DEF StoreOK, IdsOK, Recorded
<1>8. e.tx.kind = "contract_continuity"
  BY <1>2, <1>4, <1>7, CoreFields
<1> QED BY <1>8 DEF StoreOK, ContinuityBound

\* What runs agrees with everything written down under its id.
LEMMA RunAgrees ==
    ASSUME TypeOK, StoreOK, NEW o, RunOK(o)
    PROVE  \A u \in Recorded : u.id = o.tx.id => Core(u) = Core(o.tx)
<1>1. journal \in Seq(Event) /\ o \in Running /\ o.tx \in Transaction
  BY RunningFields DEF TypeOK, RunOK
<1>2. CASE o.pc \in {"authority", "prepare"}
  BY <1>2 DEF RunOK, Beginning, Recorded
<1>3. CASE o.pc \notin {"authority", "prepare"} /\ o.mode = "outbox"
  <2>1. o.tx \in Recorded
    BY <1>3 DEF RunOK, Begun, Recorded
  <2> QED BY <2>1 DEF StoreOK, IdsOK
<1>4. CASE o.pc \notin {"authority", "prepare"} /\ o.mode # "outbox"
  <2>1. PICK t \in PreparedTx : Core(t) = Core(o.tx)
    BY <1>4 DEF RunOK, Begun
  <2>2. t \in Recorded /\ t \in Transaction
    BY <1>1, JournalSets DEF Recorded
  <2>3. t.id = o.tx.id
    BY <1>1, <2>1, <2>2, CoreFields
  <2> QED BY <2>1, <2>2, <2>3 DEF StoreOK, IdsOK
<1> QED BY <1>2, <1>3, <1>4

\* A task SQLite has not seen is imported at the revision before the
\* transaction's, and there is no continuity that this would pass by.
LEMMA ImportKeeps ==
    ASSUME StoreIInv, NEW p \in Process, lock = p,
           op[p].pc \in {"authority", "bind"}, Import(op[p].tx),
           UNCHANGED <<journal, projection, files, op, lock, faults>>
    PROVE  StoreIInv'
<1>1. PICK o : o = op[p]
  OBVIOUS
<1>2. TypeOK /\ StoreOK /\ RunOK(o) /\ o \in Running /\ o.tx \in Transaction
      /\ op \in [Process -> {Idle} \cup Waiting \cup Running]
  BY <1>1, WhoRuns, RunningFields
<1>3. sql = None /\ sql' = o.tx.prev /\ outbox' = outbox
  BY <1>1 DEF Import
<1>4. o.tx.prev \in Nat /\ o.tx.prev \in 0 .. MaxRevision
  BY <1>2, TransactionFields, TaskStateStoreAssumption
<1>5. o.tx.prev # None
  BY <1>4, NoneAssumption
<1>6. /\ PreparedTx' = PreparedTx /\ Rows' = Rows /\ JournalTx' = JournalTx
      /\ Replayed' = Replayed /\ CommittedEvents' = CommittedEvents
      /\ Incomplete' = Incomplete
  BY <1>3 DEF PreparedTx, Rows, JournalTx, Replayed, CommittedEvents, Incomplete
<1>7. (Replayable' <=> Replayable) /\ Recorded' = Recorded
  BY <1>3, <1>6 DEF Replayable, Recorded
<1>8. Rows = {}
  BY <1>2, <1>3 DEF StoreOK, RowsOK
<1>9. ASSUME NEW t \in PreparedTx, t.kind = "contract_continuity"
      PROVE  Passed(t)'
  <2>1. t \in Incomplete
    BY <1>2, <1>3, <1>9, UnboundIsIncomplete
  <2>2. o.pc = "bind"
    BY <1>1, <1>2, <2>1 DEF RunOK, Beginning
  <2>3. o.tx.kind = "contract_continuity" /\ \E u \in PreparedTx : Core(u) = Core(o.tx)
    BY <1>2, <2>2 DEF RunOK, Begun
  <2>4. PICK u \in PreparedTx : Core(u) = Core(o.tx)
    BY <2>3
  <2>5. u \in Transaction
    BY <1>2, JournalSets DEF TypeOK
  <2>6. u.kind = "contract_continuity" /\ u.prev = o.tx.prev
    BY <1>2, <2>3, <2>4, <2>5, CoreFields
  <2>7. u \in Incomplete
    BY <1>2, <1>3, <2>6, UnboundIsIncomplete
  <2>8. t.prev = o.tx.prev
    BY <1>2, <2>1, <2>6, <2>7 DEF StoreOK, AtMostOneIncomplete
  <2> QED BY <1>3, <1>4, <2>8 DEF Passed
<1>10. StoreOK'
  <2>1. RowsOK'
    BY <1>6, <1>8 DEF RowsOK
  <2>2. IdsOK'
    BY <1>2, <1>6, <1>7 DEF StoreOK, IdsOK
  <2>3. PreparedOK'
    <3>1. \A t \in PreparedTx : t.commands # <<>> /\ (t.authority => Target(t) \in Rows)
      BY <1>2 DEF StoreOK, PreparedOK
    <3> QED BY <1>6, <1>9, <3>1 DEF PreparedOK
  <2>4. ContinuityBound' /\ AtMostOneIncomplete'
    BY <1>2, <1>3, <1>5, <1>6 DEF StoreOK, ContinuityBound, AtMostOneIncomplete
  <2>5. HeadFollows'
    <3>1. Replayable => Replayed.rev \in Nat /\ o.tx.prev <= Replayed.rev
      BY <1>2, RevisionOf DEF RunOK
    <3>2. Replayable => Replayed.rev + 1 .. o.tx.prev = {}
      BY <1>4, <3>1
    <3> QED BY <1>2, <1>3, <1>6, <1>7, <3>2 DEF StoreOK, HeadFollows
  <2>6. DeliveredInOrder'
    BY <1>6, <1>8 DEF DeliveredInOrder
  <2> QED BY <2>1, <2>2, <2>3, <2>4, <2>5, <2>6 DEF StoreOK
<1>11. Grows
  BY <1>2, <1>6, <1>7, RevisionOf DEF Grows
<1>12. RunOK(o)'
  <2>1. o.pc \in {"authority", "bind"}
    BY <1>1
  <2>2. o.pc = "authority" => Beginning(o)'
    BY <1>2, <1>3, <1>6, <2>1 DEF RunOK, Beginning
  <2>3. o.pc = "bind" => Begun(o)'
    BY <1>2, <1>3, <1>6, <2>1 DEF RunOK, Begun
  <2> QED BY <1>2, <1>6, <1>7, <2>1, <2>2, <2>3 DEF RunOK
<1>13. op' = [op EXCEPT ![p] = o]
  BY <1>1, <1>2
<1>14. sql' \in (0 .. MaxRevision) \cup {None}
  BY <1>3, <1>4
<1> QED BY <1>2, <1>3, <1>10, <1>11, <1>12, <1>13, <1>14, Moved DEF TypeOK

\* What the head moves to is the target of a transaction that gets its row.
LEMMA ApplyKeeps ==
    ASSUME StoreIInv, NEW p \in Process, lock = p,
           NEW pc, \/ op[p].pc = "authority" /\ pc = "prepare"
                   \/ op[p].pc = "bind" /\ pc = "commit",
           Apply(op[p].tx),
           op' = [op EXCEPT ![p].pc = pc, ![p].tx.authority = TRUE],
           UNCHANGED <<journal, projection, files, lock, faults>>
    PROVE  StoreIInv'
<1>1. PICK o : o = op[p]
  OBVIOUS
<1>2. TypeOK /\ StoreOK /\ RunOK(o) /\ o \in Running /\ o.tx \in Transaction
      /\ op \in [Process -> {Idle} \cup Waiting \cup Running]
  BY <1>1, WhoRuns, RunningFields
<1>3. PICK tx : tx = Core(o.tx)
  OBVIOUS
<1>4. tx \in Transaction /\ tx.id = o.tx.id /\ tx.kind = o.tx.kind /\ tx.prev = o.tx.prev
      /\ tx.commands = o.tx.commands /\ tx.authority /\ Core(tx) = tx
      /\ Target(tx) = Target(o.tx)
  BY <1>2, <1>3, CoreFields
<1>5. PICK r : r = Target(tx)
  OBVIOUS
<1>6. tx.prev \in Nat /\ r = tx.prev + 1 /\ r \in Nat /\ r \in 1 .. MaxRevision
  BY <1>4, <1>5, TransactionFields
<1>7. PICK row : row = [status |-> "pending", tx |-> tx]
  OBVIOUS
<1>8. row \in Row /\ row # None /\ row.status = "pending" /\ row.tx = tx
  BY <1>4, <1>7, NoneAssumption DEF Row
<1>9. sql = tx.prev /\ sql' = r /\ outbox' = [outbox EXCEPT ![r] = row]
  BY <1>1, <1>3, <1>4, <1>5, <1>7 DEF Apply, Core
<1>10. outbox \in [1 .. MaxRevision -> Row \cup {None}]
  BY <1>2 DEF TypeOK
<1>11. /\ outbox'[r] = row /\ r \notin Rows
       /\ \A s \in 1 .. MaxRevision : s # r => outbox'[s] = outbox[s]
  <2>1. \A s \in Rows : s <= sql
    BY <1>2 DEF StoreOK, RowsOK
  <2> QED BY <1>6, <1>9, <1>10, <2>1
<1>12. Rows' = Rows \cup {r} /\ \A s \in Rows : outbox'[s] = outbox[s]
  BY <1>6, <1>8, <1>11 DEF Rows
<1>13. sql # None /\ sql' # None /\ sql \in Nat /\ sql' \in Nat /\ sql' = sql + 1
  BY <1>6, <1>9, NoneAssumption
<1>14. /\ PreparedTx' = PreparedTx /\ JournalTx' = JournalTx
       /\ Replayed' = Replayed /\ CommittedEvents' = CommittedEvents
       /\ Incomplete' = Incomplete /\ (Replayable' <=> Replayable)
  BY DEF PreparedTx, JournalTx, Replayed, CommittedEvents, Incomplete, Replayable
<1>15. Recorded' = Recorded \cup {tx}
  BY <1>8, <1>11, <1>12, <1>14 DEF Recorded
<1>16. \A u \in Recorded : u.id = tx.id => Core(u) = tx
  BY <1>2, <1>3, <1>4, RunAgrees
<1>17. StoreOK'
  <2>1. RowsOK'
    <3>1. ASSUME NEW s \in Rows
          PROVE  Target(outbox[s].tx) = s /\ outbox[s].tx.commands # <<>> /\ s <= sql'
      <4>1. s \in Nat /\ s <= sql
        BY <1>2, TaskStateStoreAssumption DEF StoreOK, RowsOK, Rows
      <4> QED BY <1>2, <1>13, <4>1 DEF StoreOK, RowsOK
    <3>2. Target(row.tx) = r /\ row.tx.commands # <<>> /\ r <= sql'
      BY <1>2, <1>4, <1>5, <1>6, <1>8, <1>9 DEF RunOK
    <3>3. \A s \in Rows' : s \in Rows \/ s = r
      BY <1>12
    <3> QED BY <1>11, <1>12, <1>13, <3>1, <3>2, <3>3 DEF RowsOK, Target
  <2>2. IdsOK'
    BY <1>2, <1>4, <1>14, <1>15, <1>16 DEF StoreOK, IdsOK
  <2>3. PreparedOK'
    <3>1. ASSUME NEW t \in PreparedTx, t.kind = "contract_continuity"
          PROVE  Passed(t)'
      <4>1. t \in Transaction
        BY <1>2, JournalSets DEF TypeOK
      <4>2. t.prev \in Nat /\ Target(t) = t.prev + 1
        BY <4>1, TransactionFields
      <4>3. sql > t.prev => Target(t) \in Rows
        BY <1>2, <1>13, <3>1 DEF StoreOK, PreparedOK, Passed
      <4>4. sql = t.prev => Target(t) = r
        BY <1>6, <1>9, <4>2
      <4>5. sql' > t.prev => Target(t) \in Rows'
        BY <1>12, <1>13, <4>2, <4>3, <4>4
      <4> QED BY <4>5 DEF Passed
    <3>2. \A t \in PreparedTx : t.commands # <<>> /\ (t.authority => Target(t) \in Rows)
      BY <1>2 DEF StoreOK, PreparedOK
    <3> QED BY <1>12, <1>14, <3>1, <3>2 DEF PreparedOK
  <2>4. ContinuityBound' /\ AtMostOneIncomplete'
    BY <1>2, <1>13, <1>14 DEF StoreOK, ContinuityBound, AtMostOneIncomplete
  <2>5. HeadFollows'
    <3>1. ASSUME Replayable PROVE Replayed.rev + 1 .. sql' \subseteq Rows'
      <4>1. Replayed.rev \in Nat /\ Replayed.rev + 1 .. sql \subseteq Rows
        BY <1>2, <1>13, <3>1, RevisionOf DEF StoreOK, HeadFollows
      <4>2. \A s \in Replayed.rev + 1 .. sql' : s \in Replayed.rev + 1 .. sql \/ s = r
        BY <1>6, <1>9, <1>13, <4>1
      <4> QED BY <1>12, <4>1, <4>2
    <3> QED BY <1>2, <1>14, <3>1 DEF StoreOK, HeadFollows
  <2>6. DeliveredInOrder'
    <3> SUFFICES ASSUME NEW a \in Rows', NEW b \in Rows', b < a,
                        outbox'[a].status = "materialized"
                 PROVE  outbox'[b].status = "materialized"
      BY DEF DeliveredInOrder
    <3>1. a \in Rows
      BY <1>8, <1>11, <1>12
    <3>2. a \in Nat /\ a <= sql
      BY <1>2, <3>1, TaskStateStoreAssumption DEF StoreOK, RowsOK, Rows
    <3>3. b # r
      BY <1>6, <1>9, <3>2
    <3>4. b \in Rows
      BY <1>12, <3>3
    <3> QED BY <1>2, <1>12, <3>1, <3>4 DEF StoreOK, DeliveredInOrder
  <2> QED BY <2>1, <2>2, <2>3, <2>4, <2>5, <2>6 DEF StoreOK
<1>18. Grows
  BY <1>2, <1>12, <1>14, RevisionOf DEF Grows
<1>19. PICK n : n = [o EXCEPT !.pc = pc, !.tx = tx]
  OBVIOUS
<1>20. op' = [op EXCEPT ![p] = n]
  BY <1>1, <1>2, <1>3, <1>19, Zenon DEF Core
<1>21. /\ n \in Running /\ n.pc = pc /\ n.mode = o.mode /\ n.tx = tx /\ n.left = o.left
       /\ n.undo = o.undo /\ n.todo = o.todo
  BY <1>2, <1>4, <1>19 DEF Running
<1>22. RunOK(n)'
  <2>1. CASE o.pc = "authority" /\ pc = "prepare"
    <3>1. Beginning(o)
      BY <1>2, <2>1 DEF RunOK
    <3>2. Beginning(n)'
      <4>1. n.mode = "direct" /\ Incomplete' = {} /\ \A t \in JournalTx' : t.id # n.tx.id
        BY <1>4, <1>14, <1>21, <3>1 DEF Beginning
      <4>2. ASSUME NEW s \in Rows', outbox'[s].tx.id = n.tx.id
            PROVE  Core(outbox'[s].tx) = Core(n.tx)
        <5>1. outbox'[s].tx = tx \/ outbox'[s].tx \in Recorded
          BY <1>8, <1>11, <1>12 DEF Recorded
        <5> QED BY <1>4, <1>16, <1>21, <4>2, <5>1
      <4>3. n.tx.kind # "contract_continuity"
        BY <1>4, <1>21, <2>1, <3>1 DEF Beginning
      <4> QED BY <4>1, <4>2, <4>3 DEF Beginning, Core
    <3> QED BY <1>2, <1>4, <1>5, <1>12, <1>14, <1>21, <2>1, <3>2 DEF RunOK
  <2>2. CASE o.pc = "bind" /\ pc = "commit"
    <3>1. Begun(o) /\ o.mode # "outbox"
      BY <1>2, <2>2 DEF RunOK
    <3>2. Begun(n)'
      BY <1>3, <1>4, <1>14, <1>21, <3>1 DEF Begun
    <3> QED BY <1>2, <1>4, <1>5, <1>12, <1>13, <1>14, <1>21, <2>2, <3>2 DEF RunOK
  <2> QED BY <1>1, <2>1, <2>2
<1>23. sql' \in (0 .. MaxRevision) \cup {None} /\ outbox' \in [1 .. MaxRevision -> Row \cup {None}]
  BY <1>6, <1>8, <1>9, <1>10, TaskStateStoreAssumption
<1> QED BY <1>2, <1>17, <1>18, <1>20, <1>22, <1>23, Moved DEF TypeOK

\* The authority's step of entities, bundles and completions.
LEMMA AuthorityKeeps ==
    ASSUME StoreIInv, NEW p \in Process, Authority(p)
    PROVE  StoreIInv'
<1>1. PICK o : o = op[p]
  OBVIOUS
<1>2. /\ TypeOK /\ StoreOK /\ lock = p /\ o.pc = "authority" /\ RunOK(o) /\ o \in Running
      /\ op \in [Process -> {Idle} \cup Waiting \cup Running]
      /\ UNCHANGED <<journal, projection, files, faults>>
  BY <1>1, WhoRuns DEF Authority, Holds
<1>3. CASE Import(o.tx) /\ UNCHANGED <<op, lock>>
  BY <1>1, <1>2, <1>3, ImportKeeps
<1>4. CASE /\ Apply(o.tx)
           /\ op' = [op EXCEPT ![p].pc = "prepare", ![p].tx.authority = TRUE]
           /\ UNCHANGED lock
  BY <1>1, <1>2, <1>4, ApplyKeeps
<1>5. CASE Release(p, Idle) /\ UNCHANGED <<sql, outbox>>
  <2>1. Leaves(p, Idle)
    BY <1>5, IdleWaits DEF Release, Leaves
  <2> QED BY <1>2, <1>5, <2>1, LeavesKeeps DEF TypeOK, Durable
<1>6. CASE Step(p, "prepare") /\ UNCHANGED <<sql, outbox, lock>>
  <2>1. PICK n : n = [o EXCEPT !.pc = "prepare"]
    OBVIOUS
  <2>2. op' = [op EXCEPT ![p] = n]
    BY <1>1, <1>2, <1>6, <2>1 DEF Step
  <2>3. /\ n \in Running /\ n.pc = "prepare" /\ n.mode = o.mode /\ n.tx = o.tx
        /\ n.todo = o.todo /\ n.left = o.left
    BY <1>2, <2>1 DEF Running
  <2>4. Beginning(n)
    BY <1>2, <2>3 DEF RunOK, Beginning
  <2>5. RunOK(n)
    BY <1>2, <2>3, <2>4 DEF RunOK
  <2>6. Leaves(p, n)
    BY <1>6, <2>2, <2>5 DEF Leaves
  <2> QED BY <1>2, <1>6, <2>6, LeavesKeeps DEF TypeOK, Durable
<1> QED
  <2>1. \/ Step(p, "prepare") /\ UNCHANGED <<sql, outbox, lock>>
        \/ Import(o.tx) /\ UNCHANGED <<op, lock>>
        \/ /\ Apply(o.tx)
           /\ op' = [op EXCEPT ![p].pc = "prepare", ![p].tx.authority = TRUE]
           /\ UNCHANGED lock
        \/ Release(p, Idle) /\ UNCHANGED <<sql, outbox>>
    BY <1>1 DEF Authority
  <2> QED BY <1>3, <1>4, <1>5, <1>6, <2>1

\* The authority's step of a continuity.  A replay that finds the authority at
\* its target finds its own row there.
LEMMA BindKeeps ==
    ASSUME StoreIInv, NEW p \in Process, Bind(p)
    PROVE  StoreIInv'
<1>1. PICK o : o = op[p]
  OBVIOUS
<1>2. /\ TypeOK /\ StoreOK /\ lock = p /\ o.pc = "bind" /\ RunOK(o) /\ o \in Running
      /\ op \in [Process -> {Idle} \cup Waiting \cup Running]
      /\ UNCHANGED <<journal, projection, files, faults>>
  BY <1>1, WhoRuns DEF Bind, Holds
<1>3. CASE Import(o.tx) /\ UNCHANGED <<op, lock>>
  BY <1>1, <1>2, <1>3, ImportKeeps
<1>4. CASE /\ Apply(o.tx)
           /\ op' = [op EXCEPT ![p].pc = "commit", ![p].tx.authority = TRUE]
           /\ UNCHANGED lock
  BY <1>1, <1>2, <1>4, ApplyKeeps
<1>5. CASE Unwind(p) /\ UNCHANGED <<sql, outbox>>
  <2>1. \E n : Leaves(p, n)
    BY <1>1, <1>2, <1>5, UnwindLeaves
  <2> QED BY <1>2, <1>5, <2>1, LeavesKeeps DEF TypeOK, Durable
<1>6. CASE /\ sql = Target(o.tx)
           /\ op' = [op EXCEPT ![p].pc = "commit", ![p].tx.authority = TRUE]
           /\ UNCHANGED <<sql, outbox, lock>>
  <2>1. PICK tx : tx = Core(o.tx)
    OBVIOUS
  <2>2. o.tx \in Transaction
    BY <1>2, RunningFields
  <2>3. tx \in Transaction /\ tx.kind = o.tx.kind /\ tx.prev = o.tx.prev
        /\ tx.commands = o.tx.commands /\ tx.authority /\ Core(tx) = tx
        /\ Target(tx) = Target(o.tx)
    BY <2>1, <2>2, CoreFields
  <2>4. PICK n : n = [o EXCEPT !.pc = "commit", !.tx = tx]
    OBVIOUS
  <2>5. op' = [op EXCEPT ![p] = n]
    BY <1>1, <1>2, <1>6, <2>1, <2>4, Zenon DEF Core
  <2>6. /\ n \in Running /\ n.pc = "commit" /\ n.mode = o.mode /\ n.tx = tx
        /\ n.todo = o.todo
    BY <1>2, <2>3, <2>4 DEF Running
  <2>7. Begun(o) /\ o.mode # "outbox" /\ o.tx.kind = "contract_continuity"
    BY <1>2 DEF RunOK
  <2>8. PICK u \in PreparedTx : Core(u) = Core(o.tx)
    BY <2>7 DEF Begun
  <2>9. u \in Transaction
    BY <1>2, JournalSets DEF TypeOK
  <2>10. u.kind = "contract_continuity" /\ u.prev = o.tx.prev /\ Target(u) = Target(o.tx)
    BY <2>2, <2>7, <2>8, <2>9, CoreFields
  <2>11. sql # None /\ sql > u.prev
    BY <1>6, <2>2, <2>10, TransactionFields, NoneAssumption
  <2>12. Target(tx) \in Rows
    BY <1>2, <2>3, <2>10, <2>11 DEF StoreOK, PreparedOK, Passed
  <2>13. Begun(n)
    BY <2>1, <2>3, <2>6, <2>7 DEF Begun
  <2>14. RunOK(n)
    BY <1>2, <2>3, <2>6, <2>11, <2>12, <2>13 DEF RunOK
  <2>15. Leaves(p, n)
    BY <1>6, <2>5, <2>14 DEF Leaves
  <2> QED BY <1>2, <1>6, <2>15, LeavesKeeps DEF TypeOK, Durable
<1> QED
  <2>1. \/ Import(o.tx) /\ UNCHANGED <<op, lock>>
        \/ /\ Apply(o.tx)
           /\ op' = [op EXCEPT ![p].pc = "commit", ![p].tx.authority = TRUE]
           /\ UNCHANGED lock
        \/ /\ sql = Target(o.tx)
           /\ op' = [op EXCEPT ![p].pc = "commit", ![p].tx.authority = TRUE]
           /\ UNCHANGED <<sql, outbox, lock>>
        \/ Unwind(p) /\ UNCHANGED <<sql, outbox>>
    BY <1>1 DEF Bind
  <2> QED BY <1>3, <1>4, <1>5, <1>6, <2>1

----------------------------------------------------------------------------
(* The journal grows. *)

\* The prepared event is the only one that is not followed up.
LEMMA PrepareKeeps ==
    ASSUME StoreIInv, NEW p \in Process, Prepare(p)
    PROVE  StoreIInv'
<1>1. PICK o : o = op[p]
  OBVIOUS
<1>2. /\ TypeOK /\ StoreOK /\ lock = p /\ o.pc = "prepare" /\ RunOK(o) /\ o \in Running
      /\ op \in [Process -> {Idle} \cup Waiting \cup Running]
      /\ UNCHANGED <<projection, files, sql, outbox, lock, faults>>
  BY <1>1, WhoRuns DEF Prepare, Holds
<1>3. PICK tx : tx = o.tx
  OBVIOUS
<1>4. tx \in Transaction
  BY <1>2, <1>3, RunningFields
<1>5. PICK e : e = [phase |-> "prepared", tx |-> tx]
  OBVIOUS
<1>6. e \in Event /\ e.phase = "prepared" /\ e.tx = tx /\ journal' = Append(journal, e)
  BY <1>1, <1>3, <1>4, <1>5 DEF Event, Prepare
<1>7. /\ journal' \in Seq(Event) /\ Replayed' = Replayed
      /\ JournalTx' = JournalTx \cup {tx} /\ CommittedEvents' = CommittedEvents
      /\ PreparedTx' = PreparedTx \cup {tx}
  BY <1>2, <1>6, JournalGrows DEF TypeOK, Extended
<1>8. Rows' = Rows /\ (Replayable' <=> Replayable) /\ Recorded' = Recorded \cup {tx}
      /\ sql' = sql /\ outbox' = outbox /\ projection' = projection
  BY <1>2, <1>7 DEF Rows, Replayable, Recorded
<1>9. Beginning(o)
  BY <1>2 DEF RunOK
<1>10. StoreOK'
  <2>1. RowsOK' /\ DeliveredInOrder'
    BY <1>2, <1>8 DEF StoreOK, RowsOK, DeliveredInOrder
  <2>2. IdsOK'
    <3>1. \A u \in Recorded : u.id = tx.id => Core(u) = Core(tx)
      BY <1>2, <1>3, RunAgrees
    <3> QED BY <1>2, <1>7, <1>8, <3>1 DEF StoreOK, IdsOK
  <2>3. PreparedOK'
    <3>1. tx.commands # <<>> /\ (tx.authority => Target(tx) \in Rows)
      BY <1>2, <1>3 DEF RunOK
    <3>2. tx.kind = "contract_continuity" => Passed(tx)
      BY <1>3, <1>9 DEF Beginning
    <3> QED BY <1>2, <1>7, <1>8, <3>1, <3>2 DEF StoreOK, PreparedOK, Passed
  <2>4. ContinuityBound' /\ HeadFollows'
    BY <1>2, <1>7, <1>8 DEF StoreOK, ContinuityBound, HeadFollows
  <2>5. AtMostOneIncomplete'
    <3>1. Incomplete = {t \in PreparedTx : \A c \in CommittedEvents : c.id # t.id}
      BY <1>2, JournalSets DEF TypeOK
    <3>2. Incomplete' = {t \in PreparedTx' : \A c \in CommittedEvents' : c.id # t.id}
      BY DEF Incomplete, PreparedTx
    <3>3. Incomplete' \subseteq {tx}
      BY <1>7, <1>9, <3>1, <3>2 DEF Beginning
    <3> QED BY <3>3 DEF AtMostOneIncomplete
  <2> QED BY <2>1, <2>2, <2>3, <2>4, <2>5 DEF StoreOK
<1>11. Grows
  BY <1>2, <1>7, <1>8, RevisionOf DEF Grows
<1>12. PICK n : n = [o EXCEPT !.pc = "write"]
  OBVIOUS
<1>13. op' = [op EXCEPT ![p] = n]
  BY <1>1, <1>2, <1>12 DEF Prepare, Step
<1>14. /\ n \in Running /\ n.pc = "write" /\ n.mode = o.mode /\ n.tx = tx
       /\ n.todo = o.todo /\ n.left = o.left
  BY <1>2, <1>3, <1>12 DEF Running
<1>15. Begun(n)'
  BY <1>7, <1>9, <1>14 DEF Begun, Beginning
<1>16. RunOK(n)'
  BY <1>2, <1>3, <1>7, <1>8, <1>14, <1>15 DEF RunOK
<1> QED BY <1>2, <1>7, <1>10, <1>11, <1>13, <1>16, Moved DEF TypeOK

\* The committed event extends the journal by the revision of its transaction,
\* or is there already, or leaves a gap.
LEMMA CommitEventKeeps ==
    ASSUME StoreIInv, NEW p \in Process, CommitEvent(p)
    PROVE  StoreIInv'
<1>1. PICK o : o = op[p]
  OBVIOUS
<1>2. /\ TypeOK /\ StoreOK /\ lock = p /\ o.pc = "commit" /\ RunOK(o) /\ o \in Running
      /\ op \in [Process -> {Idle} \cup Waiting \cup Running]
      /\ UNCHANGED <<projection, files, sql, outbox, faults>>
  BY <1>1, WhoRuns DEF CommitEvent, Holds
<1>3. PICK tx : tx = o.tx
  OBVIOUS
<1>4. tx \in Transaction /\ Target(tx) \in Nat /\ tx.prev \in Nat /\ Target(tx) = tx.prev + 1
  BY <1>2, <1>3, RunningFields, TransactionFields
<1>5. PICK existing :
        existing = IF o.mode = "outbox" THEN CommittedAt(Target(tx)) ELSE {}
  OBVIOUS
<1>6. PICK n : n = [o EXCEPT !.pc = "project"]
  OBVIOUS
<1>7. /\ n \in Running /\ n.pc = "project" /\ n.mode = o.mode /\ n.tx = tx
      /\ n.todo = o.todo
  BY <1>2, <1>3, <1>6 DEF Running
<1>8. Begun(n)
  BY <1>2, <1>3, <1>7 DEF RunOK, Begun
<1>9. CASE Unwind(p) /\ UNCHANGED journal
  <2>1. \E x : Leaves(p, x)
    BY <1>1, <1>2, <1>9, UnwindLeaves
  <2> QED BY <1>2, <1>9, <2>1, LeavesKeeps DEF TypeOK, Durable
<1>10. CASE /\ existing # {} /\ journal' = journal
            /\ op' = [op EXCEPT ![p] = n] /\ lock' = lock
  <2>1. PICK i \in CommittedAt(Target(tx)) : TRUE
    BY <1>5, <1>10
  <2>2. journal[i] \in CommittedEvents /\ Target(journal[i].tx) = Target(tx)
    BY <2>1 DEF CommittedAt, CommittedEvents
  <2>3. Replayable => Target(tx) <= Replayed.rev
    BY <1>2, <2>2 DEF StoreOK, HeadFollows
  <2>4. RunOK(n)
    BY <1>2, <1>3, <1>7, <1>8, <2>3 DEF RunOK
  <2>5. Leaves(p, n)
    BY <1>10, <2>4 DEF Leaves
  <2> QED BY <1>2, <1>10, <2>5, LeavesKeeps DEF TypeOK, Durable
<1>11. CASE /\ journal' = Append(journal, Committed(p))
            /\ op' = [op EXCEPT ![p] = n] /\ lock' = lock
  <2>1. PICK e : e = Committed(p)
    OBVIOUS
  <2>2. e \in Event /\ e.phase = "committed" /\ e.tx = tx /\ e.id \in {0, tx.id}
    <3>1. e = [phase |-> "committed", id |-> EventId(p), tx |-> tx, whole |-> Whole(p)]
      BY <1>1, <1>3, <2>1 DEF Committed
    <3>2. EventId(p) \in {0, tx.id} /\ EventId(p) \in Nat
      BY <1>1, <1>3, <1>4, TransactionFields DEF EventId
    <3>3. Whole(p) \in BOOLEAN
      BY DEF Whole, Entity
    <3> QED BY <1>4, <3>1, <3>2, <3>3 DEF Event
  <2>3. /\ journal' \in Seq(Event) /\ Replayed' = Extended(Replayed, e)
        /\ JournalTx' = JournalTx \cup {tx}
        /\ CommittedEvents' = CommittedEvents \cup {e} /\ PreparedTx' = PreparedTx
    BY <1>2, <1>11, <2>1, <2>2, JournalGrows DEF TypeOK
  <2>4. Rows' = Rows /\ Recorded' = Recorded \cup {tx}
        /\ sql' = sql /\ outbox' = outbox /\ projection' = projection
    BY <1>2, <2>3 DEF Rows, Recorded
  <2>5. ASSUME Replayable'
        PROVE  /\ Replayable /\ Replayed \in Projection /\ Replayed' \in Projection
               /\ Replayed.rev \in Nat /\ Replayed.rev = tx.prev
               /\ Replayed'.rev = Target(tx)
    <3>1. Replayable
      BY <2>2, <2>3, <2>5, GapStays DEF Replayable
    <3>2. Replayed \in Projection /\ Replayed.rev \in Nat
      BY <1>2, <3>1, RevisionOf
    <3>3. Extended(Replayed, e) # Gap
      BY <2>3, <2>5 DEF Replayable
    <3> QED BY <2>2, <2>3, <3>1, <3>2, <3>3, ExtendedIs
  <2>6. StoreOK'
    <3>1. RowsOK' /\ DeliveredInOrder'
      BY <1>2, <2>4 DEF StoreOK, RowsOK, DeliveredInOrder
    <3>2. IdsOK'
      <4>1. \A u \in Recorded : u.id = tx.id => Core(u) = Core(tx)
        BY <1>2, <1>3, RunAgrees
      <4> QED BY <1>2, <2>2, <2>3, <2>4, <4>1 DEF StoreOK, IdsOK
    <3>3. PreparedOK'
      BY <1>2, <2>3, <2>4 DEF StoreOK, PreparedOK, Passed
    <3>4. ContinuityBound'
      <4>1. tx.kind = "contract_continuity" => sql # None
        BY <1>2, <1>3 DEF RunOK, StoreOK, RowsOK
      <4> QED BY <1>2, <2>2, <2>3, <2>4, <4>1 DEF StoreOK, ContinuityBound
    <3>5. AtMostOneIncomplete'
      <4>1. Incomplete = {t \in PreparedTx : \A c \in CommittedEvents : c.id # t.id}
        BY <1>2, JournalSets DEF TypeOK
      <4>2. Incomplete' = {t \in PreparedTx' : \A c \in CommittedEvents' : c.id # t.id}
        BY DEF Incomplete, PreparedTx
      <4>3. Incomplete' \subseteq Incomplete
        BY <2>3, <4>1, <4>2
      <4> QED BY <1>2, <4>3 DEF StoreOK, AtMostOneIncomplete
    <3>6. HeadFollows'
      <4>1. CommittedEvents' # {}
        BY <2>3
      <4>2. ASSUME Replayable'
            PROVE  /\ sql' # None => Replayed'.rev + 1 .. sql' \subseteq Rows'
                   /\ projection'.rev <= Replayed'.rev
                   /\ \A c \in CommittedEvents' : Target(c.tx) <= Replayed'.rev
        <5>1. Replayed'.rev = Replayed.rev + 1 /\ Replayed.rev \in Nat
          BY <1>4, <2>5, <4>2
        <5>2. sql # None => sql \in Nat
          BY <1>2, TaskStateStoreAssumption DEF TypeOK
        <5>3. sql # None => Replayed.rev + 1 .. sql \subseteq Rows
          BY <1>2, <2>5, <4>2 DEF StoreOK, HeadFollows
        <5>4. sql # None => Replayed'.rev + 1 .. sql \subseteq Replayed.rev + 1 .. sql
          BY <5>1, <5>2
        <5>5. projection.rev \in Nat /\ projection.rev <= Replayed.rev
          BY <1>2, <2>5, <4>2, TaskStateStoreAssumption
             DEF TypeOK, Projection, StoreOK, HeadFollows
        <5>6. ASSUME NEW c \in CommittedEvents' PROVE Target(c.tx) <= Replayed'.rev
          <6>1. CASE c = e
            BY <1>4, <2>2, <2>5, <4>2, <6>1
          <6>2. CASE c \in CommittedEvents
            <7>1. Target(c.tx) <= Replayed.rev
              BY <1>2, <2>5, <4>2, <6>2 DEF StoreOK, HeadFollows
            <7>2. Target(c.tx) \in Nat
              BY <1>2, <6>2, JournalSets, TransactionFields DEF TypeOK
            <7> QED BY <5>1, <7>1, <7>2
          <6> QED BY <2>3, <6>1, <6>2
        <5> QED BY <2>4, <5>1, <5>3, <5>4, <5>5, <5>6
      <4> QED BY <2>5, <4>1, <4>2 DEF HeadFollows
    <3> QED BY <3>1, <3>2, <3>3, <3>4, <3>5, <3>6 DEF StoreOK
  <2>7. Grows
    BY <1>4, <2>3, <2>4, <2>5 DEF Grows
  <2>8. RunOK(n)'
    <3>1. Begun(n)'
      BY <1>8, <2>3, <2>4 DEF Begun
    <3>2. Replayable' => n.tx.prev <= Replayed'.rev /\ Target(n.tx) <= Replayed'.rev
      BY <1>4, <1>7, <2>5
    <3> QED BY <1>2, <1>3, <1>7, <2>4, <3>1, <3>2 DEF RunOK
  <2> QED BY <1>2, <1>11, <2>3, <2>6, <2>7, <2>8, Moved DEF TypeOK
<1> QED
  <2>1. \/ /\ journal' = IF existing = {} THEN Append(journal, Committed(p)) ELSE journal
           /\ Step(p, "project") /\ UNCHANGED lock
        \/ Unwind(p) /\ UNCHANGED journal
    BY <1>1, <1>3, <1>5 DEF CommitEvent
  <2>2. Step(p, "project") => op' = [op EXCEPT ![p] = n]
    BY <1>1, <1>2, <1>6 DEF Step
  <2> QED BY <1>9, <1>10, <1>11, <2>1, <2>2

----------------------------------------------------------------------------
(* The projection is written and the rows are acknowledged. *)

\* The projection gets the revision that was committed.
LEMMA ProjectKeeps ==
    ASSUME StoreIInv, NEW p \in Process, Project(p)
    PROVE  StoreIInv'
<1>1. PICK o : o = op[p]
  OBVIOUS
<1>2. /\ TypeOK /\ StoreOK /\ lock = p /\ o.pc = "project" /\ RunOK(o) /\ o \in Running
      /\ op \in [Process -> {Idle} \cup Waiting \cup Running]
      /\ UNCHANGED <<journal, files, sql, outbox, lock, faults>>
  BY <1>1, WhoRuns DEF Project, Holds
<1>3. o.tx \in Transaction /\ Whole(p) \in BOOLEAN /\ projection \in Projection
  BY <1>2, RunningFields DEF Whole, Entity, TypeOK
<1>4. projection' = Projected(projection, o.tx, Whole(p))
  BY <1>1 DEF Project
<1>5. projection' \in Projection /\ projection'.rev = Target(o.tx)
  BY <1>3, <1>4, ProjectedIs
<1>6. Replayable => projection'.rev <= Replayed.rev
  BY <1>2, <1>5 DEF RunOK
<1>7. PICK pc : pc = IF o.tx.authority THEN "deliver" ELSE "clean"
  OBVIOUS
<1>8. PICK n : n = [o EXCEPT !.pc = pc]
  OBVIOUS
<1>9. op' = [op EXCEPT ![p] = n]
  BY <1>1, <1>2, <1>7, <1>8 DEF Project, Step
<1>10. /\ n \in Running /\ n.pc = pc /\ n.mode = o.mode /\ n.tx = o.tx /\ n.todo = o.todo
  BY <1>2, <1>7, <1>8 DEF Running
<1>11. Begun(n)
  BY <1>2, <1>10 DEF RunOK, Begun
<1>12. RunOK(n)
  BY <1>2, <1>7, <1>10, <1>11 DEF RunOK
<1>13. Grows /\ StoreOK' /\ RunOK(n)'
  BY <1>2, <1>6, <1>12, SameButProjection
<1> QED BY <1>2, <1>5, <1>9, <1>13, Moved DEF TypeOK

\* The status of a row matters to the order of delivery only.
LEMMA SameButStatus ==
    ASSUME StoreOK, UNCHANGED <<journal, projection, sql>>, Rows' = Rows,
           \A r \in Rows : outbox'[r].tx = outbox[r].tx,
           DeliveredInOrder'
    PROVE  /\ Grows
           /\ StoreOK'
           /\ \A o : RunOK(o) => RunOK(o)'
           /\ \A o : WaitOK(o) => WaitOK(o)'
<1>1. sql' = sql /\ projection' = projection /\ journal' = journal
  OBVIOUS
<1>2. /\ PreparedTx' = PreparedTx /\ JournalTx' = JournalTx
      /\ Replayed' = Replayed /\ CommittedEvents' = CommittedEvents
      /\ Incomplete' = Incomplete
  BY <1>1 DEF PreparedTx, JournalTx, Replayed, CommittedEvents, Incomplete
<1>3. (Replayable' <=> Replayable) /\ Recorded' = Recorded
  BY <1>1, <1>2 DEF Replayable, Recorded
<1>4. Grows
  BY <1>2, <1>3, RevisionOf DEF Grows
<1>5. RowsOK'
  BY <1>1 DEF StoreOK, RowsOK
<1>6. IdsOK' /\ PreparedOK'
  BY <1>1, <1>2, <1>3 DEF StoreOK, IdsOK, PreparedOK, Passed
<1>7. ContinuityBound' /\ AtMostOneIncomplete' /\ HeadFollows'
  BY <1>1, <1>2, <1>3 DEF StoreOK, ContinuityBound, AtMostOneIncomplete, HeadFollows
<1>8. ASSUME NEW o, RunOK(o) PROVE RunOK(o)'
  <2>1. Beginning(o) => Beginning(o)'
    BY <1>1, <1>2 DEF Beginning, Passed
  <2>2. Begun(o) => Begun(o)'
    BY <1>1, <1>2 DEF Begun
  <2> QED BY <1>8, <2>1, <2>2, <1>1, <1>2, <1>3 DEF RunOK
<1>9. ASSUME NEW o, WaitOK(o) PROVE WaitOK(o)'
  BY <1>2, <1>3, <1>9 DEF WaitOK
<1> QED BY <1>4, <1>5, <1>6, <1>7, <1>8, <1>9 DEF StoreOK

\* Rows whose status changed are still rows.
LEMMA StatusTyped ==
    ASSUME TypeOK, NEW r \in Rows, NEW status \in {"pending", "delivered", "materialized"}
    PROVE  /\ outbox[r] \in Row
           /\ [outbox[r] EXCEPT !.status = status] \in Row
           /\ [outbox[r] EXCEPT !.status = status] # None
           /\ [outbox[r] EXCEPT !.status = status].tx = outbox[r].tx
           /\ [outbox[r] EXCEPT !.status = status].status = status
<1>1. outbox[r] \in Row
  BY DEF TypeOK, Rows
<1>2. [outbox[r] EXCEPT !.status = status] \in Row
  BY <1>1 DEF Row
<1> QED BY <1>1, <1>2, NoneAssumption DEF Row

\* A row that is delivered again stays as final as it was.
LEMMA DeliverKeeps ==
    ASSUME StoreIInv, NEW p \in Process, Deliver(p)
    PROVE  StoreIInv'
<1>1. PICK o : o = op[p]
  OBVIOUS
<1>2. /\ TypeOK /\ StoreOK /\ lock = p /\ o.pc = "deliver" /\ RunOK(o) /\ o \in Running
      /\ op \in [Process -> {Idle} \cup Waiting \cup Running]
      /\ UNCHANGED <<journal, projection, files, sql, faults>>
  BY <1>1, WhoRuns DEF Deliver, Holds
<1>3. PICK r : r = Target(o.tx)
  OBVIOUS
<1>4. r \in Rows /\ r \in 1 .. MaxRevision
  BY <1>2, <1>3 DEF RunOK, Rows
<1>5. CASE FailLate(p) /\ UNCHANGED outbox
  <2>1. \E n : Leaves(p, n)
    BY <1>1, <1>2, <1>5, FailLateLeaves
  <2> QED BY <1>2, <1>5, <2>1, LeavesKeeps DEF TypeOK, Durable
<1>6. CASE /\ IF outbox[r].status = "materialized" THEN UNCHANGED outbox
              ELSE outbox' = [outbox EXCEPT ![r].status = "delivered"]
           /\ Step(p, "publish") /\ UNCHANGED lock
  <2>1. PICK row : row = [outbox[r] EXCEPT !.status = "delivered"]
    OBVIOUS
  <2>2. row \in Row /\ row # None /\ row.tx = outbox[r].tx /\ row.status = "delivered"
    BY <1>2, <1>4, <2>1, StatusTyped
  <2>3. outbox \in [1 .. MaxRevision -> Row \cup {None}]
    BY <1>2 DEF TypeOK
  <2>4. \/ outbox' = outbox
        \/ outbox[r].status # "materialized" /\ outbox' = [outbox EXCEPT ![r] = row]
    BY <1>6, <2>1
  <2>5. /\ outbox' \in [1 .. MaxRevision -> Row \cup {None}]
        /\ \A s \in 1 .. MaxRevision : s # r => outbox'[s] = outbox[s]
        /\ outbox'[r].tx = outbox[r].tx /\ outbox'[r] # None
        /\ outbox'[r].status = "materialized" <=> outbox[r].status = "materialized"
    BY <1>4, <2>2, <2>3, <2>4 DEF Rows
  <2>6. Rows' = Rows
    BY <1>4, <2>5 DEF Rows
  <2>7. \A s \in Rows : s \in 1 .. MaxRevision
    BY DEF Rows
  <2>8. \A s \in Rows :
          /\ outbox'[s].tx = outbox[s].tx
          /\ outbox'[s].status = "materialized" <=> outbox[s].status = "materialized"
    BY <2>5, <2>7
  <2>9. DeliveredInOrder'
    BY <1>2, <2>6, <2>8 DEF StoreOK, DeliveredInOrder
  <2>10. PICK n : n = [o EXCEPT !.pc = "publish"]
    OBVIOUS
  <2>11. op' = [op EXCEPT ![p] = n]
    BY <1>1, <1>2, <1>6, <2>10 DEF Step
  <2>12. /\ n \in Running /\ n.pc = "publish" /\ n.mode = o.mode /\ n.tx = o.tx
         /\ n.todo = o.todo
    BY <1>2, <2>10 DEF Running
  <2>13. Begun(n)
    BY <1>2, <2>12 DEF RunOK, Begun
  <2>14. RunOK(n)
    BY <1>2, <2>12, <2>13 DEF RunOK
  <2>15. Grows /\ StoreOK' /\ RunOK(n)'
    BY <1>2, <2>6, <2>8, <2>9, <2>14, SameButStatus
  <2> QED BY <1>2, <1>6, <2>5, <2>11, <2>15, Moved DEF TypeOK
<1> QED BY <1>1, <1>3, <1>5, <1>6 DEF Deliver

\* What a publication does to the outbox: everything or nothing.
LEMMA PublishedRows ==
    ASSUME TypeOK, NEW p \in Process, Publish(p)
    PROVE  /\ outbox' \in [1 .. MaxRevision -> Row \cup {None}]
           /\ Rows' = Rows
           /\ \A r \in Rows : outbox'[r].tx = outbox[r].tx
           /\ \/ outbox' = outbox
              \/ /\ \A r \in Rows : outbox'[r].status = "materialized"
                 /\ \A r \in Rows : outbox[r].status # "pending"
<1>1. outbox \in [1 .. MaxRevision -> Row \cup {None}]
  BY DEF TypeOK
<1>2. PICK all \in BOOLEAN : all <=> \A s \in Rows : outbox[s].status # "pending"
  OBVIOUS
<1>3. outbox' = [r \in 1 .. MaxRevision |->
                    IF outbox[r] # None /\ all
                    THEN [outbox[r] EXCEPT !.status = "materialized"] ELSE outbox[r]]
  BY <1>2 DEF Publish
<1>4. Rows = {r \in 1 .. MaxRevision : outbox[r] # None}
  BY DEF Rows
<1>5. CASE ~all
  <2>1. outbox' = [r \in 1 .. MaxRevision |-> outbox[r]]
    BY <1>3, <1>5
  <2>2. outbox' = outbox
    BY <1>1, <2>1
  <2> QED BY <1>1, <2>2 DEF Rows
<1>6. CASE all
  <2>1. \A r \in Rows : /\ outbox'[r] = [outbox[r] EXCEPT !.status = "materialized"]
                        /\ outbox'[r] \in Row /\ outbox'[r] # None
                        /\ outbox'[r].tx = outbox[r].tx
                        /\ outbox'[r].status = "materialized"
    BY <1>3, <1>4, <1>6, StatusTyped
  <2>2. \A r \in 1 .. MaxRevision : r \notin Rows => outbox[r] = None /\ outbox'[r] = None
    BY <1>3, <1>4
  <2>3. Rows' = Rows
    BY <1>4, <2>1, <2>2 DEF Rows
  <2>4. \A r \in 1 .. MaxRevision : outbox'[r] \in Row \cup {None}
    BY <2>1, <2>2
  <2>5. outbox' = [r \in 1 .. MaxRevision |-> outbox'[r]]
    BY <1>3
  <2>6. outbox' \in [1 .. MaxRevision -> Row \cup {None}]
    BY <2>4, <2>5
  <2> QED BY <1>2, <1>6, <2>1, <2>3, <2>6
<1> QED BY <1>5, <1>6

\* Rows become final together.
LEMMA PublishKeeps ==
    ASSUME StoreIInv, NEW p \in Process, Publish(p)
    PROVE  StoreIInv'
<1>1. PICK o : o = op[p]
  OBVIOUS
<1>2. /\ TypeOK /\ StoreOK /\ lock = p /\ o.pc = "publish" /\ RunOK(o) /\ o \in Running
      /\ op \in [Process -> {Idle} \cup Waiting \cup Running]
      /\ UNCHANGED <<journal, projection, files, sql, faults>>
  BY <1>1, WhoRuns DEF Publish, Holds
<1>3. /\ outbox' \in [1 .. MaxRevision -> Row \cup {None}]
      /\ Rows' = Rows /\ \A r \in Rows : outbox'[r].tx = outbox[r].tx
  BY <1>2, PublishedRows
<1>4. DeliveredInOrder'
  BY <1>2, PublishedRows DEF StoreOK, DeliveredInOrder
<1>5. /\ Grows /\ StoreOK'
      /\ \A n : RunOK(n) => RunOK(n)'
      /\ \A n : WaitOK(n) => WaitOK(n)'
  BY <1>2, <1>3, <1>4, SameButStatus
<1>6. \E n : Leaves(p, n)
  <2>1. CASE FailLate(p)
    BY <1>1, <1>2, <2>1, FailLateLeaves
  <2>2. CASE Step(p, "clean") /\ UNCHANGED lock
    <3>1. PICK n : n = [o EXCEPT !.pc = "clean"]
      OBVIOUS
    <3>2. op' = [op EXCEPT ![p] = n]
      BY <1>1, <1>2, <2>2, <3>1 DEF Step
    <3>3. /\ n \in Running /\ n.pc = "clean" /\ n.mode = o.mode /\ n.tx = o.tx
          /\ n.todo = o.todo
      BY <1>2, <3>1 DEF Running
    <3>4. Begun(n)
      BY <1>2, <3>3 DEF RunOK, Begun
    <3>5. RunOK(n)
      BY <1>2, <3>3, <3>4 DEF RunOK
    <3> QED BY <2>2, <3>2, <3>5 DEF Leaves
  <2> QED BY <2>1, <2>2 DEF Publish
<1>7. PICK n : Leaves(p, n)
  BY <1>6
<1>8. p # None
  BY NoneAssumption
<1>9. IF lock' = p THEN RunOK(n)' ELSE WaitOK(n)'
  BY <1>2, <1>5, <1>7, <1>8 DEF Leaves
<1>10. op' = [op EXCEPT ![p] = n] /\ (lock' = lock \/ (lock = p /\ lock' = None))
  BY <1>2, <1>7 DEF Leaves
<1> QED BY <1>2, <1>3, <1>5, <1>9, <1>10, Moved DEF TypeOK

----------------------------------------------------------------------------
(* The invariant. *)

\* A store without a history is in order.
LEMMA InitStore ==
    ASSUME Init
    PROVE  StoreIInv
<1>1. /\ journal = <<>> /\ sql = None /\ lock = None
      /\ outbox = [r \in 1 .. MaxRevision |-> None]
      /\ op = [p \in Process |-> Idle] /\ projection = NewProjection
  BY DEF Init
<1>2. Rows = {} /\ CommittedEvents = {} /\ PreparedTx = {} /\ JournalTx = {}
      /\ Incomplete = {} /\ Recorded = {}
  BY <1>1 DEF Rows, CommittedEvents, PreparedTx, JournalTx, Incomplete, Recorded
<1>3. Replayed = NewProjection
  BY <1>1, ReplayOfNothing DEF Replayed
<1>4. NewProjection \in Projection /\ NewProjection.rev = 0
  BY NewProjectionIs DEF NewProjection
<1>5. TypeOK
  BY <1>1, <1>4, TaskStateStoreAssumption DEF Init, TypeOK, Content
<1>6. HeadFollows
  <2>1. projection.rev <= Replayed.rev
    BY <1>1, <1>3, <1>4
  <2> QED BY <1>1, <1>2, <1>3, <1>4, <2>1 DEF HeadFollows
<1>7. StoreOK
  BY <1>2, <1>6 DEF StoreOK, RowsOK, IdsOK, PreparedOK, ContinuityBound,
     AtMostOneIncomplete, DeliveredInOrder
<1>8. ProcessesOK
  BY <1>1, IdleWaits, NoneAssumption DEF ProcessesOK
<1> QED BY <1>5, <1>7, <1>8 DEF StoreIInv

\* Every step keeps it in order.
LEMMA NextStore ==
    ASSUME StoreIInv, [Next]_vars
    PROVE  StoreIInv'
<1>1. CASE UNCHANGED vars
  <2>1. /\ UNCHANGED Durable /\ files' = files /\ lock' = lock /\ op' = op
        /\ faults' = faults
    BY <1>1 DEF vars, Durable
  <2>2. TypeOK'
    BY <2>1 DEF StoreIInv, TypeOK, Durable
  <2>3. StoreOK' /\ (\A o : (RunOK(o)' <=> RunOK(o)) /\ (WaitOK(o)' <=> WaitOK(o)))
    BY <2>1, SameStore DEF StoreIInv
  <2>4. ASSUME NEW q \in Process
        PROVE  (IF lock = q THEN RunOK(op[q]) ELSE WaitOK(op[q]))'
    <3>1. PICK u : u = op[q]
      OBVIOUS
    <3>2. u = op'[q]
      BY <2>1, <3>1
    <3>3. IF lock = q THEN RunOK(u) ELSE WaitOK(u)
      BY <3>1 DEF StoreIInv, ProcessesOK
    <3>4. IF lock' = q THEN RunOK(u)' ELSE WaitOK(u)'
      BY <2>1, <2>3, <3>3
    <3> QED BY <3>2, <3>4 DEF RunOK, Beginning, Begun, Passed, WaitOK
  <2> QED BY <2>2, <2>3, <2>4 DEF StoreIInv, ProcessesOK
<1>2. CASE OutsideEdit
  BY <1>2, OutsideEditKeeps
<1>3. ASSUME NEW p \in Process, NEW request \in EntityRequests,
             CommitEntity(p, request[1], request[2])
      PROVE  StoreIInv'
  <2>1. request[1] \in Kinds /\ request[2] \in {"upsert", "clear"}
    BY TaskStateStoreAssumption
  <2> QED BY <1>3, <2>1, CommitEntityKeeps
<1>4. ASSUME NEW p \in Process, NEW checkpointToo \in BOOLEAN,
             CommitContractContinuity(p, checkpointToo)
      PROVE  StoreIInv'
  BY <1>4, CommitContractContinuityKeeps
<1>5. ASSUME NEW p \in Process,
             Read(p) \/ CommitActiveTaskBundle(p) \/ CompleteTaskState(p)
             \/ Authority(p) \/ Prepare(p) \/ WriteFile(p) \/ Bind(p)
      PROVE  StoreIInv'
  BY <1>5, ReadKeeps, CommitActiveTaskBundleKeeps, CompleteTaskStateKeeps,
     AuthorityKeeps, PrepareKeeps, WriteFileKeeps, BindKeeps
<1>6. ASSUME NEW p \in Process,
             CommitEvent(p) \/ Project(p) \/ Deliver(p) \/ Publish(p)
             \/ CleanUp(p) \/ Rollback(p)
      PROVE  StoreIInv'
  BY <1>6, CommitEventKeeps, ProjectKeeps, DeliverKeeps, PublishKeeps, CleanUpKeeps,
     RollbackKeeps
<1>7. ASSUME NEW p \in Process,
             ReconcileRead(p) \/ ReplayBegin(p) \/ OutboxRead(p)
             \/ OutboxBegin(p) \/ RebuildRead(p) \/ RebuildWrite(p)
      PROVE  StoreIInv'
  BY <1>7, ReconcileReadKeeps, ReplayBeginKeeps, OutboxReadKeeps, OutboxBeginKeeps,
     RebuildReadKeeps, RebuildWriteKeeps
<1>8. ASSUME NEW p \in Process, Fail(p) \/ Crash(p) \/ GiveUp(p)
      PROVE  StoreIInv'
  BY <1>8, FailKeeps, CrashKeeps, GiveUpKeeps
<1> QED BY <1>1, <1>2, <1>3, <1>4, <1>5, <1>6, <1>7, <1>8 DEF Next

\* Whatever crashes, throws, is retried or recovered, and in whatever order, the
\* store stays in order.
THEOREM StoreInvariance == Spec => []StoreIInv
<1>1. Init => StoreIInv
  BY InitStore
<1>2. StoreIInv /\ [Next]_vars => StoreIInv'
  BY NextStore
<1> QED BY <1>1, <1>2, PTL DEF Spec

\* The types of the store (TypeOK).
THEOREM StoreTypeCorrect == Spec => []TypeOK
<1>1. StoreIInv => TypeOK
  BY DEF StoreIInv
<1> QED BY <1>1, StoreInvariance, PTL

\* At most one transaction is half done (OneTransactionAtATime).
THEOREM OneAtATime == Spec => []OneTransactionAtATime
<1>1. ASSUME StoreIInv PROVE OneTransactionAtATime
  <2>1. \A t, u \in Incomplete : t = u
    BY <1>1 DEF StoreIInv, StoreOK, AtMostOneIncomplete
  <2>2. CASE Incomplete = {}
    BY <2>2, FS_EmptySet DEF OneTransactionAtATime
  <2>3. CASE Incomplete # {}
    <3>1. PICK t \in Incomplete : TRUE
      BY <2>3
    <3>2. Incomplete = {t}
      BY <2>1, <3>1
    <3>3. Cardinality({t}) = 1
      BY FS_Singleton
    <3> QED BY <3>2, <3>3 DEF OneTransactionAtATime
  <2> QED BY <2>2, <2>3
<1> QED BY <1>1, StoreInvariance, PTL

\* No revision is published before an older one (DeliveredInOrder).
THEOREM DeliveryIsInOrder == Spec => []DeliveredInOrder
<1>1. StoreIInv => DeliveredInOrder
  BY DEF StoreIInv, StoreOK
<1> QED BY <1>1, StoreInvariance, PTL

----------------------------------------------------------------------------
(* The log: completions are final, and the store implements TaskLog. *)

\* What TaskLog sees as published.
PublishedHead == IF Published = {} THEN 0 ELSE Newest(Published)

\* A step of the store is one of the log, or none.
LogStep == [Log!LogNext]_(Log!logVars)

\* Nothing happens to the log while the journal, the head and the published
\* rows stay.
LEMMA LogStutters ==
    ASSUME journal' = journal, sql' = sql, Published' = Published
    PROVE  LogStep
<1>1. Replayed' = Replayed /\ (Replayable' <=> Replayable) /\ PublishedHead' = PublishedHead
  BY DEF Replayed, Replayable, PublishedHead
<1>2. UNCHANGED Log!logVars
  BY <1>1 DEF Log!logVars, PublishedHead
<1> QED BY <1>2 DEF LogStep

\* Published rows are the rows that are materialized.
LEMMA PublishedSame ==
    ASSUME Rows' = Rows,
           \A r \in Rows : outbox'[r].status = "materialized"
                                <=> outbox[r].status = "materialized"
    PROVE  Published' = Published
BY DEF Published

\* The log after a step: as it was, or one revision longer.
LogGrows ==
    Replayable' =>
        /\ Replayable
        /\ \/ Replayed' = Replayed
           \/ Replayed.rev \in Nat /\ Replayed'.rev = Replayed.rev + 1

\* Nothing about the log changes when the durable state does not.
LEMMA SameLog ==
    ASSUME StoreIInv, UNCHANGED Durable
    PROVE  /\ LogGrows /\ LogStep
           /\ (Replayable' <=> Replayable)
           /\ RecordsOK => RecordsOK'
           /\ LogOK => LogOK'
           /\ \A o : (RunLives(o)' <=> RunLives(o)) /\ (RunLogOK(o)' <=> RunLogOK(o))
           /\ \A o : WaitLogOK(o)' <=> WaitLogOK(o)
<1>1. sql' = sql /\ outbox' = outbox /\ projection' = projection /\ journal' = journal
  BY DEF Durable
<1>2. /\ PreparedTx' = PreparedTx /\ Rows' = Rows /\ JournalTx' = JournalTx
      /\ Replayed' = Replayed /\ CommittedEvents' = CommittedEvents
  BY <1>1 DEF PreparedTx, Rows, JournalTx, Replayed, CommittedEvents
<1>3. (Replayable' <=> Replayable) /\ Recorded' = Recorded /\ (Open' <=> Open)
  BY <1>1, <1>2 DEF Replayable, Recorded, Open
<1>4. \A tx : Sealed(tx)' <=> Sealed(tx)
  BY <1>1, <1>2 DEF Sealed
<1>5. \A tx : Underway(tx)' <=> Underway(tx)
  BY <1>1, <1>2, <1>3 DEF Underway
<1>6. RecordsOK => RecordsOK'
  BY <1>2, <1>3, <1>4 DEF RecordsOK
<1>7. HeadOK' <=> HeadOK
  BY <1>1, <1>2, <1>3 DEF HeadOK
<1>8. JournalOK' <=> JournalOK
  BY <1>1, <1>2, <1>3, <1>5 DEF JournalOK
<1>9. CompletionIsFinal' <=> CompletionIsFinal
  BY <1>1, <1>3 DEF CompletionIsFinal
<1>10. ASSUME NEW o PROVE (RunLives(o)' <=> RunLives(o)) /\ (RunLogOK(o)' <=> RunLogOK(o))
  BY <1>2, <1>3, <1>4, <1>5 DEF RunLives, RunLogOK
<1>11. \A o : WaitLogOK(o)' <=> WaitLogOK(o)
  BY <1>2, <1>3 DEF WaitLogOK
<1>12. LogGrows
  BY <1>2, <1>3 DEF LogGrows
<1>13. LogStep
  BY <1>1, LogStutters DEF Published, Rows
<1> QED BY <1>3, <1>6, <1>7, <1>8, <1>9, <1>10, <1>11, <1>12, <1>13 DEF LogOK

\* An image somebody waits to write stays a good one.
LEMMA ImageKept ==
    ASSUME StoreOK, LogGrows, NEW o, WaitOK(o), Replayable => WaitLogOK(o)
    PROVE  Replayable' => WaitLogOK(o)'
<1> SUFFICES ASSUME Replayable', o.pc = "image", o.image.rev = Replayed'.rev, ~Open'
             PROVE  o.image.life = "completed"
  BY DEF WaitLogOK
<1>1. Replayable /\ WaitLogOK(o) /\ o.image.rev <= Replayed.rev
  BY DEF LogGrows, WaitOK
<1>2. o.image.rev \in Nat
  BY WaitingFields, TaskStateStoreAssumption DEF WaitOK, Projection
<1>3. Replayed' = Replayed
  BY <1>1, <1>2 DEF LogGrows
<1> QED BY <1>1, <1>3 DEF WaitLogOK, Open

\* A step of p keeps the log in order if it keeps what is written in order and
\* leaves p in order.
LEMMA LogMoved ==
    ASSUME StoreIInv, LogIInv, NEW p \in Process, NEW o,
           op' = [op EXCEPT ![p] = o],
           \/ lock' = lock
           \/ lock = p /\ lock' = None
           \/ lock = None /\ lock' = p,
           lock \in {p, None} \/ UNCHANGED Durable,
           LogGrows, RecordsOK', LogOK',
           IF lock' = p THEN RunLives(o)' /\ (Replayable' => RunLogOK(o)')
           ELSE Replayable' => WaitLogOK(o)'
    PROVE  LogIInv'
<1>1. None \notin Process
  BY NoneAssumption
<1>2. op \in [Process -> {Idle} \cup Waiting \cup Running]
  BY DEF StoreIInv, TypeOK
<1>3. op'[p] = o /\ \A q \in Process : q # p => op'[q] = op[q]
  BY <1>2
<1>4. ASSUME NEW q \in Process
      PROVE  (IF lock = q THEN RunLives(op[q]) /\ (Replayable => RunLogOK(op[q]))
              ELSE Replayable => WaitLogOK(op[q]))'
  <2>1. PICK u : u = op'[q]
    OBVIOUS
  <2>2. IF lock' = q THEN RunLives(u)' /\ (Replayable' => RunLogOK(u)')
        ELSE Replayable' => WaitLogOK(u)'
    <3>1. CASE q = p
      BY <1>3, <2>1, <3>1
    <3>2. CASE q # p /\ lock = q
      <4>1. lock' = q /\ UNCHANGED Durable /\ u = op[q]
        BY <1>1, <1>3, <2>1, <3>2
      <4>2. RunLives(u) /\ (Replayable => RunLogOK(u))
        BY <3>2, <4>1 DEF LogIInv, RunsLogOK
      <4> QED BY <4>1, <4>2, SameLog
    <3>3. CASE q # p /\ lock # q
      <4>1. lock' # q /\ u = op[q]
        BY <1>1, <1>3, <2>1, <3>3
      <4>2. WaitOK(u) /\ (Replayable => WaitLogOK(u))
        BY <3>3, <4>1 DEF LogIInv, RunsLogOK, StoreIInv, ProcessesOK
      <4>3. Replayable' => WaitLogOK(u)'
        BY <4>2, ImageKept DEF StoreIInv
      <4> QED BY <4>1, <4>3
    <3> QED BY <3>1, <3>2, <3>3
  <2> QED BY <2>1, <2>2 DEF RunLives, Lives, Sealed, RunLogOK, Underway, WaitLogOK
<1> QED BY <1>4 DEF LogIInv, RunsLogOK

\* The same for a step that leaves the durable state alone.
LEMMA LogQuiet ==
    ASSUME StoreIInv, LogIInv, NEW p \in Process, NEW o,
           op' = [op EXCEPT ![p] = o],
           \/ lock' = lock
           \/ lock = p /\ lock' = None
           \/ lock = None /\ lock' = p,
           UNCHANGED Durable,
           IF lock' = p THEN RunLives(o) /\ (Replayable => RunLogOK(o))
           ELSE Replayable => WaitLogOK(o)
    PROVE  LogIInv' /\ LogStep
<1>1. /\ LogGrows /\ LogStep /\ RecordsOK' /\ LogOK' /\ (Replayable' <=> Replayable)
      /\ (RunLives(o)' <=> RunLives(o)) /\ (RunLogOK(o)' <=> RunLogOK(o))
      /\ (WaitLogOK(o)' <=> WaitLogOK(o))
  BY SameLog DEF LogIInv
<1> QED BY <1>1, LogMoved

\* What waits, but not with an image, promises the log nothing.
LEMMA PlainLog ==
    ASSUME NEW o, o.pc # "image"
    PROVE  WaitLogOK(o)
BY DEF WaitLogOK

\* What runs between its prepared event and its committed one, or after the
\* projection, promises what its transaction does.
LEMMA BegunLog ==
    ASSUME NEW o, o.pc \notin {"authority", "prepare", "project"}
    PROVE  RunLogOK(o)
BY DEF RunLogOK

\* Who gives up keeps the log in order.
LEMMA LogLeaves ==
    ASSUME StoreIInv, LogIInv, NEW p \in Process, lock = p, UNCHANGED Durable,
           op[p].pc # "authority" \/ lock' # lock,
           NEW o, Leaves(p, o), Steady(p, o)
    PROVE  LogIInv' /\ LogStep
<1>1. op' = [op EXCEPT ![p] = o] /\ (lock' = lock \/ (lock = p /\ lock' = None))
  BY DEF Leaves
<1>2. p # None
  BY NoneAssumption
<1>3. CASE lock' = lock
  <2>1. o.tx = op[p].tx /\ o.pc = "rollback" /\ op[p].pc # "authority"
    BY <1>3 DEF Steady
  <2>2. RunLives(o)
    BY <2>1 DEF LogIInv, RunsLogOK, RunLives
  <2>3. RunLogOK(o)
    BY <2>1, BegunLog
  <2> QED BY <1>1, <1>2, <1>3, <2>2, <2>3, LogQuiet
<1>4. CASE lock' = None
  <2>1. WaitLogOK(o)
    BY PlainLog DEF Steady
  <2> QED BY <1>1, <1>2, <1>4, <2>1, LogQuiet
<1> QED BY <1>1, <1>3, <1>4

\* A caller who names a revision the check lets pass names the journal's.
LEMMA KnownIsCurrent ==
    ASSUME TypeOK, StoreOK, NEW known, known # None, NothingIncomplete(known)
    PROVE  projection.rev = Replayed.rev
<1>1. CommittedEvents = {} \/ projection = Replayed
  BY DEF NothingIncomplete
<1>2. CASE projection = Replayed
  BY <1>2
<1>3. CASE CommittedEvents = {}
  <2>1. Replayed.rev = 0 /\ Replayable
    BY <1>3 DEF StoreOK, HeadFollows, NewProjection, NothingIncomplete, Replayable
  <2>2. projection.rev \in Nat /\ projection.rev <= Replayed.rev
    BY <2>1, TaskStateStoreAssumption DEF StoreOK, HeadFollows, TypeOK, Projection
  <2> QED BY <2>1, <2>2
<1> QED BY <1>1, <1>2, <1>3

\* What begins at the journal's end finds the task open.
LEMMA BeginLog ==
    ASSUME StoreIInv, LogIInv, NEW p \in Process,
           NEW kind, NEW ent, NEW life, NEW commands, NEW first,
           life = "completed" <=> kind = "task_completion",
           kind = "contract_continuity" => first = "prepare" /\ op[p].known # None,
           kind = "task_completion" => op[p].known # None,
           kind # "contract_continuity" => first = "authority",
           Begin(p, kind, ent, life, commands, first)
    PROVE  LogIInv' /\ LogStep
<1>1. PICK known : known = op[p].known
  OBVIOUS
<1>2. PICK tx : tx = [id |-> NewId, kind |-> kind, prev |-> projection.rev,
                      ent |-> ent, life |-> life, commands |-> commands,
                      seen |-> files, authority |-> FALSE]
  OBVIOUS
<1>3. PICK o : o = Run("direct", first, tx, {}, known)
  OBVIOUS
<1>4. /\ op[p].pc = "ready" /\ lock = None /\ NothingIncomplete(known)
      /\ projection.life = "open"
      /\ lock' = p /\ op' = [op EXCEPT ![p] = o] /\ UNCHANGED Durable
  BY <1>1, <1>2, <1>3 DEF Begin, Durable
<1>5. TypeOK /\ StoreOK
  BY DEF StoreIInv
<1>6. o.pc = first /\ o.tx = tx
  BY <1>3 DEF Run
<1>7. tx.kind = kind /\ tx.life = life /\ tx.prev = projection.rev
  BY <1>2
<1>8. known # None => tx.prev = Replayed.rev
  BY <1>4, <1>5, <1>7, KnownIsCurrent
<1>9. Replayable /\ HeadOK
  BY <1>4 DEF NothingIncomplete, Replayable, LogIInv, LogOK
<1>10. tx.prev = Replayed.rev => Open
  BY <1>4, <1>7, <1>9 DEF HeadOK
<1>11. RunLives(o)
  BY <1>6, <1>7 DEF RunLives, Lives, Sealed
<1>12. RunLogOK(o)
  <2>1. CASE kind = "contract_continuity"
    <3>1. first = "prepare" /\ tx.prev = Replayed.rev /\ Open
      BY <1>1, <1>8, <1>10, <2>1
    <3>2. Underway(tx)
      BY <1>7, <1>9, <2>1, <3>1 DEF HeadOK, Underway, Target
    <3> QED BY <1>6, <3>1, <3>2 DEF RunLogOK
  <2>2. CASE kind # "contract_continuity"
    <3>1. kind = "task_completion" => tx.prev = Replayed.rev
      BY <1>1, <1>8
    <3> QED BY <1>6, <1>7, <1>10, <2>2, <3>1 DEF RunLogOK
  <2> QED BY <2>1, <2>2
<1> QED BY <1>4, <1>11, <1>12, LogQuiet

\* The five operations of a writer.
LEMMA WritersLog ==
    ASSUME StoreIInv, LogIInv, NEW p \in Process,
           \/ \E request \in EntityRequests : CommitEntity(p, request[1], request[2])
           \/ CommitActiveTaskBundle(p)
           \/ \E checkpointToo \in BOOLEAN : CommitContractContinuity(p, checkpointToo)
           \/ CompleteTaskState(p)
    PROVE  LogIInv' /\ LogStep
<1>1. ASSUME NEW request \in EntityRequests, CommitEntity(p, request[1], request[2])
      PROVE  LogIInv' /\ LogStep
  <2>1. PICK name, ent, commands :
            /\ name \in {"entity_clear", "entity_upsert"}
            /\ Begin(p, name, ent, "open", commands, "authority")
    BY <1>1 DEF CommitEntity
  <2> QED BY <2>1, BeginLog
<1>2. CASE CommitActiveTaskBundle(p)
  <2>1. PICK ent, commands :
            Begin(p, "active_task_bundle", ent, "open", commands, "authority")
    BY <1>2 DEF CommitActiveTaskBundle
  <2> QED BY <2>1, BeginLog
<1>3. ASSUME NEW checkpointToo \in BOOLEAN, CommitContractContinuity(p, checkpointToo)
      PROVE  LogIInv' /\ LogStep
  <2>1. PICK ent, commands :
            /\ op[p].known # None
            /\ Begin(p, "contract_continuity", ent, "open", commands, "prepare")
    BY <1>3 DEF CommitContractContinuity
  <2> QED BY <2>1, BeginLog
<1>4. CASE CompleteTaskState(p)
  <2>1. PICK ent, commands :
            /\ op[p].known # None
            /\ Begin(p, "task_completion", ent, "completed", commands, "authority")
    BY <1>4 DEF CompleteTaskState
  <2> QED BY <2>1, BeginLog
<1> QED BY <1>1, <1>2, <1>3, <1>4

\* The ends of a run: it fails, dies, is done, or is rolled back.
LEMMA EndsLog ==
    ASSUME StoreIInv, LogIInv, NEW p \in Process,
           Fail(p) \/ Crash(p) \/ CleanUp(p) \/ Rollback(p)
    PROVE  LogIInv' /\ LogStep
<1>1. TypeOK /\ StoreOK /\ lock = p /\ RunOK(op[p]) /\ UNCHANGED Durable
      /\ op \in [Process -> {Idle} \cup Waiting \cup Running]
  BY WhoRuns DEF Fail, Crash, CleanUp, Rollback, Holds, Durable
<1>2. WaitOK(Idle) /\ Idle.pc # "image"
  BY IdleWaits DEF Idle
<1>3. ASSUME NEW done \in BOOLEAN
      PROVE  WaitOK(Next_(p, done)) /\ Next_(p, done).pc # "image"
  BY <1>1, NextWaits
<1>4. ASSUME NEW o, WaitOK(o), o.pc # "image", Release(p, o)
      PROVE  LogIInv' /\ LogStep
  <2>1. Leaves(p, o) /\ Steady(p, o)
    BY <1>1, <1>4, ReleaseLeaves
  <2>2. lock' # lock
    BY <1>1, <1>4, NoneAssumption DEF Release
  <2> QED BY <1>1, <2>1, <2>2, LogLeaves
<1>5. CASE Crash(p)
  <2>1. Release(p, Idle)
    BY <1>5 DEF Crash
  <2> QED BY <1>2, <1>4, <2>1
<1>6. CASE CleanUp(p)
  <2>1. Release(p, Next_(p, TRUE))
    BY <1>6 DEF CleanUp
  <2> QED BY <1>3, <1>4, <2>1
<1>7. CASE Fail(p)
  <2>1. CASE op[p].pc = "authority"
    <3>1. Release(p, Idle)
      BY <1>7, <2>1 DEF Fail
    <3> QED BY <1>2, <1>4, <3>1
  <2>2. CASE op[p].pc # "authority"
    BY <1>1, <1>7, <2>2, FailLeaves, LogLeaves
  <2> QED BY <2>1, <2>2
<1>8. CASE Rollback(p)
  <2>1. PICK o, rest : o = op[p] /\ rest = Tail(op[p].undo)
    OBVIOUS
  <2>2. o.pc = "rollback" /\ o \in Running
    BY <1>1, <1>8, <2>1 DEF Rollback, Holds, RunOK
  <2>3. CASE rest = <<>>
    <3>1. Release(p, Next_(p, FALSE))
      BY <1>8, <2>1, <2>3 DEF Rollback
    <3> QED BY <1>3, <1>4, <3>1
  <2>4. CASE rest # <<>>
    <3>1. PICK n : n = [o EXCEPT !.undo = rest]
      OBVIOUS
    <3>2. op' = [op EXCEPT ![p] = n] /\ lock' = lock
      BY <1>8, <2>1, <2>4, <3>1 DEF Rollback
    <3>3. n.pc = "rollback" /\ n.tx = o.tx
      BY <2>2, <3>1 DEF Running
    <3>4. RunLives(n) /\ RunLogOK(n)
      BY <1>1, <2>1, <2>2, <3>3, BegunLog DEF LogIInv, RunsLogOK, RunLives
    <3> QED BY <1>1, <3>2, <3>4, LogQuiet
  <2> QED BY <2>3, <2>4
<1> QED BY <1>5, <1>6, <1>7, <1>8

\* Reading without the lock.  The image of a rebuild is the journal's.
LEMMA ReadersLog ==
    ASSUME StoreIInv, LogIInv, NEW p \in Process,
           Read(p) \/ GiveUp(p) \/ ReconcileRead(p) \/ OutboxRead(p) \/ RebuildRead(p)
    PROVE  LogIInv' /\ LogStep
<1>1. TypeOK /\ StoreOK /\ UNCHANGED Durable /\ lock' = lock
  BY WhoRuns DEF Read, GiveUp, ReconcileRead, OutboxRead, RebuildRead, Durable
<1>2. lock # p
  <2>1. CASE GiveUp(p)
    BY <2>1 DEF GiveUp
  <2>2. CASE ~GiveUp(p)
    <3>1. op[p] = Idle \/ op[p].pc \in {"outbox", "rebuild", "idle"}
      BY <2>2 DEF Read, ReconcileRead, OutboxRead, RebuildRead
    <3> QED BY <3>1, WhoRuns, RunningFields DEF Idle
  <2> QED BY <2>1, <2>2
<1>3. ASSUME NEW o, op' = [op EXCEPT ![p] = o], o.pc # "image"
      PROVE  LogIInv' /\ LogStep
  BY <1>1, <1>2, <1>3, PlainLog, LogQuiet
<1>4. CASE Read(p)
  <2>1. PICK known : op' = [op EXCEPT ![p] = [pc |-> "ready", known |-> known]]
    BY <1>4 DEF Read
  <2>2. PICK o : o = [pc |-> "ready", known |-> known]
    OBVIOUS
  <2>3. op' = [op EXCEPT ![p] = o] /\ o.pc # "image"
    BY <2>1, <2>2
  <2> QED BY <1>3, <2>3
<1>5. CASE GiveUp(p)
  <2>1. op' = [op EXCEPT ![p] = Idle] /\ Idle.pc # "image"
    BY <1>5 DEF GiveUp, Idle
  <2> QED BY <1>3, <2>1
<1>6. CASE ReconcileRead(p)
  <2>1. ASSUME NEW tx, op' = [op EXCEPT ![p] = [pc |-> "replay", tx |-> tx]]
        PROVE  LogIInv' /\ LogStep
    <3>1. PICK o : o = [pc |-> "replay", tx |-> tx]
      OBVIOUS
    <3>2. op' = [op EXCEPT ![p] = o] /\ o.pc # "image"
      BY <2>1, <3>1
    <3> QED BY <1>3, <3>2
  <2>2. CASE op' = [op EXCEPT ![p] = [pc |-> "outbox"]]
    <3>1. PICK o : o = [pc |-> "outbox"]
      OBVIOUS
    <3>2. op' = [op EXCEPT ![p] = o] /\ o.pc # "image"
      BY <2>2, <3>1
    <3> QED BY <1>3, <3>2
  <2> QED BY <1>6, <2>1, <2>2 DEF ReconcileRead
<1>7. CASE OutboxRead(p)
  <2>1. PICK o : o = IF PendingRows = {} THEN [pc |-> "rebuild"]
                     ELSE [pc |-> "row", todo |-> PendingRows]
    OBVIOUS
  <2>2. op' = [op EXCEPT ![p] = o] /\ o.pc # "image"
    BY <1>7, <2>1 DEF OutboxRead
  <2> QED BY <1>3, <2>2
<1>8. CASE RebuildRead(p)
  <2>1. PICK image : image = Replayed
    OBVIOUS
  <2>2. PICK o : o = IF Replayable /\ AuthorityAgrees /\ CommittedEvents # {}
                     THEN [pc |-> "image", image |-> image] ELSE Idle
    OBVIOUS
  <2>3. op' = [op EXCEPT ![p] = o]
    BY <1>8, <2>1, <2>2 DEF RebuildRead, Replayable
  <2>4. CASE o = Idle
    <3>1. o.pc # "image"
      BY <2>4 DEF Idle
    <3> QED BY <1>3, <2>3, <3>1
  <2>5. CASE Replayable /\ o = [pc |-> "image", image |-> image]
    <3>1. Replayed.life \in {"open", "completed"}
      BY <1>1, <2>5, RevisionOf DEF Projection
    <3>2. WaitLogOK(o)
      BY <2>1, <2>5, <3>1 DEF WaitLogOK, Open
    <3> QED BY <1>1, <1>2, <2>3, <3>2, LogQuiet
  <2> QED BY <2>2, <2>4, <2>5
<1> QED BY <1>4, <1>5, <1>6, <1>7, <1>8

\* A recovery takes the lock for a transaction that was written down.
LEMMA RecoveriesLog ==
    ASSUME StoreIInv, LogIInv, NEW p \in Process, ReplayBegin(p) \/ OutboxBegin(p)
    PROVE  LogIInv' /\ LogStep
<1>1. TypeOK /\ StoreOK /\ UNCHANGED Durable /\ lock = None /\ lock # p
  BY WhoRuns DEF ReplayBegin, OutboxBegin, Durable
<1>2. WaitOK(op[p]) /\ op[p] \in {Idle} \cup Waiting
  BY <1>1, WhoRuns
<1>3. ASSUME NEW o, op' = [op EXCEPT ![p] = o], lock' = lock, o.pc # "image"
      PROVE  LogIInv' /\ LogStep
  BY <1>1, <1>3, PlainLog, LogQuiet
<1>4. ASSUME NEW o, op' = [op EXCEPT ![p] = o], lock' = p, o.pc = "write", RunLives(o)
      PROVE  LogIInv' /\ LogStep
  BY <1>1, <1>4, BegunLog, LogQuiet
<1>5. CASE ReplayBegin(p)
  <2>1. PICK tx : tx = op[p].tx
    OBVIOUS
  <2>2. tx \in PreparedTx
    BY <1>2, <1>5, <2>1 DEF WaitOK, ReplayBegin
  <2>3. Lives(tx) /\ Sealed(tx)
    BY <1>1, <2>2, JournalSets DEF LogIInv, RecordsOK, Recorded, TypeOK
  <2>4. PICK o : o = Run("replay", "write", tx, {}, None)
    OBVIOUS
  <2>5. o.pc = "write" /\ RunLives(o)
    BY <2>3, <2>4 DEF Run, RunLives
  <2>6. CASE projection.rev = tx.prev
    <3>1. lock' = p /\ op' = [op EXCEPT ![p] = o]
      BY <1>5, <2>1, <2>4, <2>6 DEF ReplayBegin
    <3> QED BY <1>4, <2>5, <3>1
  <2>7. CASE projection.rev # tx.prev
    <3>1. PICK n : n = [pc |-> "rebuild"]
      OBVIOUS
    <3>2. lock' = lock /\ op' = [op EXCEPT ![p] = n] /\ n.pc # "image"
      BY <1>5, <2>1, <2>7, <3>1 DEF ReplayBegin
    <3> QED BY <1>3, <3>2
  <2> QED BY <2>6, <2>7
<1>6. CASE OutboxBegin(p)
  <2>1. PICK todo : todo = op[p].todo
    OBVIOUS
  <2>2. todo \in SUBSET (1 .. MaxRevision) /\ todo # {} /\ todo \subseteq Rows
    BY <1>2, <1>6, <2>1, WaitingFields DEF WaitOK, OutboxBegin
  <2>3. PICK r : r = Oldest(todo)
    OBVIOUS
  <2>4. r \in Rows
    BY <2>2, <2>3, OldestIs
  <2>5. PICK tx : tx = outbox[r].tx
    OBVIOUS
  <2>6. Target(tx) = r /\ Lives(tx)
    BY <1>1, <2>4, <2>5 DEF StoreOK, RowsOK, LogIInv, RecordsOK, Recorded
  <2>7. Sealed(tx)
    BY <2>4, <2>5, <2>6 DEF Sealed, Lives
  <2>8. PICK o : o = Run("outbox", "write", tx, todo, None)
    OBVIOUS
  <2>9. o.pc = "write" /\ RunLives(o)
    BY <2>6, <2>7, <2>8 DEF Run, RunLives
  <2>10. CASE projection.rev \in {r - 1, r}
    <3>1. lock' = p /\ op' = [op EXCEPT ![p] = o]
      BY <1>6, <2>1, <2>3, <2>5, <2>8, <2>10 DEF OutboxBegin
    <3> QED BY <1>4, <2>9, <3>1
  <2>11. CASE projection.rev \notin {r - 1, r}
    <3>1. PICK n : n = IF todo \ {r} = {} THEN [pc |-> "rebuild"]
                       ELSE [pc |-> "row", todo |-> todo \ {r}]
      OBVIOUS
    <3>2. lock' = lock /\ op' = [op EXCEPT ![p] = n] /\ n.pc # "image"
      BY <1>6, <2>1, <2>3, <2>11, <3>1 DEF OutboxBegin
    <3> QED BY <1>3, <3>2
  <2> QED BY <2>10, <2>11
<1> QED BY <1>5, <1>6

\* Files matter to the log only through the transactions that write them.
LEMMA WriteFileLog ==
    ASSUME StoreIInv, LogIInv, NEW p \in Process, WriteFile(p)
    PROVE  LogIInv' /\ LogStep
<1>1. PICK o : o = op[p]
  OBVIOUS
<1>2. /\ TypeOK /\ StoreOK /\ lock = p /\ UNCHANGED Durable
      /\ o.pc = "write" /\ RunOK(o) /\ o \in Running
      /\ op \in [Process -> {Idle} \cup Waiting \cup Running]
  BY <1>1, WhoRuns DEF WriteFile, Durable, Holds
<1>3. PICK after \in {"write", "bind", "commit"} :
        after = IF Tail(o.left) # <<>> THEN "write"
                ELSE IF o.tx.kind = "contract_continuity" /\ o.mode # "outbox"
                THEN "bind" ELSE "commit"
  OBVIOUS
<1>4. ASSUME NEW undo,
             op' = [op EXCEPT ![p] = [o EXCEPT !.pc = after, !.left = Tail(o.left),
                                               !.undo = undo]],
             lock' = lock
      PROVE  LogIInv' /\ LogStep
  <2>1. PICK n : n = [o EXCEPT !.pc = after, !.left = Tail(o.left), !.undo = undo]
    OBVIOUS
  <2>2. n.pc = after /\ n.tx = o.tx
    BY <1>2, <2>1 DEF Running
  <2>3. RunLives(n) /\ RunLogOK(n)
    BY <1>1, <1>2, <1>3, <2>2, BegunLog DEF LogIInv, RunsLogOK, RunLives
  <2> QED BY <1>2, <1>4, <2>1, <2>3, LogQuiet
<1>5. CASE \E n : Leaves(p, n) /\ Steady(p, n)
  BY <1>1, <1>2, <1>5, LogLeaves
<1>6. Unwind(p) => \E n : Leaves(p, n) /\ Steady(p, n)
  BY <1>1, <1>2, UnwindLeaves
<1>7. Release(p, Next_(p, FALSE)) => \E n : Leaves(p, n) /\ Steady(p, n)
  BY <1>1, <1>2, NextWaits, ReleaseLeaves
<1>8. PICK s : s = Head(o.left)
  OBVIOUS
<1>9. CASE op' = [op EXCEPT ![p].pc = after, ![p].left = Tail(o.left)] /\ lock' = lock
  <2>1. op' = [op EXCEPT ![p] = [o EXCEPT !.pc = after, !.left = Tail(o.left)]]
    BY <1>1, <1>2, <1>9
  <2>2. [o EXCEPT !.pc = after, !.left = Tail(o.left)]
            = [o EXCEPT !.pc = after, !.left = Tail(o.left), !.undo = o.undo]
    BY <1>2 DEF Running
  <2> QED BY <1>4, <1>9, <2>1, <2>2
<1>10. CASE /\ op' = [op EXCEPT ![p].pc = after, ![p].left = Tail(o.left),
                                ![p].undo = <<[slot |-> s, before |-> files[s]]>> \o @]
            /\ lock' = lock
  <2>1. PICK undo : undo = <<[slot |-> s, before |-> files[s]]>> \o o.undo
    OBVIOUS
  <2>2. op' = [op EXCEPT ![p] = [o EXCEPT !.pc = after, !.left = Tail(o.left),
                                          !.undo = undo]]
    BY <1>1, <1>2, <1>10, <2>1 DEF Running
  <2> QED BY <1>4, <1>10, <2>2
<1>11. \/ op' = [op EXCEPT ![p].pc = after, ![p].left = Tail(o.left)] /\ lock' = lock
       \/ /\ op' = [op EXCEPT ![p].pc = after, ![p].left = Tail(o.left),
                              ![p].undo = <<[slot |-> s, before |-> files[s]]>> \o @]
          /\ lock' = lock
       \/ Release(p, Next_(p, FALSE)) \/ Unwind(p)
  BY <1>1, <1>3, <1>8 DEF WriteFile
<1> QED BY <1>5, <1>6, <1>7, <1>9, <1>10, <1>11

\* Files, and a step that changes nothing at all, leave the log alone.
LEMMA NothingLog ==
    ASSUME StoreIInv, LogIInv, UNCHANGED Durable, op' = op, lock' = lock
    PROVE  LogIInv' /\ LogStep
<1>1. /\ LogStep /\ RecordsOK' /\ LogOK' /\ (Replayable' <=> Replayable)
      /\ \A o : (RunLives(o)' <=> RunLives(o)) /\ (RunLogOK(o)' <=> RunLogOK(o))
      /\ \A o : WaitLogOK(o)' <=> WaitLogOK(o)
  BY SameLog DEF LogIInv
<1>2. ASSUME NEW q \in Process
      PROVE  (IF lock = q THEN RunLives(op[q]) /\ (Replayable => RunLogOK(op[q]))
              ELSE Replayable => WaitLogOK(op[q]))'
  <2>1. PICK u : u = op[q]
    OBVIOUS
  <2>2. u = op'[q]
    BY <2>1
  <2>3. IF lock = q THEN RunLives(u) /\ (Replayable => RunLogOK(u))
        ELSE Replayable => WaitLogOK(u)
    BY <2>1 DEF LogIInv, RunsLogOK
  <2>4. IF lock' = q THEN RunLives(u)' /\ (Replayable' => RunLogOK(u)')
        ELSE Replayable' => WaitLogOK(u)'
    BY <1>1, <2>3
  <2> QED BY <2>2, <2>4 DEF RunLives, Lives, Sealed, RunLogOK, Underway, WaitLogOK
<1> QED BY <1>1, <1>2 DEF LogIInv, RunsLogOK

\* The projection matters to the log where it is that of the journal's end.
LEMMA OnlyProjection ==
    ASSUME StoreIInv, LogIInv, UNCHANGED <<journal, sql, outbox>>,
           Replayable /\ projection'.rev = Replayed.rev /\ ~Open
               => projection'.life = "completed"
    PROVE  /\ LogGrows /\ LogStep /\ RecordsOK' /\ LogOK'
           /\ (Replayable' <=> Replayable)
           /\ \A o : (RunLives(o)' <=> RunLives(o)) /\ (RunLogOK(o)' <=> RunLogOK(o))
<1>1. sql' = sql /\ outbox' = outbox /\ journal' = journal
  OBVIOUS
<1>2. /\ PreparedTx' = PreparedTx /\ Rows' = Rows /\ JournalTx' = JournalTx
      /\ Replayed' = Replayed /\ CommittedEvents' = CommittedEvents
  BY <1>1 DEF PreparedTx, Rows, JournalTx, Replayed, CommittedEvents
<1>3. (Replayable' <=> Replayable) /\ Recorded' = Recorded /\ (Open' <=> Open)
  BY <1>1, <1>2 DEF Replayable, Recorded, Open
<1>4. \A tx : (Sealed(tx)' <=> Sealed(tx)) /\ (Underway(tx)' <=> Underway(tx))
  BY <1>1, <1>2, <1>3 DEF Sealed, Underway
<1>5. RecordsOK'
  BY <1>2, <1>3, <1>4 DEF RecordsOK, LogIInv
<1>6. Replayable => HeadOK'
  BY <1>1, <1>2, <1>3 DEF HeadOK, LogIInv, LogOK
<1>7. JournalOK' <=> JournalOK
  BY <1>1, <1>2, <1>3, <1>4 DEF JournalOK
<1>8. CompletionIsFinal' <=> CompletionIsFinal
  BY <1>1, <1>3 DEF CompletionIsFinal
<1>9. \A o : (RunLives(o)' <=> RunLives(o)) /\ (RunLogOK(o)' <=> RunLogOK(o))
  BY <1>2, <1>3, <1>4 DEF RunLives, RunLogOK
<1>10. LogGrows
  BY <1>2, <1>3 DEF LogGrows
<1>11. LogStep
  BY <1>1, LogStutters DEF Published, Rows
<1> QED BY <1>3, <1>5, <1>6, <1>7, <1>8, <1>9, <1>10, <1>11 DEF LogOK, LogIInv

\* A rebuild writes an image of the journal, which may have grown since.
LEMMA RebuildWriteLog ==
    ASSUME StoreIInv, LogIInv, NEW p \in Process, RebuildWrite(p)
    PROVE  LogIInv' /\ LogStep
<1>1. /\ lock = None /\ lock' = lock /\ op[p].pc = "image"
      /\ op' = [op EXCEPT ![p] = Idle] /\ projection' = op[p].image
      /\ UNCHANGED <<journal, sql, outbox>>
  BY DEF RebuildWrite
<1>2. lock # p
  BY <1>1, WhoRuns
<1>3. Replayable => WaitLogOK(op[p])
  BY <1>2 DEF LogIInv, RunsLogOK
<1>4. LogGrows /\ LogStep /\ RecordsOK' /\ LogOK'
  BY <1>1, <1>3, OnlyProjection DEF WaitLogOK
<1>5. WaitLogOK(Idle)'
  BY DEF WaitLogOK, Idle
<1> QED BY <1>1, <1>2, <1>4, <1>5, LogMoved

\* The projection of a completed task is completed.
LEMMA ProjectLog ==
    ASSUME StoreIInv, LogIInv, NEW p \in Process, Project(p)
    PROVE  LogIInv' /\ LogStep
<1>1. PICK o : o = op[p]
  OBVIOUS
<1>2. /\ TypeOK /\ StoreOK /\ lock = p /\ o.pc = "project" /\ RunOK(o) /\ o \in Running
      /\ op \in [Process -> {Idle} \cup Waiting \cup Running]
      /\ UNCHANGED <<journal, sql, outbox, lock>>
  BY <1>1, WhoRuns DEF Project, Holds
<1>3. o.tx \in Transaction /\ Whole(p) \in BOOLEAN /\ projection \in Projection
  BY <1>2, RunningFields DEF Whole, Entity, TypeOK
<1>4. projection' = Projected(projection, o.tx, Whole(p))
  BY <1>1 DEF Project
<1>5. /\ projection'.rev = Target(o.tx)
      /\ projection'.life = IF Whole(p) THEN o.tx.life ELSE projection.life
  BY <1>3, <1>4, ProjectedIs
<1>6. RunLives(o) /\ (Replayable => RunLogOK(o))
  BY <1>1, <1>2 DEF LogIInv, RunsLogOK
<1>7. ASSUME Replayable, projection'.rev = Replayed.rev, ~Open
      PROVE  projection'.life = "completed"
  <2>1. o.tx.life = "completed"
    BY <1>2, <1>5, <1>6, <1>7 DEF RunLogOK
  <2>2. o.tx.kind = "task_completion"
    BY <1>6, <2>1 DEF RunLives, Lives
  <2>3. Whole(p)
    BY <1>1, <2>2 DEF Whole, Entity
  <2> QED BY <1>5, <2>1, <2>3
<1>8. PICK pc : pc = IF o.tx.authority THEN "deliver" ELSE "clean"
  OBVIOUS
<1>9. PICK n : n = [o EXCEPT !.pc = pc]
  OBVIOUS
<1>10. op' = [op EXCEPT ![p] = n] /\ n.pc = pc /\ n.tx = o.tx
  BY <1>1, <1>2, <1>8, <1>9 DEF Project, Step, Running
<1>11. RunLives(n)
  BY <1>6, <1>8, <1>10, <1>2 DEF RunLives
<1>12. RunLogOK(n)
  BY <1>8, <1>10, BegunLog
<1>13. /\ LogGrows /\ LogStep /\ RecordsOK' /\ LogOK'
       /\ RunLives(n)' /\ (Replayable' => RunLogOK(n)')
  BY <1>2, <1>7, <1>11, <1>12, OnlyProjection
<1> QED BY <1>2, <1>10, <1>13, LogMoved

----------------------------------------------------------------------------
(* The authority and the log. *)

\* A log that no longer replays promises nothing.
LEMMA BrokenLog ==
    ASSUME ~Replayable'
    PROVE  LogStep
BY DEF LogStep, Log!LogNext

\* What was prepared at the journal's end has no committed event.
LEMMA EarlierIsIncomplete ==
    ASSUME TypeOK, StoreOK, Replayable, NEW t \in PreparedTx, t.prev = Replayed.rev
    PROVE  t \in Incomplete
<1>1. journal \in Seq(Event)
  BY DEF TypeOK
<1>2. t \in JournalTx /\ t \in Transaction
  BY <1>1, JournalSets
<1>3. SUFFICES ASSUME NEW e \in CommittedEvents, e.id = t.id PROVE FALSE
  BY <1>1, JournalSets
<1>4. e.tx \in JournalTx /\ e.tx \in Transaction
  BY <1>1, JournalSets
<1>5. t.id # 0
  BY <1>2, TransactionFields
<1>6. e.tx.id = t.id
  BY <1>3, <1>5 DEF StoreOK, IdsOK
<1>7. Core(e.tx) = Core(t)
  BY <1>2, <1>4, <1>6 DEF StoreOK, IdsOK, Recorded
<1>8. Target(e.tx) = Target(t)
  BY <1>2, <1>4, <1>7, CoreFields
<1>9. Target(t) = Replayed.rev + 1 /\ Replayed.rev \in Nat
  BY <1>2, TransactionFields, RevisionOf
<1>10. Target(e.tx) <= Replayed.rev
  BY DEF StoreOK, HeadFollows
<1> QED BY <1>8, <1>9, <1>10

\* A task is imported at the journal's end.
LEMMA ImportLog ==
    ASSUME StoreIInv, LogIInv, NEW p \in Process, lock = p,
           op[p].pc \in {"authority", "bind"},
           op[p].pc = "authority" => op[p].tx.kind = "task_completion",
           Import(op[p].tx),
           UNCHANGED <<journal, projection, files, op, lock, faults>>
    PROVE  LogIInv' /\ LogStep
<1>1. PICK o : o = op[p]
  OBVIOUS
<1>2. TypeOK /\ StoreOK /\ RunOK(o) /\ o \in Running /\ o.tx \in Transaction
      /\ op \in [Process -> {Idle} \cup Waiting \cup Running]
  BY <1>1, WhoRuns, RunningFields
<1>3. sql = None /\ sql' = o.tx.prev /\ outbox' = outbox
  BY <1>1 DEF Import
<1>4. o.tx.prev \in Nat /\ o.tx.prev # None
  BY <1>2, TransactionFields, NoneAssumption
<1>5. /\ PreparedTx' = PreparedTx /\ Rows' = Rows /\ JournalTx' = JournalTx
      /\ Replayed' = Replayed /\ CommittedEvents' = CommittedEvents
      /\ Published' = Published
  BY <1>3 DEF PreparedTx, Rows, JournalTx, Replayed, CommittedEvents, Published
<1>6. (Replayable' <=> Replayable) /\ Recorded' = Recorded /\ (Open' <=> Open)
  BY <1>3, <1>5 DEF Replayable, Recorded, Open
<1>7. \A tx : Sealed(tx)' <=> Sealed(tx)
  BY <1>3, <1>5 DEF Sealed
<1>8. RecordsOK'
  BY <1>5, <1>6, <1>7 DEF RecordsOK, LogIInv
<1>9. RunLives(o) /\ (Replayable => RunLogOK(o))
  BY <1>1 DEF LogIInv, RunsLogOK
<1>10. ASSUME Replayable
       PROVE  /\ o.tx.prev = Replayed.rev
              /\ \A t \in PreparedTx : t.prev = Replayed.rev =>
                    t.kind = "contract_continuity"
  <2>1. HeadOK /\ JournalOK
    BY <1>10 DEF LogIInv, LogOK
  <2>2. CASE o.pc = "authority"
    <3>1. o.tx.prev = Replayed.rev
      BY <1>1, <1>9, <1>10, <2>2 DEF RunLogOK
    <3>2. Incomplete = {}
      BY <1>2, <2>2 DEF RunOK, Beginning
    <3> QED BY <1>2, <1>10, <3>1, <3>2, EarlierIsIncomplete
  <2>3. CASE o.pc = "bind"
    <3>1. o.tx.kind = "contract_continuity" /\ \E u \in PreparedTx : Core(u) = Core(o.tx)
      BY <1>2, <2>3 DEF RunOK, Begun
    <3>2. PICK u \in PreparedTx : Core(u) = Core(o.tx)
      BY <3>1
    <3>3. u \in Transaction
      BY <1>2, JournalSets DEF TypeOK
    <3>4. u.kind = "contract_continuity" /\ u.prev = o.tx.prev
      BY <1>2, <3>1, <3>2, <3>3, CoreFields
    <3>5. u.prev = Replayed.rev
      BY <1>3, <2>1, <3>4 DEF JournalOK
    <3>6. \A t \in PreparedTx : t.prev = Replayed.rev => t = u
      BY <1>2, <1>10, <3>5, EarlierIsIncomplete DEF StoreOK, AtMostOneIncomplete
    <3> QED BY <3>4, <3>5, <3>6
  <2> QED BY <1>1, <2>2, <2>3
<1>11. ASSUME Replayable PROVE HeadOK' /\ JournalOK' /\ CompletionIsFinal'
  <2>1. HeadOK /\ JournalOK /\ CompletionIsFinal /\ Open
    BY <1>3, <1>11 DEF LogIInv, LogOK, HeadOK
  <2>2. HeadOK'
    BY <1>3, <1>5, <1>6, <1>10, <1>11, <2>1 DEF HeadOK
  <2>3. JournalOK'
    <3>1. ASSUME NEW t \in PreparedTx PROVE Underway(t)'
      BY <1>3, <1>5, <1>6, <1>10, <1>11, <2>1 DEF Underway
    <3> QED BY <1>3, <1>4, <1>5, <1>6, <2>1, <3>1 DEF JournalOK
  <2>4. CompletionIsFinal'
    BY <1>6, <2>1 DEF CompletionIsFinal
  <2> QED BY <2>2, <2>3, <2>4
<1>12. LogOK' /\ LogGrows
  BY <1>5, <1>6, <1>11 DEF LogOK, LogGrows
<1>13. RunLives(o)' /\ (Replayable' => RunLogOK(o)')
  <2>1. RunLives(o)'
    BY <1>7, <1>9 DEF RunLives
  <2>2. o.pc \notin {"prepare", "project"}
    BY <1>1
  <2> QED BY <1>5, <1>6, <1>9, <2>1, <2>2 DEF RunLogOK
<1>14. op' = [op EXCEPT ![p] = o]
  BY <1>1, <1>2
<1>15. LogIInv'
  BY <1>8, <1>12, <1>13, <1>14, LogMoved
<1>16. LogStep
  <2>1. CASE ~Replayable
    BY <1>6, <2>1, BrokenLog
  <2>2. CASE Replayable
    <3>1. Log!Register
      BY <1>3, <1>5, <1>10, <2>2 DEF Log!Register
    <3> QED BY <1>6, <2>2, <3>1 DEF LogStep, Log!LogNext
  <2> QED BY <2>1, <2>2
<1> QED BY <1>15, <1>16

\* The head moves one revision past the journal's end, and the task is open.
LEMMA ApplyLog ==
    ASSUME StoreIInv, LogIInv, NEW p \in Process, lock = p,
           NEW pc, \/ op[p].pc = "authority" /\ pc = "prepare"
                   \/ op[p].pc = "bind" /\ pc = "commit",
           Apply(op[p].tx),
           op' = [op EXCEPT ![p].pc = pc, ![p].tx.authority = TRUE],
           UNCHANGED <<journal, projection, files, lock, faults>>
    PROVE  LogIInv' /\ LogStep
<1>1. PICK o : o = op[p]
  OBVIOUS
<1>2. TypeOK /\ StoreOK /\ RunOK(o) /\ o \in Running /\ o.tx \in Transaction
      /\ op \in [Process -> {Idle} \cup Waiting \cup Running]
  BY <1>1, WhoRuns, RunningFields
<1>3. PICK tx : tx = Core(o.tx)
  OBVIOUS
<1>4. tx \in Transaction /\ tx.kind = o.tx.kind /\ tx.prev = o.tx.prev
      /\ tx.life = o.tx.life /\ Target(tx) = Target(o.tx)
  BY <1>2, <1>3, CoreFields
<1>5. PICK r : r = Target(tx)
  OBVIOUS
<1>6. tx.prev \in Nat /\ r = tx.prev + 1 /\ r \in Nat /\ r \in 1 .. MaxRevision
  BY <1>4, <1>5, TransactionFields
<1>7. PICK row : row = [status |-> "pending", tx |-> tx]
  OBVIOUS
<1>8. row \in Row /\ row # None /\ row.status = "pending" /\ row.tx = tx
  BY <1>4, <1>7, NoneAssumption DEF Row
<1>9. sql = tx.prev /\ sql' = r /\ outbox' = [outbox EXCEPT ![r] = row]
  BY <1>1, <1>3, <1>4, <1>5, <1>7 DEF Apply, Core
<1>10. outbox \in [1 .. MaxRevision -> Row \cup {None}]
  BY <1>2 DEF TypeOK
<1>11. /\ outbox'[r] = row /\ r \notin Rows
       /\ \A s \in 1 .. MaxRevision : s # r => outbox'[s] = outbox[s]
  <2>1. \A s \in Rows : s <= sql
    BY <1>2 DEF StoreOK, RowsOK
  <2> QED BY <1>6, <1>9, <1>10, <2>1
<1>12. Rows' = Rows \cup {r} /\ \A s \in Rows : outbox'[s] = outbox[s]
  BY <1>6, <1>8, <1>11 DEF Rows
<1>13. sql # None /\ sql' # None /\ sql \in Nat /\ sql' = sql + 1
  BY <1>6, <1>9, NoneAssumption
<1>14. /\ PreparedTx' = PreparedTx /\ JournalTx' = JournalTx
       /\ Replayed' = Replayed /\ CommittedEvents' = CommittedEvents
       /\ (Replayable' <=> Replayable) /\ (Open' <=> Open)
  BY DEF PreparedTx, JournalTx, Replayed, CommittedEvents, Replayable, Open
<1>15. Recorded' = Recorded \cup {tx}
  BY <1>8, <1>11, <1>12, <1>14 DEF Recorded
<1>16. Published' = Published
  BY <1>8, <1>11, <1>12 DEF Published
<1>17. RunLives(o) /\ (Replayable => RunLogOK(o))
  BY <1>1 DEF LogIInv, RunsLogOK
<1>18. Lives(tx)
  BY <1>4, <1>17 DEF RunLives, Lives
<1>19. ASSUME NEW t, Sealed(t) PROVE Sealed(t)'
  BY <1>12, <1>19 DEF Sealed
<1>20. RecordsOK'
  BY <1>14, <1>15, <1>18, <1>19 DEF RecordsOK, LogIInv
<1>21. ASSUME Replayable
       PROVE  /\ HeadOK /\ JournalOK /\ CompletionIsFinal
              /\ Replayed.rev \in Nat /\ sql = Replayed.rev /\ Open
  <2>1. HeadOK /\ JournalOK /\ CompletionIsFinal
    BY <1>21 DEF LogIInv, LogOK
  <2>2. Replayed.rev \in Nat /\ o.tx.prev <= Replayed.rev
    BY <1>2, <1>21, RevisionOf DEF RunOK
  <2>3. sql = Replayed.rev
    BY <1>4, <1>6, <1>9, <1>13, <2>1, <2>2 DEF HeadOK
  <2>4. CASE o.pc = "authority"
    <3>1. Open
      BY <1>4, <1>9, <1>17, <1>21, <2>3, <2>4 DEF RunLogOK
    <3> QED BY <2>1, <2>2, <2>3, <3>1
  <2>5. CASE o.pc = "bind"
    <3>1. \E u \in PreparedTx : Core(u) = Core(o.tx)
      BY <1>2, <2>5 DEF RunOK, Begun
    <3>2. PICK u \in PreparedTx : Core(u) = Core(o.tx)
      BY <3>1
    <3>3. u \in Transaction
      BY <1>2, JournalSets DEF TypeOK
    <3>4. u.prev = o.tx.prev
      BY <1>2, <3>2, <3>3, CoreFields
    <3>5. Open
      BY <1>4, <1>9, <2>1, <2>3, <3>4 DEF JournalOK, Underway
    <3> QED BY <2>1, <2>2, <2>3, <3>5
  <2> QED BY <1>1, <2>4, <2>5
<1>22. ASSUME Replayable PROVE HeadOK' /\ JournalOK' /\ CompletionIsFinal'
  <2>1. HeadOK'
    <3>1. \A s \in Rows' : outbox'[s].status # "pending" => s <= Replayed.rev
      BY <1>8, <1>11, <1>12, <1>21, <1>22 DEF HeadOK
    <3> QED BY <1>13, <1>14, <1>21, <1>22, <3>1 DEF HeadOK
  <2>2. JournalOK'
    <3>1. ASSUME NEW t \in PreparedTx PROVE Underway(t)'
      BY <1>13, <1>14, <1>21, <1>22 DEF Underway, Target
    <3> QED BY <1>13, <1>14, <1>21, <1>22, <3>1 DEF JournalOK
  <2>3. CompletionIsFinal'
    BY <1>14, <1>21, <1>22 DEF CompletionIsFinal
  <2> QED BY <2>1, <2>2, <2>3
<1>23. LogOK' /\ LogGrows
  BY <1>14, <1>22 DEF LogOK, LogGrows
<1>24. PICK n : n = [o EXCEPT !.pc = pc, !.tx = tx]
  OBVIOUS
<1>25. op' = [op EXCEPT ![p] = n]
  BY <1>1, <1>2, <1>3, <1>24, Zenon DEF Core
<1>26. n.pc = pc /\ n.tx = tx
  BY <1>2, <1>24 DEF Running
<1>27. RunLives(n)'
  <2>1. Sealed(tx)'
    BY <1>5, <1>8, <1>11, <1>12, <1>18 DEF Sealed, Lives, Target
  <2> QED BY <1>18, <1>26, <2>1 DEF RunLives, Lives
<1>28. Replayable' => RunLogOK(n)'
  <2>1. CASE pc = "commit"
    BY <1>26, <2>1 DEF RunLogOK
  <2>2. CASE o.pc = "authority" /\ pc = "prepare"
    <3>1. tx.kind # "contract_continuity"
      BY <1>2, <1>4, <2>2 DEF RunOK, Beginning
    <3>2. Replayable => Underway(tx)'
      BY <1>5, <1>9, <1>14, <1>21 DEF Underway, Target
    <3> QED BY <1>14, <1>21, <1>26, <2>2, <3>1, <3>2 DEF RunLogOK, Underway
  <2> QED BY <1>1, <2>1, <2>2
<1>29. LogIInv'
  BY <1>20, <1>23, <1>25, <1>27, <1>28, LogMoved
<1>30. LogStep
  <2>1. CASE ~Replayable
    BY <1>14, <2>1, BrokenLog
  <2>2. CASE Replayable
    <3>1. Log!Accept
      BY <1>13, <1>14, <1>16, <1>21, <2>2 DEF Log!Accept, Open
    <3> QED BY <1>14, <2>2, <3>1 DEF LogStep, Log!LogNext
  <2> QED BY <2>1, <2>2
<1> QED BY <1>29, <1>30

\* The authority's step: entities and bundles go on without one only while the
\* task is open.
LEMMA AuthorityLog ==
    ASSUME StoreIInv, LogIInv, NEW p \in Process, Authority(p)
    PROVE  LogIInv' /\ LogStep
<1>1. PICK o : o = op[p]
  OBVIOUS
<1>2. /\ TypeOK /\ StoreOK /\ lock = p /\ o.pc = "authority" /\ RunOK(o) /\ o \in Running
      /\ op \in [Process -> {Idle} \cup Waiting \cup Running]
      /\ UNCHANGED <<journal, projection, files, faults>>
  BY <1>1, WhoRuns DEF Authority, Holds
<1>3. CASE o.tx.kind = "task_completion" /\ Import(o.tx) /\ UNCHANGED <<op, lock>>
  BY <1>1, <1>2, <1>3, ImportLog
<1>4. CASE /\ Apply(o.tx)
           /\ op' = [op EXCEPT ![p].pc = "prepare", ![p].tx.authority = TRUE]
           /\ UNCHANGED lock
  BY <1>1, <1>2, <1>4, ApplyLog
<1>5. CASE Release(p, Idle) /\ UNCHANGED <<sql, outbox>>
  <2>1. Leaves(p, Idle) /\ Steady(p, Idle)
    BY <1>2, <1>5, IdleWaits, ReleaseLeaves DEF Idle
  <2>2. lock' # lock
    BY <1>2, <1>5, NoneAssumption DEF Release
  <2> QED BY <1>2, <1>5, <2>1, <2>2, LogLeaves DEF Durable
<1>6. CASE /\ o.tx.kind # "task_completion" /\ sql = None
           /\ Step(p, "prepare") /\ UNCHANGED <<sql, outbox, lock>>
  <2>1. PICK n : n = [o EXCEPT !.pc = "prepare"]
    OBVIOUS
  <2>2. op' = [op EXCEPT ![p] = n] /\ n.pc = "prepare" /\ n.tx = o.tx
    BY <1>1, <1>2, <1>6, <2>1 DEF Step, Running
  <2>3. RunLives(n)
    BY <1>1, <1>2, <1>6, <2>2 DEF LogIInv, RunsLogOK, RunLives, Sealed
  <2>4. ASSUME Replayable PROVE RunLogOK(n)
    <3>1. Open
      BY <1>6, <2>4 DEF LogIInv, LogOK, HeadOK
    <3>2. o.tx.kind # "contract_continuity"
      BY <1>2 DEF RunOK, Beginning
    <3> QED BY <1>6, <2>2, <3>1, <3>2 DEF RunLogOK, Underway
  <2> QED BY <1>2, <1>6, <2>2, <2>3, <2>4, LogQuiet DEF Durable
<1> QED
  <2>1. \/ /\ o.tx.kind # "task_completion" /\ sql = None
           /\ Step(p, "prepare") /\ UNCHANGED <<sql, outbox, lock>>
        \/ o.tx.kind = "task_completion" /\ Import(o.tx) /\ UNCHANGED <<op, lock>>
        \/ /\ Apply(o.tx)
           /\ op' = [op EXCEPT ![p].pc = "prepare", ![p].tx.authority = TRUE]
           /\ UNCHANGED lock
        \/ Release(p, Idle) /\ UNCHANGED <<sql, outbox>>
    BY <1>1 DEF Authority
  <2> QED BY <1>3, <1>4, <1>5, <1>6, <2>1

\* The authority's step of a continuity.
LEMMA BindLog ==
    ASSUME StoreIInv, LogIInv, NEW p \in Process, Bind(p)
    PROVE  LogIInv' /\ LogStep
<1>1. PICK o : o = op[p]
  OBVIOUS
<1>2. /\ TypeOK /\ StoreOK /\ lock = p /\ o.pc = "bind" /\ RunOK(o) /\ o \in Running
      /\ op \in [Process -> {Idle} \cup Waiting \cup Running]
      /\ UNCHANGED <<journal, projection, files, faults>>
  BY <1>1, WhoRuns DEF Bind, Holds
<1>3. CASE Import(o.tx) /\ UNCHANGED <<op, lock>>
  BY <1>1, <1>2, <1>3, ImportLog
<1>4. CASE /\ Apply(o.tx)
           /\ op' = [op EXCEPT ![p].pc = "commit", ![p].tx.authority = TRUE]
           /\ UNCHANGED lock
  BY <1>1, <1>2, <1>4, ApplyLog
<1>5. CASE Unwind(p) /\ UNCHANGED <<sql, outbox>>
  <2>1. \E n : Leaves(p, n) /\ Steady(p, n)
    BY <1>1, <1>2, <1>5, UnwindLeaves
  <2> QED BY <1>1, <1>2, <1>5, <2>1, LogLeaves DEF Durable
<1>6. CASE /\ op' = [op EXCEPT ![p].pc = "commit", ![p].tx.authority = TRUE]
           /\ UNCHANGED <<sql, outbox, lock>>
  <2>1. PICK tx : tx = Core(o.tx)
    OBVIOUS
  <2>2. o.tx \in Transaction
    BY <1>2, RunningFields
  <2>3. tx.kind = o.tx.kind /\ tx.life = o.tx.life /\ Target(tx) = Target(o.tx)
    BY <2>1, <2>2, CoreFields
  <2>4. PICK n : n = [o EXCEPT !.pc = "commit", !.tx = tx]
    OBVIOUS
  <2>5. op' = [op EXCEPT ![p] = n]
    BY <1>1, <1>2, <1>6, <2>1, <2>4, Zenon DEF Core
  <2>6. n.pc = "commit" /\ n.tx = tx
    BY <1>2, <2>4 DEF Running
  <2>7. RunLives(n)
    BY <1>1, <1>2, <2>3, <2>6 DEF LogIInv, RunsLogOK, RunLives, Lives, Sealed
  <2>8. RunLogOK(n)
    BY <2>6, BegunLog
  <2> QED BY <1>2, <1>6, <2>5, <2>7, <2>8, LogQuiet DEF Durable
<1> QED
  <2>1. \/ Import(o.tx) /\ UNCHANGED <<op, lock>>
        \/ /\ Apply(o.tx)
           /\ op' = [op EXCEPT ![p].pc = "commit", ![p].tx.authority = TRUE]
           /\ UNCHANGED lock
        \/ /\ op' = [op EXCEPT ![p].pc = "commit", ![p].tx.authority = TRUE]
           /\ UNCHANGED <<sql, outbox, lock>>
        \/ Unwind(p) /\ UNCHANGED <<sql, outbox>>
    BY <1>1 DEF Bind
  <2> QED BY <1>3, <1>4, <1>5, <1>6, <2>1

----------------------------------------------------------------------------
(* The journal and the log. *)

\* In an open task no completion is followed by anything, for there is none.
LEMMA NoneCompleted ==
    ASSUME TypeOK, JournalOK, Open, NEW e \in Event, journal' = Append(journal, e)
    PROVE  CompletionIsFinal'
<1>1. PICK m \in Nat : m = Len(journal)
  BY DEF TypeOK
<1>2. Len(journal') = m + 1 /\ \A n \in 1 .. m : journal'[n] = journal[n]
  BY <1>1 DEF TypeOK
<1>3. ASSUME NEW i \in 1 .. Len(journal'), NEW j \in 1 .. Len(journal'), i < j,
             journal'[i].phase = "committed", journal'[i].tx.kind = "task_completion"
      PROVE  FALSE
  <2>1. i \in 1 .. m
    BY <1>2, <1>3
  <2>2. journal'[i] \in CommittedEvents
    BY <1>1, <1>2, <1>3, <2>1 DEF CommittedEvents
  <2> QED BY <1>3, <2>2 DEF JournalOK
<1> QED BY <1>3 DEF CompletionIsFinal

\* A prepared event leaves the log alone, and is of an open task.
LEMMA PrepareLog ==
    ASSUME StoreIInv, LogIInv, NEW p \in Process, Prepare(p)
    PROVE  LogIInv' /\ LogStep
<1>1. PICK o : o = op[p]
  OBVIOUS
<1>2. /\ TypeOK /\ StoreOK /\ lock = p /\ o.pc = "prepare" /\ RunOK(o) /\ o \in Running
      /\ op \in [Process -> {Idle} \cup Waiting \cup Running]
      /\ UNCHANGED <<projection, files, sql, outbox, lock, faults>>
  BY <1>1, WhoRuns DEF Prepare, Holds
<1>3. PICK tx : tx = o.tx
  OBVIOUS
<1>4. tx \in Transaction
  BY <1>2, <1>3, RunningFields
<1>5. PICK e : e = [phase |-> "prepared", tx |-> tx]
  OBVIOUS
<1>6. e \in Event /\ e.phase = "prepared" /\ e.tx = tx /\ journal' = Append(journal, e)
  BY <1>1, <1>3, <1>4, <1>5 DEF Event, Prepare
<1>7. /\ Replayed' = Replayed /\ JournalTx' = JournalTx \cup {tx}
      /\ CommittedEvents' = CommittedEvents /\ PreparedTx' = PreparedTx \cup {tx}
  BY <1>2, <1>6, JournalGrows DEF TypeOK, Extended
<1>8. /\ Rows' = Rows /\ (Replayable' <=> Replayable) /\ (Open' <=> Open)
      /\ Recorded' = Recorded \cup {tx} /\ Published' = Published
      /\ sql' = sql /\ outbox' = outbox /\ projection' = projection
  BY <1>2, <1>7 DEF Rows, Replayable, Open, Recorded, Published
<1>9. \A t : (Sealed(t)' <=> Sealed(t)) /\ (Underway(t)' <=> Underway(t))
  BY <1>7, <1>8 DEF Sealed, Underway
<1>10. RunLives(o) /\ (Replayable => RunLogOK(o))
  BY <1>1, <1>2 DEF LogIInv, RunsLogOK
<1>11. Lives(tx) /\ Sealed(tx)
  BY <1>2, <1>3, <1>10 DEF RunLives
<1>12. RecordsOK'
  BY <1>7, <1>8, <1>9, <1>11 DEF RecordsOK, LogIInv, Lives
<1>13. ASSUME Replayable PROVE HeadOK' /\ JournalOK' /\ CompletionIsFinal'
  <2>1. HeadOK /\ JournalOK
    BY <1>13 DEF LogIInv, LogOK
  <2>2. Underway(tx) /\ Open /\ tx.prev <= Replayed.rev
        /\ (tx.kind = "contract_continuity" => tx.prev = Replayed.rev)
    BY <1>2, <1>3, <1>10, <1>13 DEF RunLogOK, RunOK
  <2>3. HeadOK'
    BY <1>7, <1>8, <2>1 DEF HeadOK
  <2>4. JournalOK'
    BY <1>7, <1>8, <1>9, <2>1, <2>2 DEF JournalOK
  <2>5. CompletionIsFinal'
    BY <1>2, <1>6, <2>1, <2>2, NoneCompleted
  <2> QED BY <2>3, <2>4, <2>5
<1>14. LogOK' /\ LogGrows
  BY <1>7, <1>8, <1>13 DEF LogOK, LogGrows
<1>15. PICK n : n = [o EXCEPT !.pc = "write"]
  OBVIOUS
<1>16. op' = [op EXCEPT ![p] = n]
  BY <1>1, <1>2, <1>15 DEF Prepare, Step
<1>17. n.pc = "write" /\ n.tx = tx
  BY <1>2, <1>3, <1>15 DEF Running
<1>18. RunLives(n)' /\ RunLogOK(n)'
  BY <1>9, <1>11, <1>17 DEF RunLives, Lives, RunLogOK
<1>19. LogIInv'
  BY <1>2, <1>12, <1>14, <1>16, <1>18, LogMoved
<1>20. LogStep
  <2>1. UNCHANGED Log!logVars
    BY <1>7, <1>8 DEF Log!logVars, Published
  <2> QED BY <2>1 DEF LogStep
<1> QED BY <1>19, <1>20

\* What is committed is what the head allows at the end of an open journal.
LEMMA CommitAllowed ==
    ASSUME StoreIInv, LogIInv, Replayable, NEW o, RunOK(o), RunLives(o),
           o.pc = "commit", o.tx.prev = Replayed.rev
    PROVE  /\ Open
           /\ sql \in {None, Target(o.tx)}
           /\ sql = None => \A t \in PreparedTx : t.kind # "contract_continuity"
           /\ o.tx.life = "completed" =>
                /\ sql # None
                /\ Target(o.tx) \in Rows /\ outbox[Target(o.tx)].tx.life = "completed"
<1>1. TypeOK /\ StoreOK /\ HeadOK /\ JournalOK
  BY DEF StoreIInv, LogIInv, LogOK
<1>2. o \in Running /\ o.tx \in Transaction
  BY RunningFields DEF RunOK
<1>3. o.tx.prev \in Nat /\ Target(o.tx) = o.tx.prev + 1 /\ Replayed.rev \in Nat
  BY <1>2, TransactionFields
<1>4. sql # None => sql \in Nat
  BY <1>1, TaskStateStoreAssumption DEF TypeOK
<1>5. Rows # {} => sql # None
  BY <1>1 DEF StoreOK, RowsOK
<1>6. ASSUME Target(o.tx) \in Rows PROVE sql = Target(o.tx) /\ Open
  <2>1. sql # None /\ Target(o.tx) <= sql
    BY <1>1, <1>6 DEF StoreOK, RowsOK
  <2>2. sql = Target(o.tx)
    BY <1>1, <1>3, <1>4, <2>1 DEF HeadOK
  <2> QED BY <1>1, <1>3, <2>2 DEF HeadOK
<1>7. o.tx.life = "completed" =>
        /\ sql # None
        /\ Target(o.tx) \in Rows /\ outbox[Target(o.tx)].tx.life = "completed"
  BY <1>5 DEF RunLives, Lives, Sealed
<1>8. CASE o.mode = "outbox"
  <2>1. Target(o.tx) \in Rows
    BY <1>8 DEF RunOK, Begun
  <2> QED BY <1>5, <1>6, <1>7, <2>1
<1>9. CASE o.mode # "outbox"
  <2>1. \E u \in PreparedTx : Core(u) = Core(o.tx)
    BY <1>9 DEF RunOK, Begun
  <2>2. PICK u \in PreparedTx : Core(u) = Core(o.tx)
    BY <2>1
  <2>3. u \in Transaction
    BY <1>1, JournalSets DEF TypeOK
  <2>4. u.prev = o.tx.prev /\ u.kind = o.tx.kind /\ Target(u) = Target(o.tx)
    BY <1>2, <2>2, <2>3, CoreFields
  <2>5. Underway(u)
    BY <1>1 DEF JournalOK
  <2>6. o.tx.kind = "contract_continuity" => Target(o.tx) \in Rows
    BY DEF RunOK
  <2>7. Open /\ sql \in {None, Target(o.tx)}
    BY <1>6, <2>4, <2>5, <2>6 DEF Underway
  <2>8. ASSUME sql = None, NEW t \in PreparedTx, t.kind = "contract_continuity"
        PROVE  FALSE
    <3>1. t \in Incomplete
      BY <1>1, <2>8, UnboundIsIncomplete
    <3>2. u \in Incomplete
      BY <1>1, <2>4, EarlierIsIncomplete
    <3>3. u.kind = "contract_continuity"
      BY <1>1, <2>8, <3>1, <3>2 DEF StoreOK, AtMostOneIncomplete
    <3> QED BY <1>5, <2>4, <2>6, <2>8, <3>3
  <2> QED BY <1>7, <2>7, <2>8
<1> QED BY <1>8, <1>9

\* The committed event adds a revision to the log of an open task; only a
\* completion closes it.
LEMMA CommitEventLog ==
    ASSUME StoreIInv, LogIInv, NEW p \in Process, CommitEvent(p)
    PROVE  LogIInv' /\ LogStep
<1>1. PICK o : o = op[p]
  OBVIOUS
<1>2. /\ TypeOK /\ StoreOK /\ lock = p /\ o.pc = "commit" /\ RunOK(o) /\ o \in Running
      /\ op \in [Process -> {Idle} \cup Waiting \cup Running]
      /\ UNCHANGED <<projection, files, sql, outbox, faults>>
  BY <1>1, WhoRuns DEF CommitEvent, Holds
<1>3. PICK tx : tx = o.tx
  OBVIOUS
<1>4. tx \in Transaction /\ Target(tx) \in Nat /\ tx.prev \in Nat /\ Target(tx) = tx.prev + 1
  BY <1>2, <1>3, RunningFields, TransactionFields
<1>5. PICK existing :
        existing = IF o.mode = "outbox" THEN CommittedAt(Target(tx)) ELSE {}
  OBVIOUS
<1>6. PICK n : n = [o EXCEPT !.pc = "project"]
  OBVIOUS
<1>7. n.pc = "project" /\ n.tx = tx
  BY <1>2, <1>3, <1>6 DEF Running
<1>8. RunLives(o) /\ Lives(tx) /\ Sealed(tx) /\ RunLives(n)
  BY <1>1, <1>2, <1>3, <1>7 DEF LogIInv, RunsLogOK, RunLives
<1>9. CASE Unwind(p) /\ UNCHANGED journal
  <2>1. \E x : Leaves(p, x) /\ Steady(p, x)
    BY <1>1, <1>2, <1>9, UnwindLeaves
  <2> QED BY <1>1, <1>2, <1>9, <2>1, LogLeaves DEF Durable
<1>10. CASE /\ existing # {} /\ journal' = journal
            /\ op' = [op EXCEPT ![p] = n] /\ lock' = lock
  <2>1. o.mode = "outbox"
    BY <1>5, <1>10
  <2>2. Target(tx) \in Rows /\ tx = outbox[Target(tx)].tx
    BY <1>2, <1>3, <2>1 DEF RunOK, Begun
  <2>3. Replayable => RunLogOK(n)
    BY <1>7, <2>2 DEF RunLogOK, LogIInv, LogOK, HeadOK
  <2> QED BY <1>2, <1>8, <1>10, <2>3, LogQuiet DEF Durable
<1>11. CASE /\ journal' = Append(journal, Committed(p))
            /\ op' = [op EXCEPT ![p] = n] /\ lock' = lock
  <2>1. PICK e : e = Committed(p)
    OBVIOUS
  <2>2. /\ e \in Event /\ e.phase = "committed" /\ e.tx = tx
        /\ e.whole \in BOOLEAN /\ (e.whole <=> Whole(p))
    <3>1. e = [phase |-> "committed", id |-> EventId(p), tx |-> tx, whole |-> Whole(p)]
      BY <1>1, <1>3, <2>1 DEF Committed
    <3>2. EventId(p) \in Nat
      BY <1>1, <1>3, <1>4, TransactionFields DEF EventId
    <3>3. Whole(p) \in BOOLEAN
      BY DEF Whole, Entity
    <3> QED BY <1>4, <3>1, <3>2, <3>3 DEF Event
  <2>3. /\ Replayed' = Extended(Replayed, e) /\ JournalTx' = JournalTx \cup {tx}
        /\ CommittedEvents' = CommittedEvents \cup {e} /\ PreparedTx' = PreparedTx
    BY <1>2, <1>11, <2>1, <2>2, JournalGrows DEF TypeOK
  <2>4. /\ Rows' = Rows /\ Recorded' = Recorded \cup {tx} /\ Published' = Published
        /\ sql' = sql /\ outbox' = outbox /\ projection' = projection
    BY <1>2, <2>3 DEF Rows, Recorded, Published
  <2>5. \A t : Sealed(t)' <=> Sealed(t)
    BY <2>4 DEF Sealed
  <2>6. RecordsOK'
    BY <1>8, <2>3, <2>4, <2>5 DEF RecordsOK, LogIInv, Lives
  <2>7. ASSUME Replayable'
        PROVE  /\ Replayable /\ Replayed.rev \in Nat /\ Replayed.rev = tx.prev
               /\ Replayed'.rev = Replayed.rev + 1 /\ Replayed'.rev = Target(tx)
               /\ Replayed'.life = IF e.whole THEN tx.life ELSE Replayed.life
    <3>1. Replayable
      BY <2>2, <2>3, <2>7, GapStays DEF Replayable
    <3>2. Replayed \in Projection /\ Replayed.rev \in Nat
      BY <1>2, <3>1, RevisionOf
    <3>3. Extended(Replayed, e) # Gap
      BY <2>3, <2>7 DEF Replayable
    <3>4. /\ Replayed.rev = tx.prev
          /\ Replayed' = Projected(Replayed, tx, e.whole)
          /\ Replayed'.rev = Replayed.rev + 1 /\ Replayed'.rev = Target(tx)
      BY <2>2, <2>3, <3>2, <3>3, ExtendedIs
    <3>5. Replayed'.life = IF e.whole THEN tx.life ELSE Replayed.life
      BY <1>4, <2>2, <3>2, <3>4, ProjectedIs
    <3> QED BY <3>1, <3>2, <3>4, <3>5
  <2>8. ASSUME Replayable'
        PROVE  /\ Open
               /\ sql \in {None, Target(tx)}
               /\ sql = None => \A t \in PreparedTx : t.kind # "contract_continuity"
               /\ tx.life = "completed" =>
                    /\ sql # None
                    /\ Target(tx) \in Rows /\ outbox[Target(tx)].tx.life = "completed"
    BY <1>2, <1>3, <1>8, <2>7, <2>8, CommitAllowed
  <2>9. ASSUME Replayable' PROVE ~Open' <=> tx.kind = "task_completion"
    <3>1. tx.kind = "task_completion" => e.whole /\ tx.life = "completed"
      BY <1>1, <1>3, <1>8, <2>2 DEF Whole, Entity, Lives
    <3>2. tx.kind # "task_completion" => tx.life = "open"
      BY <1>4, <1>8, TransactionFields DEF Lives
    <3> QED BY <2>7, <2>8, <2>9, <3>1, <3>2 DEF Open
  <2>10. ASSUME Replayable' PROVE HeadOK' /\ JournalOK' /\ CompletionIsFinal'
    <3>1. HeadOK /\ JournalOK /\ Open
      BY <2>7, <2>8, <2>10 DEF LogIInv, LogOK
    <3>2. ~Open' => tx.life = "completed"
      BY <1>8, <2>9, <2>10 DEF Lives
    <3>3. HeadOK'
      <4>1. sql' \in {None, Replayed'.rev, Replayed'.rev + 1}
        BY <2>4, <2>7, <2>8, <2>10
      <4>2. sql' \in {None, Replayed'.rev + 1} => Open'
        BY <2>4, <2>7, <2>8, <2>10, <3>2, NoneAssumption
      <4>3. ~Open' => /\ Replayed'.rev \in Rows'
                      /\ outbox'[Replayed'.rev].tx.life = "completed"
        BY <2>4, <2>7, <2>8, <2>10, <3>2
      <4>4. \A r \in Rows' : outbox'[r].status # "pending" => r <= Replayed'.rev
        <5>1. \A r \in Rows : r \in Nat
          BY TaskStateStoreAssumption DEF Rows
        <5> QED BY <2>4, <2>7, <2>10, <3>1, <5>1 DEF HeadOK
      <4>5. projection'.rev # Replayed'.rev
        <5>1. projection.rev \in Nat /\ projection.rev <= Replayed.rev
          BY <1>2, <2>7, <2>10, TaskStateStoreAssumption
             DEF TypeOK, Projection, StoreOK, HeadFollows
        <5> QED BY <2>4, <2>7, <2>10, <5>1
      <4> QED BY <4>1, <4>2, <4>3, <4>4, <4>5 DEF HeadOK
    <3>4. JournalOK'
      <4>1. \A c \in CommittedEvents' : c.tx.kind = "task_completion" => ~Open'
        BY <2>2, <2>3, <2>9, <2>10, <3>1 DEF JournalOK
      <4>2. ASSUME NEW t \in PreparedTx
            PROVE  t.prev <= Replayed'.rev /\ t.prev # Replayed'.rev
        <5>1. t.prev \in Nat
          BY <1>2, JournalSets, TransactionFields DEF TypeOK
        <5>2. t.prev <= Replayed.rev
          BY <3>1 DEF JournalOK
        <5> QED BY <2>7, <2>10, <5>1, <5>2
      <4> QED BY <2>3, <2>4, <2>8, <2>10, <4>1, <4>2 DEF JournalOK, Underway
    <3>5. CompletionIsFinal'
      BY <1>2, <1>11, <2>1, <2>2, <3>1, NoneCompleted
    <3> QED BY <3>3, <3>4, <3>5
  <2>11. LogOK' /\ LogGrows
    BY <2>7, <2>10 DEF LogOK, LogGrows
  <2>12. RunLives(n)'
    BY <1>7, <1>8, <2>5 DEF RunLives, Lives
  <2>13. Replayable' => RunLogOK(n)'
    <3>1. Replayable' /\ ~Open' => tx.life = "completed"
      BY <1>8, <2>9 DEF Lives
    <3> QED BY <1>7, <3>1 DEF RunLogOK
  <2>14. LogIInv'
    BY <1>2, <1>11, <2>6, <2>11, <2>12, <2>13, LogMoved
  <2>15. LogStep
    <3>1. CASE ~Replayable'
      BY <3>1, BrokenLog
    <3>2. CASE Replayable'
      <4>1. Log!Commit
        BY <2>4, <2>7, <2>8, <3>2 DEF Log!Commit, Open
      <4> QED BY <2>7, <3>2, <4>1 DEF LogStep, Log!LogNext
    <3> QED BY <3>1, <3>2
  <2> QED BY <2>14, <2>15
<1> QED
  <2>1. \/ /\ journal' = IF existing = {} THEN Append(journal, Committed(p)) ELSE journal
           /\ Step(p, "project") /\ UNCHANGED lock
        \/ Unwind(p) /\ UNCHANGED journal
    BY <1>1, <1>3, <1>5 DEF CommitEvent
  <2>2. Step(p, "project") => op' = [op EXCEPT ![p] = n]
    BY <1>1, <1>2, <1>6 DEF Step
  <2> QED BY <1>9, <1>10, <1>11, <2>1, <2>2

----------------------------------------------------------------------------
(* Publication and the log. *)

\* The status of a row matters to the log where its revision is committed.
LEMMA OnlyStatus ==
    ASSUME StoreIInv, LogIInv, UNCHANGED <<journal, projection, sql>>, Rows' = Rows,
           \A r \in Rows : outbox'[r].tx = outbox[r].tx,
           Replayable => \A r \in Rows : outbox'[r].status # "pending" => r <= Replayed.rev
    PROVE  /\ LogGrows /\ RecordsOK' /\ LogOK'
           /\ (Replayable' <=> Replayable) /\ Replayed' = Replayed
           /\ \A o : (RunLives(o)' <=> RunLives(o)) /\ (RunLogOK(o)' <=> RunLogOK(o))
           /\ \A o : WaitLogOK(o)' <=> WaitLogOK(o)
<1>1. sql' = sql /\ projection' = projection /\ journal' = journal
  OBVIOUS
<1>2. /\ PreparedTx' = PreparedTx /\ JournalTx' = JournalTx
      /\ Replayed' = Replayed /\ CommittedEvents' = CommittedEvents
  BY <1>1 DEF PreparedTx, JournalTx, Replayed, CommittedEvents
<1>3. (Replayable' <=> Replayable) /\ Recorded' = Recorded /\ (Open' <=> Open)
  BY <1>1, <1>2 DEF Replayable, Recorded, Open
<1>4. \A tx : (Sealed(tx)' <=> Sealed(tx)) /\ (Underway(tx)' <=> Underway(tx))
  BY <1>1, <1>2, <1>3 DEF Sealed, Underway
<1>5. RecordsOK'
  BY <1>2, <1>3, <1>4 DEF RecordsOK, LogIInv
<1>6. Replayable => HeadOK'
  BY <1>1, <1>2, <1>3 DEF HeadOK, LogIInv, LogOK
<1>7. JournalOK' <=> JournalOK
  BY <1>1, <1>2, <1>3, <1>4 DEF JournalOK
<1>8. CompletionIsFinal' <=> CompletionIsFinal
  BY <1>1, <1>3 DEF CompletionIsFinal
<1>9. \A o : (RunLives(o)' <=> RunLives(o)) /\ (RunLogOK(o)' <=> RunLogOK(o))
  BY <1>2, <1>3, <1>4 DEF RunLives, RunLogOK
<1>10. \A o : WaitLogOK(o)' <=> WaitLogOK(o)
  BY <1>2, <1>3 DEF WaitLogOK
<1>11. LogGrows
  BY <1>2, <1>3 DEF LogGrows
<1> QED BY <1>2, <1>3, <1>5, <1>6, <1>7, <1>8, <1>9, <1>10, <1>11 DEF LogOK, LogIInv

\* The row that is delivered is of a committed revision.
LEMMA DeliverLog ==
    ASSUME StoreIInv, LogIInv, NEW p \in Process, Deliver(p)
    PROVE  LogIInv' /\ LogStep
<1>1. PICK o : o = op[p]
  OBVIOUS
<1>2. /\ TypeOK /\ StoreOK /\ lock = p /\ o.pc = "deliver" /\ RunOK(o) /\ o \in Running
      /\ op \in [Process -> {Idle} \cup Waiting \cup Running]
      /\ UNCHANGED <<journal, projection, files, sql, faults>>
  BY <1>1, WhoRuns DEF Deliver, Holds
<1>3. PICK r : r = Target(o.tx)
  OBVIOUS
<1>4. r \in Rows /\ r \in 1 .. MaxRevision
  BY <1>2, <1>3 DEF RunOK, Rows
<1>5. CASE FailLate(p) /\ UNCHANGED outbox
  <2>1. \E n : Leaves(p, n) /\ Steady(p, n)
    BY <1>1, <1>2, <1>5, FailLateLeaves
  <2> QED BY <1>1, <1>2, <1>5, <2>1, LogLeaves DEF Durable
<1>6. CASE /\ IF outbox[r].status = "materialized" THEN UNCHANGED outbox
              ELSE outbox' = [outbox EXCEPT ![r].status = "delivered"]
           /\ Step(p, "publish") /\ UNCHANGED lock
  <2>1. PICK row : row = [outbox[r] EXCEPT !.status = "delivered"]
    OBVIOUS
  <2>2. row \in Row /\ row # None /\ row.tx = outbox[r].tx /\ row.status = "delivered"
    BY <1>2, <1>4, <2>1, StatusTyped
  <2>3. outbox \in [1 .. MaxRevision -> Row \cup {None}]
    BY <1>2 DEF TypeOK
  <2>4. \/ outbox' = outbox
        \/ outbox[r].status # "materialized" /\ outbox' = [outbox EXCEPT ![r] = row]
    BY <1>6, <2>1
  <2>5. /\ \A s \in 1 .. MaxRevision : s # r => outbox'[s] = outbox[s]
        /\ outbox'[r].tx = outbox[r].tx /\ outbox'[r] # None
        /\ outbox'[r].status = "materialized" <=> outbox[r].status = "materialized"
    BY <1>4, <2>2, <2>3, <2>4 DEF Rows
  <2>6. Rows' = Rows
    BY <1>4, <2>5 DEF Rows
  <2>7. \A s \in Rows : s \in 1 .. MaxRevision
    BY DEF Rows
  <2>8. \A s \in Rows :
          /\ outbox'[s].tx = outbox[s].tx
          /\ outbox'[s].status = "materialized" <=> outbox[s].status = "materialized"
    BY <2>5, <2>7
  <2>9. ASSUME Replayable, NEW s \in Rows, outbox'[s].status # "pending"
        PROVE  s <= Replayed.rev
    <3>1. r <= Replayed.rev
      BY <1>2, <1>3, <2>9 DEF RunOK
    <3>2. s # r => s <= Replayed.rev
      BY <2>5, <2>7, <2>9 DEF LogIInv, LogOK, HeadOK
    <3> QED BY <3>1, <3>2
  <2>10. PICK n : n = [o EXCEPT !.pc = "publish"]
    OBVIOUS
  <2>11. op' = [op EXCEPT ![p] = n] /\ n.pc = "publish" /\ n.tx = o.tx
    BY <1>1, <1>2, <1>6, <2>10 DEF Step, Running
  <2>12. RunLives(n) /\ RunLogOK(n)
    BY <1>1, <1>2, <2>11 DEF LogIInv, RunsLogOK, RunLives, RunLogOK
  <2>13. LogGrows /\ RecordsOK' /\ LogOK' /\ RunLives(n)' /\ RunLogOK(n)'
    BY <1>2, <2>6, <2>8, <2>9, <2>12, OnlyStatus
  <2>14. LogIInv'
    BY <1>2, <1>6, <2>11, <2>13, LogMoved
  <2>15. LogStep
    BY <1>2, <2>6, <2>8, PublishedSame, LogStutters
  <2> QED BY <2>14, <2>15
<1> QED BY <1>1, <1>3, <1>5, <1>6 DEF Deliver

\* The newest of some rows, or zero, is not past the newest of more rows.
LEMMA NewestOfMore ==
    ASSUME NEW S \in SUBSET (1 .. MaxRevision), NEW T \in SUBSET (1 .. MaxRevision),
           S \subseteq T, T # {}
    PROVE  /\ Newest(T) \in T /\ Newest(T) \in Nat
           /\ (IF S = {} THEN 0 ELSE Newest(S)) \in Nat
           /\ (IF S = {} THEN 0 ELSE Newest(S)) <= Newest(T)
<1>1. Newest(T) \in T /\ \A t \in T : t <= Newest(T)
  BY NewestIs
<1>2. \A t \in T : t \in Nat
  BY TaskStateStoreAssumption
<1>3. S # {} => Newest(S) \in S
  BY NewestIs
<1>4. PICK new : new = Newest(T)
  OBVIOUS
<1>5. new \in T /\ new \in Nat /\ \A t \in T : t <= new
  BY <1>1, <1>2, <1>4
<1>6. CASE S = {}
  BY <1>4, <1>5, <1>6
<1>7. CASE S # {}
  <2>1. Newest(S) \in T
    BY <1>3, <1>7
  <2>2. Newest(S) \in Nat /\ Newest(S) <= new
    BY <1>2, <1>5, <2>1
  <2> QED BY <1>4, <1>5, <1>7, <2>2
<1> QED BY <1>6, <1>7

\* Rows are published together, and all of them are of committed revisions.
LEMMA PublishLog ==
    ASSUME StoreIInv, LogIInv, NEW p \in Process, Publish(p)
    PROVE  LogIInv' /\ LogStep
<1>1. PICK o : o = op[p]
  OBVIOUS
<1>2. /\ TypeOK /\ StoreOK /\ lock = p /\ o.pc = "publish" /\ RunOK(o) /\ o \in Running
      /\ op \in [Process -> {Idle} \cup Waiting \cup Running]
      /\ UNCHANGED <<journal, projection, files, sql, faults>>
  BY <1>1, WhoRuns DEF Publish, Holds
<1>3. /\ Rows' = Rows /\ \A r \in Rows : outbox'[r].tx = outbox[r].tx
      /\ \/ outbox' = outbox
         \/ /\ \A r \in Rows : outbox'[r].status = "materialized"
            /\ \A r \in Rows : outbox[r].status # "pending"
  BY <1>2, PublishedRows
<1>4. ASSUME Replayable, NEW r \in Rows, outbox'[r].status # "pending"
      PROVE  r <= Replayed.rev
  BY <1>3, <1>4 DEF LogIInv, LogOK, HeadOK
<1>5. /\ LogGrows /\ RecordsOK' /\ LogOK'
      /\ (Replayable' <=> Replayable) /\ Replayed' = Replayed
      /\ \A n : (RunLives(n)' <=> RunLives(n)) /\ (RunLogOK(n)' <=> RunLogOK(n))
      /\ \A n : WaitLogOK(n)' <=> WaitLogOK(n)
  BY <1>2, <1>3, <1>4, OnlyStatus
<1>6. \/ \E n : Leaves(p, n) /\ Steady(p, n)
      \/ Step(p, "clean") /\ UNCHANGED lock
  <2>1. CASE FailLate(p)
    BY <1>1, <1>2, <2>1, FailLateLeaves
  <2> QED BY <2>1 DEF Publish
<1>7. p # None
  BY NoneAssumption
<1>8. LogIInv'
  <2>1. ASSUME NEW n, Leaves(p, n), Steady(p, n) PROVE LogIInv'
    <3>1. op' = [op EXCEPT ![p] = n] /\ (lock' = lock \/ (lock = p /\ lock' = None))
      BY <1>2, <2>1 DEF Leaves
    <3>2. CASE lock' = lock
      <4>1. n.tx = o.tx /\ n.pc = "rollback"
        BY <1>1, <2>1, <3>2 DEF Steady
      <4>2. RunLives(n) /\ RunLogOK(n)
        BY <1>1, <1>2, <4>1 DEF LogIInv, RunsLogOK, RunLives, RunLogOK
      <4> QED BY <1>2, <1>5, <3>1, <3>2, <4>2, LogMoved
    <3>3. CASE lock' = None
      <4>1. WaitLogOK(n)
        BY <2>1 DEF Steady, WaitLogOK
      <4> QED BY <1>2, <1>5, <1>7, <3>1, <3>3, <4>1, LogMoved
    <3> QED BY <3>1, <3>2, <3>3
  <2>2. ASSUME Step(p, "clean"), UNCHANGED lock PROVE LogIInv'
    <3>1. PICK n : n = [o EXCEPT !.pc = "clean"]
      OBVIOUS
    <3>2. op' = [op EXCEPT ![p] = n] /\ n.pc = "clean" /\ n.tx = o.tx
      BY <1>1, <1>2, <2>2, <3>1 DEF Step, Running
    <3>3. RunLives(n) /\ RunLogOK(n)
      BY <1>1, <1>2, <3>2 DEF LogIInv, RunsLogOK, RunLives, RunLogOK
    <3> QED BY <1>2, <1>5, <2>2, <3>2, <3>3, LogMoved
  <2> QED BY <1>6, <2>1, <2>2
<1>9. LogStep
  <2>1. CASE ~Replayable
    BY <1>5, <2>1, BrokenLog
  <2>2. CASE outbox' = outbox \/ Rows = {}
    <3>1. Published' = Published
      BY <1>3, <2>2 DEF Published
    <3> QED BY <1>2, <3>1, LogStutters
  <2>3. CASE Replayable /\ outbox' # outbox /\ Rows # {}
    <3>1. /\ Published' = Rows
          /\ \A r \in Rows : r <= Replayed.rev
      BY <1>3, <2>3 DEF Published, LogIInv, LogOK, HeadOK
    <3>2. Published \subseteq Rows /\ Rows \in SUBSET (1 .. MaxRevision)
      BY DEF Published, Rows
    <3>3. /\ Newest(Rows) \in Rows /\ Newest(Rows) \in Nat
          /\ PublishedHead \in Nat /\ PublishedHead <= Newest(Rows)
      BY <2>3, <3>2, NewestOfMore DEF PublishedHead
    <3>4. PublishedHead' = Newest(Rows)
      BY <2>3, <3>1 DEF PublishedHead
    <3>5. Replayed.rev \in Nat /\ Newest(Rows) <= Replayed.rev
      BY <1>2, <2>3, <3>1, <3>3, RevisionOf
    <3>6. CASE PublishedHead' = PublishedHead
      <4>1. UNCHANGED Log!logVars
        BY <1>2, <1>5, <3>6 DEF Log!logVars, PublishedHead
      <4> QED BY <4>1 DEF LogStep
    <3>7. CASE PublishedHead' # PublishedHead
      <4>1. PublishedHead' \in PublishedHead + 1 .. Replayed.rev
        BY <3>3, <3>4, <3>5, <3>7
      <4>2. Log!Publish
        BY <1>2, <1>5, <4>1 DEF Log!Publish, PublishedHead
      <4> QED BY <1>5, <2>3, <4>2 DEF LogStep, Log!LogNext
    <3> QED BY <3>6, <3>7
  <2> QED BY <2>1, <2>2, <2>3
<1> QED BY <1>8, <1>9

----------------------------------------------------------------------------
(* The log's invariant and what it shows. *)

\* A store without a history has an empty log.
LEMMA InitLog ==
    ASSUME Init
    PROVE  LogIInv /\ Log!LogInit
<1>1. /\ journal = <<>> /\ sql = None /\ lock = None
      /\ outbox = [r \in 1 .. MaxRevision |-> None]
      /\ op = [p \in Process |-> Idle] /\ projection = NewProjection
  BY DEF Init
<1>2. /\ Rows = {} /\ CommittedEvents = {} /\ PreparedTx = {} /\ Recorded = {}
      /\ Published = {}
  BY <1>1 DEF Rows, CommittedEvents, PreparedTx, JournalTx, Recorded, Published
<1>3. Replayed = NewProjection
  BY <1>1, ReplayOfNothing DEF Replayed
<1>4. Replayable /\ Open /\ Replayed.rev = 0
  BY <1>3 DEF Replayable, Open, Gap, NewProjection
<1>5. RecordsOK
  BY <1>2 DEF RecordsOK
<1>6. LogOK
  BY <1>1, <1>2, <1>4 DEF LogOK, HeadOK, JournalOK, CompletionIsFinal
<1>7. RunsLogOK
  BY <1>1, NoneAssumption DEF RunsLogOK, WaitLogOK, Idle
<1>8. Log!LogInit
  BY <1>1, <1>2, <1>4 DEF Log!LogInit, Open
<1> QED BY <1>5, <1>6, <1>7, <1>8 DEF LogIInv

\* Every step keeps it, and is one of the log or none.
LEMMA NextLog ==
    ASSUME StoreIInv, LogIInv, [Next]_vars
    PROVE  LogIInv' /\ LogStep
<1>1. CASE UNCHANGED vars
  BY <1>1, NothingLog DEF vars, Durable
<1>2. CASE OutsideEdit
  BY <1>2, NothingLog DEF OutsideEdit, Durable
<1>3. ASSUME NEW p \in Process,
             \/ \E request \in EntityRequests : CommitEntity(p, request[1], request[2])
             \/ CommitActiveTaskBundle(p)
             \/ \E checkpointToo \in BOOLEAN : CommitContractContinuity(p, checkpointToo)
             \/ CompleteTaskState(p)
      PROVE  LogIInv' /\ LogStep
  BY <1>3, WritersLog
<1>4. ASSUME NEW p \in Process,
             Authority(p) \/ Prepare(p) \/ WriteFile(p) \/ Bind(p)
      PROVE  LogIInv' /\ LogStep
  BY <1>4, AuthorityLog, PrepareLog, WriteFileLog, BindLog
<1>5. ASSUME NEW p \in Process,
             CommitEvent(p) \/ Project(p) \/ Deliver(p) \/ Publish(p)
      PROVE  LogIInv' /\ LogStep
  BY <1>5, CommitEventLog, ProjectLog, DeliverLog, PublishLog
<1>6. ASSUME NEW p \in Process,
             \/ Read(p) \/ GiveUp(p) \/ ReconcileRead(p) \/ OutboxRead(p)
             \/ RebuildRead(p) \/ RebuildWrite(p) \/ ReplayBegin(p) \/ OutboxBegin(p)
      PROVE  LogIInv' /\ LogStep
  BY <1>6, ReadersLog, RecoveriesLog, RebuildWriteLog
<1>7. ASSUME NEW p \in Process, Fail(p) \/ Crash(p) \/ CleanUp(p) \/ Rollback(p)
      PROVE  LogIInv' /\ LogStep
  BY <1>7, EndsLog
<1> QED BY <1>1, <1>2, <1>3, <1>4, <1>5, <1>6, <1>7 DEF Next

\* As long as the journal replays, head, rows, projection and whatever runs or
\* waits agree with its end.
THEOREM LogInvariance == Spec => []LogIInv
<1>1. Init => LogIInv
  BY InitLog
<1>2. StoreIInv /\ LogIInv /\ [Next]_vars => LogIInv'
  BY NextLog
<1> QED BY <1>1, <1>2, StoreInvariance, PTL DEF Spec

\* Nothing follows a completion: no writer that was waiting and no recovery that
\* read the journal earlier opens the task again (CompletionIsFinal).
THEOREM CompletionStaysFinal == Spec => []CompletionIsFinal
<1>1. LogIInv => CompletionIsFinal
  BY DEF LogIInv, LogOK, CompletionIsFinal
<1> QED BY <1>1, LogInvariance, PTL

\* The store, with its crashes, replays and rebuilds, implements the log of
\* TaskLog (ImplementsLog).
THEOREM StoreImplementsLog == Spec => ImplementsLog
<1>1. Init => Log!LogInit
  BY InitLog
<1>2. StoreIInv /\ LogIInv /\ [Next]_vars => [Log!LogNext]_(Log!logVars)
  BY NextLog DEF LogStep
<1> QED BY <1>1, <1>2, StoreInvariance, LogInvariance, PTL DEF Spec, ImplementsLog, Log!LogSpec

----------------------------------------------------------------------------
(* The images of the journal. *)

\* The image after a transaction whose event carries all entities.
WholeImage(tx) == [rev |-> Target(tx), ent |-> tx.ent, life |-> tx.life]

\* The transaction was made on top of the image.
Extends(tx, image) ==
    /\ image.rev = tx.prev
    /\ Entity(tx) =>
        /\ tx.life = image.life
        /\ \A k \in Kinds : k \notin Touched(tx) => tx.ent[k] = image.ent[k]

\* Each revision up to the journal's end was committed.
Covered ==
    \A r \in 1 .. Replayed.rev : \E e \in CommittedEvents : Target(e.tx) = r

\* One image to a revision, each the image of its transaction; what is
\* prepared was made on top of one of them.
ReplaysOK ==
    /\ \A i \in Replays : i \in Projection /\ i.rev <= Replayed.rev
    /\ \A i, j \in Replays : i.rev = j.rev => i = j
    /\ \A e \in CommittedEvents : WholeImage(e.tx) \in Replays
    /\ projection \in Replays
    /\ \A tx \in PreparedTx : \E i \in Replays : Extends(tx, i)

WholeRun(o) == o.mode = "outbox" \/ ~Entity(o.tx)

\* The holder of the lock works on top of the projection.
RunImageOK(o) ==
    /\ o.mode # "outbox" /\ o.pc \in {"authority", "prepare", "write", "bind", "commit"}
        => Extends(o.tx, projection)
    /\ o.pc = "project" => Projected(projection, o.tx, WholeRun(o)) \in Replays

WaitImageOK(o) == o.pc = "image" => o.image \in Replays

ImagesOK ==
    \A p \in Process : IF lock = p THEN RunImageOK(op[p]) ELSE WaitImageOK(op[p])

\* What ProjectionIsAReplay supposes.
Sound == Replayable /\ CommittedAsAccepted

ImageIInv ==
    /\ Replayable => Covered
    /\ Sound => ReplaysOK /\ ImagesOK

\* A journal is one of its own prefixes.
LEMMA ReplayedIsOne ==
    ASSUME journal \in Seq(Event)
    PROVE  Replayed \in Replays
<1>1. Len(journal) \in 0 .. Len(journal) /\ SubSeq(journal, 1, Len(journal)) = journal
  OBVIOUS
<1> QED BY <1>1 DEF Replays, Replayed

\* One more event adds one more image, that of the whole journal.
LEMMA ReplaysGrow ==
    ASSUME journal \in Seq(Event), NEW e \in Event, journal' = Append(journal, e)
    PROVE  Replays' = Replays \cup {Replayed'}
<1>1. PICK m \in Nat : m = Len(journal)
  OBVIOUS
<1>2. /\ journal' \in Seq(Event) /\ Len(journal') = m + 1
      /\ \A n \in 1 .. m : journal'[n] = journal[n]
  BY <1>1
<1>3. 0 .. m + 1 = (0 .. m) \cup {m + 1}
  OBVIOUS
<1>4. ASSUME NEW n \in 0 .. m
      PROVE  SubSeq(journal', 1, n) = SubSeq(journal, 1, n)
  BY <1>1, <1>2
<1>5. SubSeq(journal', 1, m + 1) = journal'
  BY <1>2
<1>6. Replays' = {ReplayOf(SubSeq(journal', 1, n)) : n \in 0 .. m + 1}
  BY <1>2 DEF Replays
<1>7. Replays = {ReplayOf(SubSeq(journal', 1, n)) : n \in 0 .. m}
  BY <1>1, <1>4 DEF Replays
<1>8. Replayed' = ReplayOf(SubSeq(journal', 1, m + 1))
  BY <1>5 DEF Replayed
<1> QED BY <1>3, <1>6, <1>7, <1>8

\* Where journal and projection stay, so does all that is said of images.
LEMMA SameImages ==
    ASSUME journal' = journal, projection' = projection
    PROVE  /\ Replays' = Replays /\ Replayed' = Replayed
           /\ CommittedEvents' = CommittedEvents /\ PreparedTx' = PreparedTx
           /\ Replayable' <=> Replayable
           /\ Covered' <=> Covered
           /\ ReplaysOK' <=> ReplaysOK
           /\ \A o : RunImageOK(o)' <=> RunImageOK(o)
           /\ \A o : WaitImageOK(o)' <=> WaitImageOK(o)
<1>1. /\ Replays' = Replays /\ Replayed' = Replayed
      /\ CommittedEvents' = CommittedEvents /\ PreparedTx' = PreparedTx
  BY DEF Replays, Replayed, CommittedEvents, PreparedTx
<1>2. (Replayable' <=> Replayable) /\ (Covered' <=> Covered)
  BY <1>1 DEF Replayable, Covered
<1>3. ReplaysOK' <=> ReplaysOK
  BY <1>1 DEF ReplaysOK
<1>4. ASSUME NEW o PROVE RunImageOK(o)' <=> RunImageOK(o)
  BY <1>1 DEF RunImageOK
<1>5. ASSUME NEW o PROVE WaitImageOK(o)' <=> WaitImageOK(o)
  BY <1>1 DEF WaitImageOK
<1> QED BY <1>1, <1>2, <1>3, <1>4, <1>5

\* A step of p keeps the images in order if it keeps the journal's images, adds
\* to them only, and leaves p in order.
LEMMA ImagesMoved ==
    ASSUME StoreIInv, ImageIInv, NEW p \in Process, NEW o,
           op' = [op EXCEPT ![p] = o],
           \/ lock' = lock
           \/ lock = p /\ lock' = None
           \/ lock = None /\ lock' = p,
           lock \in {p, None} \/ UNCHANGED Durable,
           Replayable' => Covered',
           Sound' => /\ Sound /\ Replays \subseteq Replays' /\ ReplaysOK'
                     /\ IF lock' = p THEN RunImageOK(o)' ELSE WaitImageOK(o)'
    PROVE  ImageIInv'
<1>1. None \notin Process
  BY NoneAssumption
<1>2. op \in [Process -> {Idle} \cup Waiting \cup Running] /\ lock \in Process \cup {None}
  BY DEF StoreIInv, TypeOK
<1>3. op'[p] = o /\ \A q \in Process : q # p => op'[q] = op[q]
  BY <1>2
<1>4. ASSUME Sound', NEW q \in Process
      PROVE  (IF lock = q THEN RunImageOK(op[q]) ELSE WaitImageOK(op[q]))'
  <2>1. PICK u : u = op'[q]
    OBVIOUS
  <2>2. CASE q = p
    <3>1. u = o
      BY <1>3, <2>1, <2>2
    <3>2. IF lock' = q THEN RunImageOK(u)' ELSE WaitImageOK(u)'
      BY <3>1, <2>2, <1>4
    <3> QED BY <3>2, <2>1 DEF RunImageOK, WaitImageOK, WholeRun
  <2>3. CASE q # p /\ lock = q
    <3>1. lock' = q /\ UNCHANGED Durable
      BY <2>3, <1>1
    <3>2. u = op[q] /\ RunImageOK(u)
      BY <1>3, <1>4, <2>1, <2>3 DEF ImageIInv, ImagesOK
    <3>3. RunImageOK(u)'
      BY <3>1, <3>2, SameImages DEF Durable
    <3> QED BY <3>1, <3>3, <2>1 DEF RunImageOK, WholeRun
  <2>4. CASE q # p /\ lock # q
    <3>1. lock' # q
      BY <2>4, <1>1
    <3>2. u = op[q] /\ WaitImageOK(u)
      BY <1>3, <1>4, <2>1, <2>4 DEF ImageIInv, ImagesOK
    <3>3. WaitImageOK(u)'
      BY <3>2, <1>4 DEF WaitImageOK
    <3> QED BY <3>1, <3>3, <2>1 DEF WaitImageOK
  <2> QED BY <2>2, <2>3, <2>4
<1>5. Sound' => ImagesOK'
  BY <1>4 DEF ImagesOK
<1> QED BY <1>5 DEF ImageIInv

\* The same for a step that leaves the durable state alone.
LEMMA ImagesQuiet ==
    ASSUME StoreIInv, ImageIInv, NEW p \in Process, NEW o,
           op' = [op EXCEPT ![p] = o],
           \/ lock' = lock
           \/ lock = p /\ lock' = None
           \/ lock = None /\ lock' = p,
           UNCHANGED Durable,
           Sound => IF lock' = p THEN RunImageOK(o) ELSE WaitImageOK(o)
    PROVE  ImageIInv'
<1>1. journal' = journal /\ projection' = projection /\ outbox' = outbox
  BY DEF Durable
<1>2. CommittedAsAccepted' <=> CommittedAsAccepted
  BY <1>1 DEF CommittedAsAccepted, Rows, CommittedAt
<1>3. Sound' <=> Sound
  BY <1>1, <1>2, SameImages DEF Sound
<1>4. Replayable' => Covered'
  BY <1>1, SameImages DEF ImageIInv
<1>5. Sound' => /\ Sound /\ Replays \subseteq Replays' /\ ReplaysOK'
                /\ IF lock' = p THEN RunImageOK(o)' ELSE WaitImageOK(o)'
  BY <1>1, <1>3, SameImages DEF ImageIInv
<1> QED BY <1>4, <1>5, ImagesMoved

\* A process that holds no image or works no longer on its files is in order.
LEMMA PlainImage ==
    ASSUME NEW o
    PROVE  /\ o.pc # "image" => WaitImageOK(o)
           /\ o.pc \in {"deliver", "publish", "clean", "rollback"} => RunImageOK(o)
BY DEF WaitImageOK, RunImageOK

\* Leaving the lock, or turning to the rollback.
LEMMA ImagesLeave ==
    ASSUME StoreIInv, ImageIInv, NEW p \in Process, lock = p, UNCHANGED Durable,
           NEW o, Leaves(p, o), Steady(p, o)
    PROVE  ImageIInv'
<1>1. op' = [op EXCEPT ![p] = o] /\ (lock' = lock \/ lock' = None) /\ o.pc # "image"
  BY DEF Leaves, Steady
<1>2. lock' = p => o.pc = "rollback"
  BY DEF Steady
<1> QED BY <1>1, <1>2, PlainImage, ImagesQuiet

\* The ends of a run: it fails, dies, is done, or is rolled back.
LEMMA EndsImages ==
    ASSUME StoreIInv, ImageIInv, NEW p \in Process,
           Fail(p) \/ Crash(p) \/ CleanUp(p) \/ Rollback(p)
    PROVE  ImageIInv'
<1>1. TypeOK /\ StoreOK /\ lock = p /\ RunOK(op[p]) /\ UNCHANGED Durable
      /\ op \in [Process -> {Idle} \cup Waiting \cup Running]
  BY WhoRuns DEF Fail, Crash, CleanUp, Rollback, Holds, Durable
<1>2. WaitOK(Idle) /\ Idle.pc # "image"
  BY IdleWaits DEF Idle
<1>3. ASSUME NEW done \in BOOLEAN
      PROVE  WaitOK(Next_(p, done)) /\ Next_(p, done).pc # "image"
  BY <1>1, NextWaits
<1>4. ASSUME NEW o, WaitOK(o), o.pc # "image", Release(p, o)
      PROVE  ImageIInv'
  BY <1>1, <1>4, ReleaseLeaves, ImagesLeave
<1>5. CASE Crash(p)
  <2>1. Release(p, Idle)
    BY <1>5 DEF Crash
  <2> QED BY <1>2, <1>4, <2>1
<1>6. CASE CleanUp(p)
  <2>1. Release(p, Next_(p, TRUE))
    BY <1>6 DEF CleanUp
  <2> QED BY <1>3, <1>4, <2>1
<1>7. CASE Fail(p)
  BY <1>1, <1>7, FailLeaves, ImagesLeave
<1>8. CASE Rollback(p)
  <2>1. PICK o, rest : o = op[p] /\ rest = Tail(op[p].undo)
    OBVIOUS
  <2>2. o.pc = "rollback" /\ o \in Running
    BY <1>1, <1>8, <2>1 DEF Rollback, Holds, RunOK
  <2>3. CASE rest = <<>>
    <3>1. Release(p, Next_(p, FALSE))
      BY <1>8, <2>1, <2>3 DEF Rollback
    <3> QED BY <1>3, <1>4, <3>1
  <2>4. CASE rest # <<>>
    <3>1. PICK n : n = [o EXCEPT !.undo = rest]
      OBVIOUS
    <3>2. op' = [op EXCEPT ![p] = n] /\ lock' = lock
      BY <1>8, <2>1, <2>4, <3>1 DEF Rollback
    <3>3. n.pc = "rollback"
      BY <2>2, <3>1 DEF Running
    <3> QED BY <1>1, <3>2, <3>3, PlainImage, ImagesQuiet
  <2> QED BY <2>3, <2>4
<1> QED BY <1>5, <1>6, <1>7, <1>8

\* Reading without the lock.  The image of a rebuild is the journal's.
LEMMA ReadersImages ==
    ASSUME StoreIInv, ImageIInv, NEW p \in Process,
           Read(p) \/ GiveUp(p) \/ ReconcileRead(p) \/ OutboxRead(p) \/ RebuildRead(p)
    PROVE  ImageIInv'
<1>1. TypeOK /\ StoreOK /\ UNCHANGED Durable /\ lock' = lock
  BY WhoRuns DEF Read, GiveUp, ReconcileRead, OutboxRead, RebuildRead, Durable
<1>2. lock # p
  <2>1. CASE GiveUp(p)
    BY <2>1 DEF GiveUp
  <2>2. CASE ~GiveUp(p)
    <3>1. op[p] = Idle \/ op[p].pc \in {"outbox", "rebuild", "idle"}
      BY <2>2 DEF Read, ReconcileRead, OutboxRead, RebuildRead
    <3> QED BY <3>1, WhoRuns, RunningFields DEF Idle
  <2> QED BY <2>1, <2>2
<1>3. ASSUME NEW o, op' = [op EXCEPT ![p] = o], o.pc # "image"
      PROVE  ImageIInv'
  BY <1>1, <1>2, <1>3, PlainImage, ImagesQuiet
<1>4. CASE Read(p)
  <2>1. PICK known : op' = [op EXCEPT ![p] = [pc |-> "ready", known |-> known]]
    BY <1>4 DEF Read
  <2>2. PICK o : o = [pc |-> "ready", known |-> known]
    OBVIOUS
  <2>3. op' = [op EXCEPT ![p] = o] /\ o.pc # "image"
    BY <2>1, <2>2
  <2> QED BY <1>3, <2>3
<1>5. CASE GiveUp(p)
  <2>1. op' = [op EXCEPT ![p] = Idle] /\ Idle.pc # "image"
    BY <1>5 DEF GiveUp, Idle
  <2> QED BY <1>3, <2>1
<1>6. CASE ReconcileRead(p)
  <2>1. ASSUME NEW tx, op' = [op EXCEPT ![p] = [pc |-> "replay", tx |-> tx]]
        PROVE  ImageIInv'
    <3>1. PICK o : o = [pc |-> "replay", tx |-> tx]
      OBVIOUS
    <3>2. op' = [op EXCEPT ![p] = o] /\ o.pc # "image"
      BY <2>1, <3>1
    <3> QED BY <1>3, <3>2
  <2>2. CASE op' = [op EXCEPT ![p] = [pc |-> "outbox"]]
    <3>1. PICK o : o = [pc |-> "outbox"]
      OBVIOUS
    <3>2. op' = [op EXCEPT ![p] = o] /\ o.pc # "image"
      BY <2>2, <3>1
    <3> QED BY <1>3, <3>2
  <2> QED BY <1>6, <2>1, <2>2 DEF ReconcileRead
<1>7. CASE OutboxRead(p)
  <2>1. PICK o : o = IF PendingRows = {} THEN [pc |-> "rebuild"]
                     ELSE [pc |-> "row", todo |-> PendingRows]
    OBVIOUS
  <2>2. op' = [op EXCEPT ![p] = o] /\ o.pc # "image"
    BY <1>7, <2>1 DEF OutboxRead
  <2> QED BY <1>3, <2>2
<1>8. CASE RebuildRead(p)
  <2>1. PICK image : image = Replayed
    OBVIOUS
  <2>2. PICK o : o = IF Replayable /\ AuthorityAgrees /\ CommittedEvents # {}
                     THEN [pc |-> "image", image |-> image] ELSE Idle
    OBVIOUS
  <2>3. op' = [op EXCEPT ![p] = o]
    BY <1>8, <2>1, <2>2 DEF RebuildRead, Replayable
  <2>4. o = Idle => o.pc # "image"
    BY DEF Idle
  <2>5. o.pc = "image" => o.image = Replayed
    BY <2>1, <2>2, <2>4
  <2>6. WaitImageOK(o)
    BY <1>1, <2>5, ReplayedIsOne DEF WaitImageOK, TypeOK
  <2> QED BY <1>1, <1>2, <2>3, <2>6, ImagesQuiet
<1> QED BY <1>4, <1>5, <1>6, <1>7, <1>8

\* A replay takes the lock where the projection is what its transaction was
\* made on top of; the row of the outbox carries all entities anyway.
LEMMA RecoveriesImages ==
    ASSUME StoreIInv, ImageIInv, NEW p \in Process, ReplayBegin(p) \/ OutboxBegin(p)
    PROVE  ImageIInv'
<1>1. TypeOK /\ StoreOK /\ UNCHANGED Durable /\ lock = None /\ lock # p
  BY WhoRuns DEF ReplayBegin, OutboxBegin, Durable
<1>2. WaitOK(op[p]) /\ op[p] \in {Idle} \cup Waiting
  BY <1>1, WhoRuns
<1>3. ASSUME NEW o, op' = [op EXCEPT ![p] = o], lock' = lock, o.pc # "image"
      PROVE  ImageIInv'
  BY <1>1, <1>3, PlainImage, ImagesQuiet
<1>4. ASSUME NEW o, op' = [op EXCEPT ![p] = o], lock' = p, Sound => RunImageOK(o)
      PROVE  ImageIInv'
  BY <1>1, <1>4, ImagesQuiet
<1>5. CASE ReplayBegin(p)
  <2>1. PICK tx : tx = op[p].tx
    OBVIOUS
  <2>2. tx \in PreparedTx
    BY <1>2, <1>5, <2>1 DEF WaitOK, ReplayBegin
  <2>4. PICK o : o = Run("replay", "write", tx, {}, None)
    OBVIOUS
  <2>5. o.pc = "write" /\ o.tx = tx
    BY <2>4 DEF Run
  <2>6. CASE projection.rev = tx.prev
    <3>1. lock' = p /\ op' = [op EXCEPT ![p] = o]
      BY <1>5, <2>1, <2>4, <2>6 DEF ReplayBegin
    <3>2. ASSUME Sound PROVE Extends(tx, projection)
      <4>1. PICK i \in Replays : Extends(tx, i)
        BY <2>2, <3>2 DEF ImageIInv, ReplaysOK
      <4>2. i.rev = projection.rev
        BY <4>1, <2>6 DEF Extends
      <4>3. i = projection
        BY <3>2, <4>2 DEF ImageIInv, ReplaysOK
      <4> QED BY <4>1, <4>3
    <3>3. Sound => RunImageOK(o)
      BY <2>5, <3>2 DEF RunImageOK
    <3> QED BY <1>4, <3>1, <3>3
  <2>7. CASE projection.rev # tx.prev
    <3>1. PICK n : n = [pc |-> "rebuild"]
      OBVIOUS
    <3>2. lock' = lock /\ op' = [op EXCEPT ![p] = n] /\ n.pc # "image"
      BY <1>5, <2>1, <2>7, <3>1 DEF ReplayBegin
    <3> QED BY <1>3, <3>2
  <2> QED BY <2>6, <2>7
<1>6. CASE OutboxBegin(p)
  <2>1. PICK todo : todo = op[p].todo
    OBVIOUS
  <2>2. PICK r : r = Oldest(todo)
    OBVIOUS
  <2>3. PICK tx : tx = outbox[r].tx
    OBVIOUS
  <2>4. PICK o : o = Run("outbox", "write", tx, todo, None)
    OBVIOUS
  <2>5. o.pc = "write" /\ o.mode = "outbox"
    BY <2>4 DEF Run
  <2>6. CASE projection.rev \in {r - 1, r}
    <3>1. lock' = p /\ op' = [op EXCEPT ![p] = o]
      BY <1>6, <2>1, <2>2, <2>3, <2>4, <2>6 DEF OutboxBegin
    <3>2. RunImageOK(o)
      BY <2>5 DEF RunImageOK
    <3> QED BY <1>4, <3>1, <3>2
  <2>7. CASE projection.rev \notin {r - 1, r}
    <3>1. PICK n : n = IF todo \ {r} = {} THEN [pc |-> "rebuild"]
                       ELSE [pc |-> "row", todo |-> todo \ {r}]
      OBVIOUS
    <3>2. lock' = lock /\ op' = [op EXCEPT ![p] = n] /\ n.pc # "image"
      BY <1>6, <2>1, <2>2, <2>7, <3>1 DEF OutboxBegin
    <3> QED BY <1>3, <3>2
  <2> QED BY <2>6, <2>7
<1> QED BY <1>5, <1>6

\* Files do not matter to images; the run goes on with the same transaction.
LEMMA WriteFileImages ==
    ASSUME StoreIInv, ImageIInv, NEW p \in Process, WriteFile(p)
    PROVE  ImageIInv'
<1>1. PICK o : o = op[p]
  OBVIOUS
<1>2. /\ TypeOK /\ StoreOK /\ lock = p /\ UNCHANGED Durable
      /\ o.pc = "write" /\ RunOK(o) /\ o \in Running
      /\ op \in [Process -> {Idle} \cup Waiting \cup Running]
  BY <1>1, WhoRuns DEF WriteFile, Durable, Holds
<1>3. PICK after \in {"write", "bind", "commit"} :
        after = IF Tail(o.left) # <<>> THEN "write"
                ELSE IF o.tx.kind = "contract_continuity" /\ o.mode # "outbox"
                THEN "bind" ELSE "commit"
  OBVIOUS
<1>4. ASSUME NEW undo,
             op' = [op EXCEPT ![p] = [o EXCEPT !.pc = after, !.left = Tail(o.left),
                                               !.undo = undo]],
             lock' = lock
      PROVE  ImageIInv'
  <2>1. PICK n : n = [o EXCEPT !.pc = after, !.left = Tail(o.left), !.undo = undo]
    OBVIOUS
  <2>2. n.pc = after /\ n.tx = o.tx /\ n.mode = o.mode
    BY <1>2, <2>1 DEF Running
  <2>3. Sound => RunImageOK(n)
    BY <1>1, <1>2, <1>3, <2>2 DEF ImageIInv, ImagesOK, RunImageOK
  <2> QED BY <1>2, <1>4, <2>1, <2>3, ImagesQuiet
<1>5. CASE \E n : Leaves(p, n) /\ Steady(p, n)
  BY <1>1, <1>2, <1>5, ImagesLeave
<1>6. Unwind(p) => \E n : Leaves(p, n) /\ Steady(p, n)
  BY <1>1, <1>2, UnwindLeaves
<1>7. Release(p, Next_(p, FALSE)) => \E n : Leaves(p, n) /\ Steady(p, n)
  BY <1>1, <1>2, NextWaits, ReleaseLeaves
<1>8. PICK s : s = Head(o.left)
  OBVIOUS
<1>9. CASE op' = [op EXCEPT ![p].pc = after, ![p].left = Tail(o.left)] /\ lock' = lock
  <2>1. op' = [op EXCEPT ![p] = [o EXCEPT !.pc = after, !.left = Tail(o.left)]]
    BY <1>1, <1>2, <1>9
  <2>2. [o EXCEPT !.pc = after, !.left = Tail(o.left)]
            = [o EXCEPT !.pc = after, !.left = Tail(o.left), !.undo = o.undo]
    BY <1>2 DEF Running
  <2> QED BY <1>4, <1>9, <2>1, <2>2
<1>10. CASE /\ op' = [op EXCEPT ![p].pc = after, ![p].left = Tail(o.left),
                                ![p].undo = <<[slot |-> s, before |-> files[s]]>> \o @]
            /\ lock' = lock
  <2>1. PICK undo : undo = <<[slot |-> s, before |-> files[s]]>> \o o.undo
    OBVIOUS
  <2>2. op' = [op EXCEPT ![p] = [o EXCEPT !.pc = after, !.left = Tail(o.left),
                                          !.undo = undo]]
    BY <1>1, <1>2, <1>10, <2>1 DEF Running
  <2> QED BY <1>4, <1>10, <2>2
<1>11. \/ op' = [op EXCEPT ![p].pc = after, ![p].left = Tail(o.left)] /\ lock' = lock
       \/ /\ op' = [op EXCEPT ![p].pc = after, ![p].left = Tail(o.left),
                              ![p].undo = <<[slot |-> s, before |-> files[s]]>> \o @]
          /\ lock' = lock
       \/ Release(p, Next_(p, FALSE)) \/ Unwind(p)
  BY <1>1, <1>3, <1>8 DEF WriteFile
<1> QED BY <1>5, <1>6, <1>7, <1>9, <1>10, <1>11

\* A transaction begins on top of the projection.
LEMMA BeginImages ==
    ASSUME StoreIInv, ImageIInv, NEW p \in Process,
           NEW kind, NEW ent, NEW life, NEW commands, NEW first,
           first \in {"authority", "prepare"},
           kind \in {"entity_upsert", "entity_clear"} =>
               /\ life = "open"
               /\ \A k \in Kinds : k \notin {commands[n] : n \in 1 .. Len(commands)}
                                       => ent[k] = projection.ent[k],
           Begin(p, kind, ent, life, commands, first)
    PROVE  ImageIInv'
<1>1. PICK known : known = op[p].known
  OBVIOUS
<1>2. PICK tx : tx = [id |-> NewId, kind |-> kind, prev |-> projection.rev,
                      ent |-> ent, life |-> life, commands |-> commands,
                      seen |-> files, authority |-> FALSE]
  OBVIOUS
<1>3. PICK o : o = Run("direct", first, tx, {}, known)
  OBVIOUS
<1>4. /\ lock = None /\ projection.life = "open"
      /\ lock' = p /\ op' = [op EXCEPT ![p] = o] /\ UNCHANGED Durable
  BY <1>1, <1>2, <1>3 DEF Begin, Durable
<1>5. o.pc = first /\ o.tx = tx
  BY <1>3 DEF Run
<1>6. /\ tx.kind = kind /\ tx.life = life /\ tx.prev = projection.rev
      /\ tx.ent = ent /\ tx.commands = commands
  BY <1>2
<1>7. Extends(tx, projection)
  BY <1>4, <1>6 DEF Extends, Entity, Touched
<1>8. RunImageOK(o)
  BY <1>5, <1>7 DEF RunImageOK
<1> QED BY <1>4, <1>8, ImagesQuiet

\* The five operations of a writer: an entity commit changes its one entity.
LEMMA WritersImages ==
    ASSUME StoreIInv, ImageIInv, NEW p \in Process,
           \/ \E request \in EntityRequests : CommitEntity(p, request[1], request[2])
           \/ CommitActiveTaskBundle(p)
           \/ \E checkpointToo \in BOOLEAN : CommitContractContinuity(p, checkpointToo)
           \/ CompleteTaskState(p)
    PROVE  ImageIInv'
<1>1. ASSUME NEW request \in EntityRequests, CommitEntity(p, request[1], request[2])
      PROVE  ImageIInv'
  <2>1. PICK kind, content, name, ent, commands :
            /\ commands = <<kind>>
            /\ ent = [projection.ent EXCEPT ![kind] = content]
            /\ Begin(p, name, ent, "open", commands, "authority")
    BY <1>1 DEF CommitEntity
  <2>2. commands[1] = kind /\ 1 \in 1 .. Len(commands)
    BY <2>1
  <2>3. projection.ent \in [Kinds -> Content]
    BY DEF StoreIInv, TypeOK, Projection
  <2>4. \A k \in Kinds : k # kind => ent[k] = projection.ent[k]
    BY <2>1, <2>3
  <2> QED BY <2>1, <2>2, <2>4, BeginImages
<1>2. CASE CommitActiveTaskBundle(p)
  <2>1. PICK ent, commands :
            Begin(p, "active_task_bundle", ent, "open", commands, "authority")
    BY <1>2 DEF CommitActiveTaskBundle
  <2> QED BY <2>1, BeginImages
<1>3. ASSUME NEW checkpointToo \in BOOLEAN, CommitContractContinuity(p, checkpointToo)
      PROVE  ImageIInv'
  <2>1. PICK ent, commands :
            Begin(p, "contract_continuity", ent, "open", commands, "prepare")
    BY <1>3 DEF CommitContractContinuity
  <2> QED BY <2>1, BeginImages
<1>4. CASE CompleteTaskState(p)
  <2>1. PICK ent, commands :
            Begin(p, "task_completion", ent, "completed", commands, "authority")
    BY <1>4 DEF CompleteTaskState
  <2> QED BY <2>1, BeginImages
<1> QED BY <1>1, <1>2, <1>3, <1>4

\* Files, and a step that changes nothing at all, leave the images alone.
LEMMA NothingImages ==
    ASSUME StoreIInv, ImageIInv, UNCHANGED Durable, op' = op, lock' = lock
    PROVE  ImageIInv'
<1>1. journal' = journal /\ projection' = projection /\ outbox' = outbox
  BY DEF Durable
<1>2. CommittedAsAccepted' <=> CommittedAsAccepted
  BY <1>1 DEF CommittedAsAccepted, Rows, CommittedAt
<1>3. (Sound' <=> Sound) /\ (Replayable' <=> Replayable)
  BY <1>1, <1>2, SameImages DEF Sound
<1>4. (Covered' <=> Covered) /\ (ReplaysOK' <=> ReplaysOK)
  BY <1>1, SameImages
<1>5. ASSUME Sound, NEW q \in Process
      PROVE  (IF lock = q THEN RunImageOK(op[q]) ELSE WaitImageOK(op[q]))'
  <2>1. PICK u : u = op[q]
    OBVIOUS
  <2>2. u = op'[q]
    BY <2>1
  <2>3. IF lock = q THEN RunImageOK(u) ELSE WaitImageOK(u)
    BY <1>5, <2>1 DEF ImageIInv, ImagesOK
  <2>4. IF lock' = q THEN RunImageOK(u)' ELSE WaitImageOK(u)'
    BY <1>1, <2>3, SameImages
  <2> QED BY <2>2, <2>4 DEF RunImageOK, WaitImageOK, WholeRun
<1>6. Sound => ImagesOK'
  BY <1>5 DEF ImagesOK
<1> QED BY <1>3, <1>4, <1>6 DEF ImageIInv

\* Rows that keep their transactions leave the images alone.
LEMMA ImagesKept ==
    ASSUME StoreIInv, ImageIInv, NEW p \in Process, NEW o, lock = p,
           op' = [op EXCEPT ![p] = o],
           lock' = lock \/ lock' = None,
           journal' = journal, projection' = projection,
           \A r \in Rows : r \in Rows' /\ outbox'[r].tx = outbox[r].tx,
           Sound => IF lock' = p THEN RunImageOK(o) ELSE WaitImageOK(o)
    PROVE  ImageIInv'
<1>1. \A r : CommittedAt(r)' = CommittedAt(r)
  BY DEF CommittedAt
<1>2. ASSUME CommittedAsAccepted' PROVE CommittedAsAccepted
  <2>1. ASSUME NEW r \in Rows, NEW n \in CommittedAt(r)
        PROVE  /\ journal[n].tx.ent = outbox[r].tx.ent
               /\ journal[n].tx.life = outbox[r].tx.life
    <3>1. r \in Rows' /\ n \in CommittedAt(r)' /\ outbox'[r].tx = outbox[r].tx
      BY <1>1, <2>1
    <3>2. /\ journal'[n].tx.ent = outbox'[r].tx.ent
          /\ journal'[n].tx.life = outbox'[r].tx.life
      BY <1>2, <3>1 DEF CommittedAsAccepted
    <3> QED BY <3>1, <3>2
  <2> QED BY <2>1 DEF CommittedAsAccepted
<1>3. Sound' => Sound
  BY <1>2, SameImages DEF Sound
<1>4. Replayable' => Covered'
  BY SameImages DEF ImageIInv
<1>5. Sound' => /\ Sound /\ Replays \subseteq Replays' /\ ReplaysOK'
                /\ IF lock' = p THEN RunImageOK(o)' ELSE WaitImageOK(o)'
  BY <1>3, SameImages DEF ImageIInv
<1> QED BY <1>4, <1>5, ImagesMoved

\* The status of a row does not matter to images.
LEMMA DeliveriesImages ==
    ASSUME StoreIInv, ImageIInv, NEW p \in Process, Deliver(p) \/ Publish(p)
    PROVE  ImageIInv'
<1>1. PICK o : o = op[p]
  OBVIOUS
<1>2. /\ TypeOK /\ lock = p /\ o.pc \in {"deliver", "publish"} /\ RunOK(o) /\ o \in Running
      /\ op \in [Process -> {Idle} \cup Waiting \cup Running]
      /\ journal' = journal /\ projection' = projection
  BY <1>1, WhoRuns DEF Deliver, Publish, Holds
<1>3. \A r \in Rows : r \in Rows' /\ outbox'[r].tx = outbox[r].tx
  <2>1. CASE Publish(p)
    BY <1>2, <2>1, PublishedRows
  <2>2. CASE Deliver(p)
    <3>1. PICK r : r = Target(o.tx)
      OBVIOUS
    <3>2. r \in Rows /\ r \in 1 .. MaxRevision
      BY <1>1, <1>2, <2>2, <3>1 DEF RunOK, Rows, Deliver, Holds
    <3>3. PICK row : row = [outbox[r] EXCEPT !.status = "delivered"]
      OBVIOUS
    <3>4. row # None /\ row.tx = outbox[r].tx
      BY <1>2, <3>2, <3>3, StatusTyped
    <3>5. outbox \in [1 .. MaxRevision -> Row \cup {None}]
      BY <1>2 DEF TypeOK
    <3>6. outbox' = outbox \/ outbox' = [outbox EXCEPT ![r] = row]
      BY <1>1, <2>2, <3>1, <3>3 DEF Deliver
    <3> QED BY <3>2, <3>4, <3>5, <3>6 DEF Rows
  <2> QED BY <2>1, <2>2
<1>4. \/ \E n : Leaves(p, n) /\ Steady(p, n)
      \/ \E pc \in {"publish", "clean"} : Step(p, pc) /\ UNCHANGED lock
  <2>1. CASE FailLate(p)
    BY <1>1, <1>2, <2>1, FailLateLeaves
  <2> QED BY <2>1 DEF Deliver, Publish
<1>5. ASSUME NEW n, Leaves(p, n), Steady(p, n) PROVE ImageIInv'
  <2>1. op' = [op EXCEPT ![p] = n] /\ (lock' = lock \/ lock' = None) /\ n.pc # "image"
    BY <1>5 DEF Leaves, Steady
  <2>2. lock' = p => n.pc = "rollback"
    BY <1>2, <1>5 DEF Steady
  <2> QED BY <1>2, <1>3, <2>1, <2>2, PlainImage, ImagesKept
<1>6. ASSUME NEW pc \in {"publish", "clean"}, Step(p, pc), UNCHANGED lock PROVE ImageIInv'
  <2>1. PICK n : n = [o EXCEPT !.pc = pc]
    OBVIOUS
  <2>2. op' = [op EXCEPT ![p] = n] /\ n.pc = pc
    BY <1>1, <1>2, <1>6, <2>1 DEF Step, Running
  <2> QED BY <1>2, <1>3, <1>6, <2>2, PlainImage, ImagesKept
<1> QED BY <1>4, <1>5, <1>6

\* Whether its row is there does not matter to what a transaction extends.
LEMMA CoreExtends ==
    ASSUME NEW tx \in Transaction, NEW image
    PROVE  Extends(Core(tx), image) <=> Extends(tx, image)
BY CoreFields DEF Extends, Entity, Touched

\* The authority's steps, of an entity, a bundle or a completion and of a
\* continuity, do not touch journal and projection; a new row is of a revision
\* that had none.
LEMMA AuthoritiesImages ==
    ASSUME StoreIInv, ImageIInv, NEW p \in Process, Authority(p) \/ Bind(p)
    PROVE  ImageIInv'
<1>1. PICK o : o = op[p]
  OBVIOUS
<1>2. /\ TypeOK /\ StoreOK /\ lock = p /\ o.pc \in {"authority", "bind"} /\ RunOK(o)
      /\ o \in Running
      /\ op \in [Process -> {Idle} \cup Waiting \cup Running]
      /\ UNCHANGED <<journal, projection, files, faults>>
  BY <1>1, WhoRuns DEF Authority, Bind, Holds
<1>3. o.tx \in Transaction
  BY <1>2, RunningFields
<1>4. Sound => RunImageOK(o)
  BY <1>1, <1>2 DEF ImageIInv, ImagesOK
<1>5. CASE Import(o.tx) /\ UNCHANGED <<op, lock>>
  <2>1. op' = [op EXCEPT ![p] = o]
    BY <1>1, <1>2, <1>5
  <2>2. outbox' = outbox
    BY <1>5 DEF Import
  <2>3. \A r \in Rows : r \in Rows' /\ outbox'[r].tx = outbox[r].tx
    BY <2>2 DEF Rows
  <2> QED BY <1>2, <1>4, <1>5, <2>1, <2>3, ImagesKept
<1>6. ASSUME NEW n, Leaves(p, n), Steady(p, n), UNCHANGED <<sql, outbox>> PROVE ImageIInv'
  BY <1>2, <1>6, ImagesLeave DEF Durable
<1>7. ASSUME NEW pc \in {"prepare", "commit"},
             op' = [op EXCEPT ![p].pc = pc, ![p].tx.authority = TRUE],
             UNCHANGED lock,
             \A r \in Rows : r \in Rows' /\ outbox'[r].tx = outbox[r].tx
      PROVE  ImageIInv'
  <2>1. PICK tx : tx = Core(o.tx)
    OBVIOUS
  <2>2. tx \in Transaction /\ \A image : Extends(tx, image) <=> Extends(o.tx, image)
    BY <1>3, <2>1, CoreFields, CoreExtends
  <2>3. PICK n : n = [o EXCEPT !.pc = pc, !.tx = tx]
    OBVIOUS
  <2>4. op' = [op EXCEPT ![p] = n]
    BY <1>1, <1>2, <1>7, <2>1, <2>3, Zenon DEF Core
  <2>5. n.pc = pc /\ n.tx = tx /\ n.mode = o.mode
    BY <1>2, <2>3 DEF Running
  <2>6. Sound => RunImageOK(n)
    BY <1>2, <1>4, <2>2, <2>5 DEF RunImageOK
  <2> QED BY <1>2, <1>7, <2>4, <2>6, ImagesKept
<1>8. CASE Apply(o.tx)
  <2>1. PICK r : r = Target(o.tx)
    OBVIOUS
  <2>2. r \in Nat /\ r \in 1 .. MaxRevision /\ r = o.tx.prev + 1 /\ o.tx.prev \in Nat
    BY <1>3, <2>1, TransactionFields
  <2>3. PICK row : row = [status |-> "pending", tx |-> [o.tx EXCEPT !.authority = TRUE]]
    OBVIOUS
  <2>4. sql = o.tx.prev /\ outbox' = [outbox EXCEPT ![r] = row]
    BY <1>8, <2>1, <2>3 DEF Apply
  <2>5. \A s \in Rows : s <= sql /\ s \in 1 .. MaxRevision
    BY <1>2 DEF StoreOK, RowsOK, Rows
  <2>6. r \notin Rows
    BY <2>2, <2>4, <2>5
  <2>7. outbox \in [1 .. MaxRevision -> Row \cup {None}]
    BY <1>2 DEF TypeOK
  <2>8. \A s \in Rows : s \in Rows' /\ outbox'[s].tx = outbox[s].tx
    BY <2>2, <2>4, <2>5, <2>6, <2>7 DEF Rows
  <2>9. \E pc \in {"prepare", "commit"} :
            /\ op' = [op EXCEPT ![p].pc = pc, ![p].tx.authority = TRUE]
            /\ UNCHANGED lock
    <3>1. sql' = r /\ r # sql /\ sql # None
      BY <1>8, <2>1, <2>2, <2>4, NoneAssumption DEF Apply
    <3>2. ~UNCHANGED <<sql, outbox>> /\ sql # None
      BY <3>1
    <3>3. ~Import(o.tx)
      BY <3>2 DEF Import
    <3> QED BY <1>1, <3>1, <3>2, <3>3 DEF Authority, Bind
  <2> QED BY <1>7, <2>8, <2>9
<1>9. CASE UNCHANGED <<sql, outbox>>
  <2>1. \A r \in Rows : r \in Rows' /\ outbox'[r].tx = outbox[r].tx
    BY <1>9 DEF Rows
  <2>2. CASE Unwind(p) /\ o.pc = "bind"
    <3>1. \E n : Leaves(p, n) /\ Steady(p, n)
      BY <1>1, <1>2, <2>2, UnwindLeaves
    <3> QED BY <1>6, <1>9, <3>1
  <2>3. CASE Release(p, Idle)
    <3>1. Leaves(p, Idle) /\ Steady(p, Idle)
      BY <1>2, <2>3, IdleWaits, ReleaseLeaves DEF Idle
    <3> QED BY <1>6, <1>9, <3>1
  <2>4. CASE Step(p, "prepare") /\ UNCHANGED lock /\ o.pc = "authority"
    <3>1. PICK n : n = [o EXCEPT !.pc = "prepare"]
      OBVIOUS
    <3>2. op' = [op EXCEPT ![p] = n] /\ n.pc = "prepare" /\ n.tx = o.tx /\ n.mode = o.mode
      BY <1>1, <1>2, <2>4, <3>1 DEF Step, Running
    <3>3. Sound => RunImageOK(n)
      BY <1>4, <2>4, <3>2 DEF RunImageOK
    <3> QED BY <1>2, <2>1, <2>4, <3>2, <3>3, ImagesKept
  <2>5. CASE /\ op' = [op EXCEPT ![p].pc = "commit", ![p].tx.authority = TRUE]
             /\ UNCHANGED lock
    BY <1>7, <2>1, <2>5
  <2>6. CASE Import(o.tx) /\ UNCHANGED <<op, lock>>
    BY <1>5, <2>6
  <2>7. CASE Apply(o.tx)
    BY <1>8, <2>7
  <2>8. CASE Authority(p)
    BY <1>1, <2>3, <2>4, <2>6, <2>7, <2>8 DEF Authority, Holds
  <2>9. CASE Bind(p)
    BY <1>1, <2>2, <2>5, <2>6, <2>7, <2>9 DEF Bind, Holds
  <2> QED BY <2>8, <2>9
<1>10. \/ Import(o.tx) /\ UNCHANGED <<op, lock>>
       \/ Apply(o.tx)
       \/ UNCHANGED <<sql, outbox>>
  BY <1>1 DEF Authority, Bind
<1> QED BY <1>5, <1>8, <1>9, <1>10

\* A prepared event adds no image, and its transaction extends the projection.
LEMMA PrepareImages ==
    ASSUME StoreIInv, ImageIInv, NEW p \in Process, Prepare(p)
    PROVE  ImageIInv'
<1>1. PICK o : o = op[p]
  OBVIOUS
<1>2. /\ TypeOK /\ StoreOK /\ lock = p /\ o.pc = "prepare" /\ RunOK(o) /\ o \in Running
      /\ op \in [Process -> {Idle} \cup Waiting \cup Running]
      /\ UNCHANGED <<projection, files, sql, outbox, lock, faults>>
  BY <1>1, WhoRuns DEF Prepare, Holds
<1>3. PICK tx : tx = o.tx
  OBVIOUS
<1>4. tx \in Transaction
  BY <1>2, <1>3, RunningFields
<1>5. PICK e : e = [phase |-> "prepared", tx |-> tx]
  OBVIOUS
<1>6. e \in Event /\ e.phase = "prepared" /\ e.tx = tx /\ journal' = Append(journal, e)
  BY <1>1, <1>3, <1>4, <1>5 DEF Event, Prepare
<1>7. /\ Replayed' = Replayed
      /\ CommittedEvents' = CommittedEvents /\ PreparedTx' = PreparedTx \cup {tx}
  BY <1>2, <1>6, JournalGrows DEF TypeOK, Extended
<1>8. Replays' = Replays
  BY <1>2, <1>6, <1>7, ReplaysGrow, ReplayedIsOne DEF TypeOK
<1>9. \A r : CommittedAt(r)' = CommittedAt(r)
  <2>1. PICK m \in Nat : m = Len(journal)
    BY <1>2 DEF TypeOK
  <2>2. /\ Len(journal') = m + 1 /\ journal'[m + 1] = e
        /\ \A n \in 1 .. m : journal'[n] = journal[n]
    BY <1>2, <1>6, <2>1 DEF TypeOK
  <2>3. 1 .. m + 1 = (1 .. m) \cup {m + 1}
    OBVIOUS
  <2> QED BY <1>6, <2>1, <2>2, <2>3 DEF CommittedAt
<1>10. CommittedAsAccepted' <=> CommittedAsAccepted
  <2>1. \A r : \A n \in CommittedAt(r) : journal'[n] = journal[n]
    BY <1>2, <1>6 DEF CommittedAt, TypeOK
  <2>2. Rows' = Rows /\ outbox' = outbox
    BY <1>2 DEF Rows
  <2> QED BY <1>9, <2>1, <2>2 DEF CommittedAsAccepted
<1>11. (Replayable' <=> Replayable) /\ (Sound' <=> Sound) /\ (Covered' <=> Covered)
  BY <1>7, <1>10 DEF Replayable, Sound, Covered
<1>12. o.mode = "direct"
  BY <1>2 DEF RunOK, Beginning
<1>13. ASSUME Sound PROVE ReplaysOK'
  <2>1. Extends(tx, projection)
    BY <1>1, <1>2, <1>3, <1>12, <1>13 DEF ImageIInv, ImagesOK, RunImageOK
  <2>2. ReplaysOK
    BY <1>13 DEF ImageIInv
  <2> QED BY <1>2, <1>7, <1>8, <2>1, <2>2 DEF ReplaysOK
<1>14. PICK n : n = [o EXCEPT !.pc = "write"]
  OBVIOUS
<1>15. op' = [op EXCEPT ![p] = n]
  BY <1>1, <1>2, <1>14 DEF Prepare, Step
<1>16. n.pc = "write" /\ n.tx = tx /\ n.mode = o.mode
  BY <1>2, <1>3, <1>14 DEF Running
<1>17. ASSUME Sound PROVE RunImageOK(n)'
  <2>1. Extends(tx, projection)
    BY <1>1, <1>2, <1>3, <1>12, <1>17 DEF ImageIInv, ImagesOK, RunImageOK
  <2>2. Extends(tx, projection')
    BY <1>2, <2>1
  <2> QED BY <1>16, <2>2 DEF RunImageOK
<1>18. Replayable' => Covered'
  BY <1>11 DEF ImageIInv
<1> QED BY <1>2, <1>8, <1>11, <1>13, <1>15, <1>17, <1>18, ImagesMoved

\* A transaction that carries all entities brings its own image, whatever it
\* was before; one entity alone does so on top of what it was made on.
LEMMA WholeIs ==
    ASSUME NEW tx \in Transaction, NEW image \in Projection
    PROVE  /\ Projected(image, tx, TRUE) = WholeImage(tx)
           /\ Entity(tx) /\ Extends(tx, image) => Projected(image, tx, FALSE) = WholeImage(tx)
<1>1. Projected(image, tx, TRUE) = WholeImage(tx)
  BY DEF Projected, WholeImage
<1>2. ASSUME Entity(tx), Extends(tx, image)
      PROVE  Projected(image, tx, FALSE) = WholeImage(tx)
  <2>1. tx.ent \in [Kinds -> Content]
    BY TransactionFields
  <2>2. \A k \in Kinds : k \notin Touched(tx) => tx.ent[k] = image.ent[k]
    BY <1>2 DEF Extends
  <2>3. PICK ent : ent = [k \in Kinds |-> IF k \in Touched(tx) THEN tx.ent[k]
                                          ELSE image.ent[k]]
    OBVIOUS
  <2>4. ent = tx.ent
    BY <2>1, <2>2, <2>3
  <2>5. image.life = tx.life
    BY <1>2 DEF Extends
  <2> QED BY <2>3, <2>4, <2>5 DEF Projected, WholeImage
<1> QED BY <1>1, <1>2

\* The committed event adds the image of its transaction, or is there already.
LEMMA CommitEventImages ==
    ASSUME StoreIInv, ImageIInv, NEW p \in Process, CommitEvent(p)
    PROVE  ImageIInv'
<1>1. PICK o : o = op[p]
  OBVIOUS
<1>2. /\ TypeOK /\ StoreOK /\ lock = p /\ o.pc = "commit" /\ RunOK(o) /\ o \in Running
      /\ op \in [Process -> {Idle} \cup Waiting \cup Running]
      /\ UNCHANGED <<projection, files, sql, outbox, faults>>
  BY <1>1, WhoRuns DEF CommitEvent, Holds
<1>3. PICK tx : tx = o.tx
  OBVIOUS
<1>4. tx \in Transaction /\ Target(tx) \in Nat /\ tx.prev \in Nat /\ Target(tx) = tx.prev + 1
  BY <1>2, <1>3, RunningFields, TransactionFields
<1>5. PICK existing :
        existing = IF o.mode = "outbox" THEN CommittedAt(Target(tx)) ELSE {}
  OBVIOUS
<1>6. PICK n : n = [o EXCEPT !.pc = "project"]
  OBVIOUS
<1>7. n.pc = "project" /\ n.mode = o.mode /\ n.tx = tx
  BY <1>2, <1>3, <1>6 DEF Running
<1>8. PICK whole \in BOOLEAN : whole <=> WholeRun(o)
  OBVIOUS
<1>9. projection \in Projection
  BY <1>2 DEF TypeOK
<1>10. CASE Unwind(p) /\ UNCHANGED journal
  <2>1. \E x : Leaves(p, x) /\ Steady(p, x)
    BY <1>1, <1>2, <1>10, UnwindLeaves
  <2> QED BY <1>2, <1>10, <2>1, ImagesLeave DEF Durable
<1>11. CASE /\ existing # {} /\ journal' = journal
            /\ op' = [op EXCEPT ![p] = n] /\ lock' = lock
  <2>1. o.mode = "outbox"
    BY <1>5, <1>11
  <2>2. Target(tx) \in Rows /\ tx = outbox[Target(tx)].tx
    BY <1>2, <1>3, <2>1 DEF RunOK, Begun
  <2>3. PICK i \in CommittedAt(Target(tx)) : TRUE
    BY <1>5, <1>11
  <2>4. PICK e : e = journal[i]
    OBVIOUS
  <2>5. e \in CommittedEvents /\ Target(e.tx) = Target(tx)
    BY <2>3, <2>4 DEF CommittedAt, CommittedEvents
  <2>6. ASSUME Sound PROVE RunImageOK(n)
    <3>1. e.tx.ent = tx.ent /\ e.tx.life = tx.life
      BY <2>2, <2>3, <2>4, <2>6 DEF Sound, CommittedAsAccepted
    <3>2. WholeImage(e.tx) = WholeImage(tx)
      BY <2>5, <3>1 DEF WholeImage
    <3>3. WholeImage(tx) \in Replays
      BY <2>5, <2>6, <3>2 DEF ImageIInv, ReplaysOK
    <3>4. WholeRun(n) = TRUE
      BY <1>7, <2>1 DEF WholeRun
    <3>5. Projected(projection, tx, WholeRun(n)) \in Replays
      BY <1>4, <1>9, <3>3, <3>4, WholeIs
    <3> QED BY <1>7, <3>5 DEF RunImageOK
  <2> QED BY <1>2, <1>11, <2>6, ImagesQuiet DEF Durable
<1>12. CASE /\ journal' = Append(journal, Committed(p))
            /\ op' = [op EXCEPT ![p] = n] /\ lock' = lock
  <2>1. PICK e : e = Committed(p)
    OBVIOUS
  <2>2. e \in Event /\ e.phase = "committed" /\ e.tx = tx /\ e.whole = WholeRun(o)
    <3>1. e = [phase |-> "committed", id |-> EventId(p), tx |-> tx, whole |-> Whole(p)]
      BY <1>1, <1>3, <2>1 DEF Committed
    <3>2. EventId(p) \in Nat
      BY <1>1, <1>3, <1>4, TransactionFields DEF EventId
    <3>3. Whole(p) \in BOOLEAN /\ Whole(p) = WholeRun(o)
      BY <1>1 DEF Whole, Entity, WholeRun
    <3> QED BY <1>4, <3>1, <3>2, <3>3 DEF Event
  <2>3. /\ journal' \in Seq(Event) /\ Replayed' = Extended(Replayed, e)
        /\ CommittedEvents' = CommittedEvents \cup {e} /\ PreparedTx' = PreparedTx
        /\ Replays' = Replays \cup {Replayed'}
    BY <1>2, <1>12, <2>1, <2>2, JournalGrows, ReplaysGrow DEF TypeOK
  <2>4. Rows' = Rows /\ outbox' = outbox /\ projection' = projection
    BY <1>2 DEF Rows
  <2>5. ASSUME Replayable'
        PROVE  /\ Replayable /\ Replayed \in Projection /\ Replayed' \in Projection
               /\ Replayed.rev \in Nat /\ Replayed.rev = tx.prev
               /\ Replayed'.rev = Target(tx)
               /\ Replayed' = Projected(Replayed, tx, WholeRun(o))
    <3>1. Replayable
      BY <2>2, <2>3, <2>5, GapStays DEF Replayable
    <3>2. Replayed \in Projection /\ Replayed.rev \in Nat
      BY <1>2, <3>1, RevisionOf
    <3>3. Extended(Replayed, e) # Gap
      BY <2>3, <2>5 DEF Replayable
    <3> QED BY <2>2, <2>3, <3>1, <3>2, <3>3, ExtendedIs
  <2>6. Replayable' => Covered'
    <3> SUFFICES ASSUME Replayable', NEW r \in 1 .. Replayed'.rev
                 PROVE  \E c \in CommittedEvents' : Target(c.tx) = r
      BY DEF Covered
    <3>1. CASE r = Target(tx)
      BY <2>2, <2>3, <3>1
    <3>2. CASE r # Target(tx)
      <4>1. r \in 1 .. Replayed.rev
        BY <1>4, <2>5, <3>2
      <4>2. \E c \in CommittedEvents : Target(c.tx) = r
        BY <2>5, <4>1 DEF ImageIInv, Covered
      <4> QED BY <2>3, <4>2
    <3> QED BY <3>1, <3>2
  <2>7. ASSUME Sound' PROVE Sound
    <3>1. Replayable
      BY <2>5, <2>7 DEF Sound
    <3>2. PICK m \in Nat : m = Len(journal)
      BY <1>2 DEF TypeOK
    <3>3. Len(journal') = m + 1 /\ \A i \in 1 .. m : journal'[i] = journal[i]
      BY <1>2, <1>12, <2>1, <2>2, <3>2 DEF TypeOK
    <3>4. \A r : \A i \in CommittedAt(r) : i \in CommittedAt(r)' /\ journal'[i] = journal[i]
      BY <3>2, <3>3 DEF CommittedAt
    <3>5. CommittedAsAccepted
      BY <2>4, <2>7, <3>4 DEF Sound, CommittedAsAccepted
    <3> QED BY <3>1, <3>5 DEF Sound
  <2>8. ASSUME Sound'
        PROVE  /\ Replayed' = WholeImage(tx)
               /\ Projected(projection, tx, WholeRun(o)) = Replayed'
    <3>1. Sound /\ ReplaysOK /\ RunImageOK(o)
      BY <1>1, <1>2, <2>7, <2>8 DEF ImageIInv, ImagesOK
    <3>2. Replayable'
      BY <2>8 DEF Sound
    <3>3. CASE WholeRun(o)
      <4>1. WholeRun(o) = TRUE
        BY <3>3 DEF WholeRun
      <4> QED BY <1>4, <1>9, <2>5, <3>2, <4>1, WholeIs
    <3>4. CASE ~WholeRun(o)
      <4>1. o.mode # "outbox" /\ Entity(tx) /\ WholeRun(o) = FALSE
        BY <1>3, <3>4 DEF WholeRun
      <4>2. Extends(tx, projection)
        BY <1>2, <1>3, <3>1, <4>1 DEF RunImageOK
      <4>3. projection.rev = Replayed.rev
        BY <2>5, <3>2, <4>2 DEF Extends
      <4>4. Replayed \in Replays
        BY <1>2, ReplayedIsOne DEF TypeOK
      <4>5. projection = Replayed
        BY <3>1, <4>3, <4>4 DEF ReplaysOK
      <4> QED BY <1>4, <1>9, <2>5, <3>2, <4>1, <4>2, <4>5, WholeIs
    <3> QED BY <3>3, <3>4
  <2>9. ASSUME Sound' PROVE ReplaysOK'
    <3>1. Sound /\ ReplaysOK /\ Replayable'
      BY <2>7, <2>9 DEF ImageIInv, Sound
    <3>2. Replayed'.rev = Replayed.rev + 1 /\ Replayed.rev \in Nat /\ Replayed' \in Projection
      BY <1>4, <2>5, <3>1
    <3>3. \A i \in Replays : i \in Projection /\ i.rev <= Replayed.rev /\ i.rev \in Nat
      BY <3>1 DEF ReplaysOK, Projection
    <3>4. \A i \in Replays' : i \in Projection /\ i.rev <= Replayed'.rev
      BY <2>3, <3>2, <3>3
    <3>5. ASSUME NEW i \in Replays', NEW j \in Replays', i.rev = j.rev PROVE i = j
      <4>1. \A k \in Replays : k.rev # Replayed'.rev
        BY <3>2, <3>3
      <4>2. i \in Replays /\ j \in Replays => i = j
        BY <3>1, <3>5 DEF ReplaysOK
      <4> QED BY <2>3, <3>5, <4>1, <4>2
    <3>6. \A c \in CommittedEvents' : WholeImage(c.tx) \in Replays'
      BY <2>2, <2>3, <2>8, <2>9, <3>1 DEF ReplaysOK
    <3>7. projection' \in Replays' /\ \A t \in PreparedTx' : \E i \in Replays' : Extends(t, i)
      BY <2>3, <2>4, <3>1 DEF ReplaysOK
    <3> QED BY <3>4, <3>5, <3>6, <3>7 DEF ReplaysOK
  <2>10. ASSUME Sound' PROVE RunImageOK(n)'
    <3>1. WholeRun(n) = WholeRun(o)
      BY <1>3, <1>7 DEF WholeRun
    <3>2. Projected(projection', tx, WholeRun(n)) \in Replays'
      BY <2>3, <2>4, <2>8, <2>10, <3>1
    <3> QED BY <1>7, <3>2 DEF RunImageOK
  <2> QED BY <1>2, <1>12, <2>3, <2>6, <2>7, <2>9, <2>10, ImagesMoved
<1> QED
  <2>1. \/ /\ journal' = IF existing = {} THEN Append(journal, Committed(p)) ELSE journal
           /\ Step(p, "project") /\ UNCHANGED lock
        \/ Unwind(p) /\ UNCHANGED journal
    BY <1>1, <1>3, <1>5 DEF CommitEvent
  <2>2. Step(p, "project") => op' = [op EXCEPT ![p] = n]
    BY <1>1, <1>2, <1>6 DEF Step
  <2> QED BY <1>10, <1>11, <1>12, <2>1, <2>2

\* A projection that is put in the place of another by the holder of the lock,
\* or by a rebuild, is an image of the journal.
LEMMA ImagesReplaced ==
    ASSUME StoreIInv, ImageIInv, NEW p \in Process, NEW o,
           op' = [op EXCEPT ![p] = o], lock' = lock, lock \in {p, None},
           UNCHANGED <<journal, outbox>>,
           Sound => projection' \in Replays,
           IF lock = p THEN o.pc \in {"deliver", "clean"} ELSE o.pc # "image"
    PROVE  ImageIInv'
<1>1. /\ Replays' = Replays /\ Replayed' = Replayed
      /\ CommittedEvents' = CommittedEvents /\ PreparedTx' = PreparedTx
  BY DEF Replays, Replayed, CommittedEvents, PreparedTx
<1>2. (Replayable' <=> Replayable) /\ (CommittedAsAccepted' <=> CommittedAsAccepted)
  BY <1>1 DEF Replayable, CommittedAsAccepted, Rows, CommittedAt
<1>3. Sound' <=> Sound
  BY <1>2 DEF Sound
<1>4. Replayable' => Covered'
  BY <1>1, <1>2 DEF ImageIInv, Covered
<1>5. Sound' => ReplaysOK'
  BY <1>1, <1>3 DEF ImageIInv, ReplaysOK
<1>6. IF lock' = p THEN RunImageOK(o)' ELSE WaitImageOK(o)'
  BY DEF RunImageOK, WaitImageOK
<1> QED BY <1>1, <1>3, <1>4, <1>5, <1>6, ImagesMoved

\* A run projects what it committed.
LEMMA ProjectImages ==
    ASSUME StoreIInv, ImageIInv, NEW p \in Process, Project(p)
    PROVE  ImageIInv'
<1>1. PICK o : o = op[p]
  OBVIOUS
<1>2. /\ TypeOK /\ lock = p /\ o.pc = "project" /\ o \in Running
      /\ op \in [Process -> {Idle} \cup Waiting \cup Running]
      /\ UNCHANGED <<journal, files, sql, outbox, lock, faults>>
  BY <1>1, WhoRuns DEF Project, Holds
<1>3. projection' = Projected(projection, o.tx, WholeRun(o))
  BY <1>1 DEF Project, Whole, WholeRun, Entity
<1>4. Sound => projection' \in Replays
  BY <1>1, <1>2, <1>3 DEF ImageIInv, ImagesOK, RunImageOK
<1>5. PICK pc : pc = IF o.tx.authority THEN "deliver" ELSE "clean"
  OBVIOUS
<1>6. PICK n : n = [o EXCEPT !.pc = pc]
  OBVIOUS
<1>7. op' = [op EXCEPT ![p] = n] /\ n.pc = pc
  BY <1>1, <1>2, <1>5, <1>6 DEF Project, Step, Running
<1> QED BY <1>2, <1>4, <1>5, <1>7, ImagesReplaced

\* A rebuild writes what it read, which may be an earlier image by then.
LEMMA RebuildWriteImages ==
    ASSUME StoreIInv, ImageIInv, NEW p \in Process, RebuildWrite(p)
    PROVE  ImageIInv'
<1>1. /\ lock = None /\ lock' = lock /\ op[p].pc = "image" /\ op' = [op EXCEPT ![p] = Idle]
      /\ journal' = journal /\ outbox' = outbox /\ projection' = op[p].image
  BY DEF RebuildWrite
<1>2. lock # p
  BY <1>1, WhoRuns
<1>3. Sound => projection' \in Replays
  BY <1>1, <1>2 DEF ImageIInv, ImagesOK, WaitImageOK
<1>4. Idle.pc # "image"
  BY DEF Idle
<1> QED BY <1>1, <1>2, <1>3, <1>4, ImagesReplaced

\* An empty journal has one image.
LEMMA InitImages ==
    ASSUME Init
    PROVE  ImageIInv
<1>1. /\ journal = <<>> /\ lock = None /\ projection = NewProjection
      /\ op = [p \in Process |-> Idle]
  BY DEF Init
<1>2. CommittedEvents = {} /\ PreparedTx = {}
  BY <1>1 DEF CommittedEvents, PreparedTx
<1>3. SubSeq(<<>>, 1, 0) = <<>> /\ 0 .. Len(<<>>) = {0}
  OBVIOUS
<1>4. Replays = {NewProjection} /\ Replayed = NewProjection
  BY <1>1, <1>3, ReplayOfNothing DEF Replays, Replayed
<1>5. NewProjection \in Projection /\ NewProjection.rev = 0
  BY NewProjectionIs DEF NewProjection
<1>6. Covered
  BY <1>4, <1>5 DEF Covered
<1>7. ReplaysOK
  BY <1>1, <1>2, <1>4, <1>5 DEF ReplaysOK
<1>8. ImagesOK
  BY <1>1, NoneAssumption DEF ImagesOK, WaitImageOK, Idle
<1> QED BY <1>6, <1>7, <1>8 DEF ImageIInv

\* Every step keeps the images in order.
LEMMA NextImages ==
    ASSUME StoreIInv, ImageIInv, [Next]_vars
    PROVE  ImageIInv'
<1>1. CASE UNCHANGED vars
  BY <1>1, NothingImages DEF vars, Durable
<1>2. CASE OutsideEdit
  BY <1>2, NothingImages DEF OutsideEdit, Durable
<1>3. ASSUME NEW p \in Process,
             \/ \E request \in EntityRequests : CommitEntity(p, request[1], request[2])
             \/ CommitActiveTaskBundle(p)
             \/ \E checkpointToo \in BOOLEAN : CommitContractContinuity(p, checkpointToo)
             \/ CompleteTaskState(p)
      PROVE  ImageIInv'
  BY <1>3, WritersImages
<1>4. ASSUME NEW p \in Process,
             Authority(p) \/ Prepare(p) \/ WriteFile(p) \/ Bind(p)
      PROVE  ImageIInv'
  BY <1>4, AuthoritiesImages, PrepareImages, WriteFileImages
<1>5. ASSUME NEW p \in Process,
             CommitEvent(p) \/ Project(p) \/ Deliver(p) \/ Publish(p)
      PROVE  ImageIInv'
  BY <1>5, CommitEventImages, ProjectImages, DeliveriesImages
<1>6. ASSUME NEW p \in Process,
             \/ Read(p) \/ GiveUp(p) \/ ReconcileRead(p) \/ OutboxRead(p)
             \/ RebuildRead(p) \/ RebuildWrite(p) \/ ReplayBegin(p) \/ OutboxBegin(p)
      PROVE  ImageIInv'
  BY <1>6, ReadersImages, RecoveriesImages, RebuildWriteImages
<1>7. ASSUME NEW p \in Process, Fail(p) \/ Crash(p) \/ CleanUp(p) \/ Rollback(p)
      PROVE  ImageIInv'
  BY <1>7, EndsImages
<1> QED BY <1>1, <1>2, <1>3, <1>4, <1>5, <1>6, <1>7 DEF Next

\* As long as the journal replays each of its revisions was committed; and as
\* long as that is what the authority accepted, whatever runs or waits is based
\* on an image of the journal.
THEOREM ImageInvariance == Spec => []ImageIInv
<1>1. Init => ImageIInv
  BY InitImages
<1>2. StoreIInv /\ ImageIInv /\ [Next]_vars => ImageIInv'
  BY NextImages
<1> QED BY <1>1, <1>2, StoreInvariance, PTL DEF Spec

\* The projection file is the replay of some part of the journal, never a
\* mixture of two revisions nor of files that were rolled back
\* (ProjectionIsAReplay).
THEOREM ProjectionReplays == Spec => []ProjectionIsAReplay
<1>1. ImageIInv => ProjectionIsAReplay
  BY DEF ImageIInv, Sound, ReplaysOK, ProjectionIsAReplay
<1> QED BY <1>1, ImageInvariance, PTL

----------------------------------------------------------------------------
(* The files. *)

\* The slots a list of commands is about.
To(left) == {left[n] : n \in 1 .. Len(left)}

\* What slot s may hold while tx is under way: what the writer saw, what it
\* leaves there, or what somebody else put there.
MayHold(tx, s) == {tx.seen[s], Desired(tx, s), Foreign}

\* Backups are what the transaction saw.
UndoOK(o) ==
    \A n \in 1 .. Len(o.undo) :
        o.undo[n].slot \in Touched(o.tx) /\ o.undo[n].before = o.tx.seen[o.undo[n].slot]

\* What is not to come any more is done.
WrittenOK(o) ==
    /\ o.pc \in {"authority", "prepare"} => o.left = o.tx.commands
    /\ o.pc \in {"bind", "commit"} => o.left = <<>>
    /\ o.pc \in {"write", "bind", "commit"} =>
        \A s \in Touched(o.tx) : files[s] \in {Desired(o.tx, s), Foreign} \/ s \in To(o.left)

\* A writer finds nothing else in its files, and has no committed event yet
\* wherever it may touch them; a continuity may have.
DirectOK(o) ==
    o.mode = "direct" =>
        /\ \A s \in Touched(o.tx) : files[s] \in MayHold(o.tx, s)
        /\ /\ o.pc \in {"authority", "prepare", "write", "bind", "commit", "rollback"}
           /\ o.tx.kind # "contract_continuity"
           => \A e \in CommittedEvents : e.tx.id # o.tx.id

RunFilesOK(o) ==
    /\ To(o.left) \subseteq Touched(o.tx)
    /\ UndoOK(o)
    /\ WrittenOK(o)
    /\ DirectOK(o)

FilesIInv == \A p \in Process : lock = p => RunFilesOK(op[p])

\* Naming an outbox row changes nothing that files depend on.
LEMMA CoreFiles ==
    ASSUME NEW tx \in Transaction
    PROVE  /\ Core(tx).seen = tx.seen
           /\ Touched(Core(tx)) = Touched(tx)
           /\ \A s : Desired(Core(tx), s) = Desired(tx, s)
<1>1. Core(tx).seen = tx.seen
  BY DEF Core, Transaction
<1> QED BY <1>1, CoreFields DEF Touched, Desired

\* A list of commands is its first one and the others.
LEMMA ToIs ==
    ASSUME NEW left \in Seq(Slots), left # <<>>
    PROVE  To(left) = {Head(left)} \cup To(Tail(left))
<1>1. PICK m \in Nat : m = Len(left)
  OBVIOUS
<1>2. PICK rest \in Seq(Slots) : rest = Tail(left)
  BY HeadAndTail
<1>3. m > 0 /\ Len(rest) = m - 1 /\ \A n \in 1 .. m - 1 : rest[n] = left[n + 1]
  BY <1>1, <1>2
<1>4. 1 \in 1 .. m /\ Head(left) = left[1]
  BY <1>1, <1>3
<1>5. \A n \in 1 .. m : n = 1 \/ (n - 1 \in 1 .. m - 1 /\ left[n] = rest[n - 1])
  BY <1>3
<1>6. \A n \in 1 .. m - 1 : n + 1 \in 1 .. m
  BY <1>3
<1>7. To(left) \subseteq {Head(left)} \cup To(rest)
  BY <1>1, <1>3, <1>4, <1>5 DEF To
<1>8. {Head(left)} \cup To(rest) \subseteq To(left)
  BY <1>1, <1>3, <1>4, <1>6 DEF To
<1> QED BY <1>2, <1>7, <1>8

\* A step of p keeps the files in order if it leaves p's in order, and those of
\* another holder of the lock alone.
LEMMA FilesMoved ==
    ASSUME StoreIInv, FilesIInv, NEW p \in Process, NEW o,
           op' = [op EXCEPT ![p] = o],
           lock' \in {lock, None} \/ (lock = None /\ lock' = p),
           lock \in {p, None} \/ UNCHANGED <<files, journal>>,
           lock' = p => RunFilesOK(o)'
    PROVE  FilesIInv'
<1>1. op'[p] = o /\ \A q \in Process : q # p => op'[q] = op[q]
  BY DEF StoreIInv, TypeOK
<1>2. ASSUME NEW q \in Process, lock' = q PROVE RunFilesOK(op[q])'
  <2>1. PICK u : u = op'[q]
    OBVIOUS
  <2>2. CASE q = p
    <3>1. u = o /\ RunFilesOK(o)'
      BY <1>1, <1>2, <2>1, <2>2
    <3>2. RunFilesOK(u)'
      BY <3>1
    <3> QED BY <2>1, <3>2 DEF RunFilesOK, UndoOK, WrittenOK, DirectOK
  <2>3. CASE q # p
    <3>1. lock = q /\ files' = files /\ journal' = journal /\ u = op[q]
      BY <1>1, <1>2, <2>1, <2>3, NoneAssumption
    <3>2. RunFilesOK(u)
      BY <3>1 DEF FilesIInv
    <3>3. RunFilesOK(u)'
      BY <3>1, <3>2 DEF RunFilesOK, UndoOK, WrittenOK, DirectOK, CommittedEvents
    <3> QED BY <2>1, <3>3 DEF RunFilesOK, UndoOK, WrittenOK, DirectOK
  <2> QED BY <2>2, <2>3
<1> QED BY <1>2 DEF FilesIInv

\* The same for a run that goes on where files and journal stay.
LEMMA FilesQuiet ==
    ASSUME StoreIInv, FilesIInv, NEW p \in Process, NEW o,
           op' = [op EXCEPT ![p] = o],
           lock' \in {lock, None} \/ (lock = None /\ lock' = p),
           UNCHANGED <<files, journal>>,
           lock' = p => RunFilesOK(o)
    PROVE  FilesIInv'
<1>1. lock' = p => RunFilesOK(o)'
  BY DEF RunFilesOK, UndoOK, WrittenOK, DirectOK, CommittedEvents
<1> QED BY <1>1, FilesMoved

\* Giving up before the committed event: nothing is known of the end but that
\* it is a rollback of the same run.
LEMMA UnwindFiles ==
    ASSUME StoreIInv, FilesIInv, NEW p \in Process, lock = p, Unwind(p),
           UNCHANGED <<files, journal>>,
           op[p].pc \in {"write", "bind", "commit"} \/ op[p].tx.kind = "contract_continuity"
    PROVE  FilesIInv'
<1>1. PICK o : o = op[p]
  OBVIOUS
<1>2. o \in Running /\ RunFilesOK(o) /\ p # None
  BY <1>1, WhoRuns, NoneAssumption DEF FilesIInv
<1>3. CASE op' = [op EXCEPT ![p].pc = "rollback"] /\ UNCHANGED lock
  <2>1. PICK n : n = [o EXCEPT !.pc = "rollback"]
    OBVIOUS
  <2>2. op' = [op EXCEPT ![p] = n]
    BY <1>1, <1>3, <2>1
  <2>3. /\ n.pc = "rollback" /\ n.mode = o.mode /\ n.tx = o.tx /\ n.left = o.left
        /\ n.undo = o.undo
    BY <1>2, <2>1 DEF Running
  <2>4. RunFilesOK(n)
    BY <1>1, <1>2, <2>3 DEF RunFilesOK, UndoOK, WrittenOK, DirectOK
  <2> QED BY <1>3, <2>2, <2>4, FilesQuiet
<1>4. CASE \E x : Release(p, x)
  <2>1. PICK x : Release(p, x)
    BY <1>4
  <2> QED BY <1>2, <2>1, FilesQuiet DEF Release
<1> QED BY <1>3, <1>4 DEF Unwind

\* Leaving the lock does not touch files, nor does a step that reads them.
LEMMA ReleaseFiles ==
    ASSUME StoreIInv, FilesIInv, NEW p \in Process, NEW o, Release(p, o), lock = p
    PROVE  FilesIInv'
BY NoneAssumption, FilesMoved DEF Release

\* The ends of a run but the rollback.
LEMMA EndsFiles ==
    ASSUME StoreIInv, FilesIInv, NEW p \in Process,
           Fail(p) \/ Crash(p) \/ CleanUp(p) \/ FailLate(p), lock = p,
           UNCHANGED <<files, journal>>
    PROVE  FilesIInv'
<1>1. CASE Unwind(p) /\ (op[p].pc \in {"write", "bind", "commit"}
                         \/ op[p].tx.kind = "contract_continuity")
  BY <1>1, UnwindFiles
<1>2. CASE \E x : Release(p, x)
  BY <1>2, ReleaseFiles
<1>3. FailLate(p) => \/ \E x : Release(p, x)
                     \/ Unwind(p) /\ op[p].tx.kind = "contract_continuity"
  BY DEF FailLate
<1>4. ASSUME Fail(p)
      PROVE  \/ \E x : Release(p, x)
             \/ Unwind(p) /\ op[p].pc \in {"write", "bind", "commit"}
             \/ FailLate(p)
  <2>1. PICK pc : pc = op[p].pc
    OBVIOUS
  <2>2. pc \in {"authority", "prepare", "write", "bind", "commit", "project",
                "deliver", "publish", "clean", "rollback"}
    BY <2>1, WhoRuns, RunningFields
  <2>3. CASE pc \in {"authority", "prepare"}
    <3>1. Release(p, Idle)
      BY <1>4, <2>1, <2>3 DEF Fail
    <3> QED BY <3>1
  <2>4. CASE pc \in {"write", "bind", "commit"}
    <3>1. Unwind(p)
      BY <1>4, <2>1, <2>4 DEF Fail
    <3> QED BY <2>1, <2>4, <3>1
  <2>5. CASE pc \in {"project", "deliver", "publish", "clean"}
    <3>1. Release(p, Idle) \/ FailLate(p)
      BY <1>4, <2>1, <2>5 DEF Fail
    <3> QED BY <3>1
  <2>6. CASE pc = "rollback"
    <3>1. Release(p, Next_(p, FALSE))
      BY <1>4, <2>1, <2>6 DEF Fail
    <3> QED BY <3>1
  <2> QED BY <2>2, <2>3, <2>4, <2>5, <2>6
<1> QED BY <1>1, <1>2, <1>3, <1>4 DEF Crash, CleanUp

\* A restored file is what the transaction saw.
LEMMA RollbackFiles ==
    ASSUME StoreIInv, FilesIInv, NEW p \in Process, Rollback(p)
    PROVE  /\ FilesIInv'
           /\ \A s \in Slots : files'[s] # files[s] =>
                /\ s \in Touched(op[p].tx)
                /\ files[s] = Desired(op[p].tx, s) /\ files'[s] = op[p].tx.seen[s]
<1>1. PICK o : o = op[p]
  OBVIOUS
<1>2. /\ TypeOK /\ lock = p /\ o.pc = "rollback" /\ RunOK(o) /\ o \in Running
      /\ RunFilesOK(o) /\ p # None /\ journal' = journal
      /\ op \in [Process -> {Idle} \cup Waiting \cup Running]
  BY <1>1, WhoRuns, NoneAssumption DEF Rollback, Holds, FilesIInv
<1>3. PICK last, rest : last = Head(o.undo) /\ rest = Tail(o.undo)
  OBVIOUS
<1>4. o.undo \in Seq([slot: Slots, before: Content]) /\ o.undo # <<>>
  BY <1>2, RunningFields DEF RunOK
<1>5. /\ Len(o.undo) \in Nat /\ Len(o.undo) > 0 /\ last = o.undo[1]
      /\ rest \in Seq([slot: Slots, before: Content]) /\ Len(rest) = Len(o.undo) - 1
      /\ \A n \in 1 .. Len(rest) : rest[n] = o.undo[n + 1]
  BY <1>3, <1>4
<1>6. PICK s : s = last.slot
  OBVIOUS
<1>7. s \in Touched(o.tx) /\ last.before = o.tx.seen[s]
  <2>1. 1 \in 1 .. Len(o.undo)
    BY <1>5
  <2> QED BY <1>2, <1>5, <1>6, <2>1 DEF RunFilesOK, UndoOK
<1>8. s \in Slots /\ files \in [Slots -> Content]
  <2>1. last \in [slot: Slots, before: Content]
    BY <1>3, <1>4, HeadAndTail
  <2> QED BY <1>2, <1>6, <2>1 DEF TypeOK
<1>9. \/ files' = files
      \/ files[s] = Desired(o.tx, s) /\ files' = [files EXCEPT ![s] = o.tx.seen[s]]
  BY <1>1, <1>3, <1>6, <1>7 DEF Rollback
<1>10. \A t \in Slots : files'[t] # files[t] =>
            /\ t \in Touched(o.tx)
            /\ files[t] = Desired(o.tx, t) /\ files'[t] = o.tx.seen[t]
  BY <1>7, <1>8, <1>9
<1>11. CASE \E x : Release(p, x)
  BY <1>1, <1>2, <1>10, <1>11, ReleaseFiles
<1>12. CASE op' = [op EXCEPT ![p].undo = rest] /\ UNCHANGED lock
  <2>1. PICK n : n = [o EXCEPT !.undo = rest]
    OBVIOUS
  <2>2. op' = [op EXCEPT ![p] = n]
    BY <1>1, <1>12, <2>1
  <2>3. /\ n.pc = "rollback" /\ n.mode = o.mode /\ n.tx = o.tx /\ n.left = o.left
        /\ n.undo = rest
    BY <1>2, <2>1 DEF Running
  <2>4. UndoOK(n)
    <3>1. \A i \in 1 .. Len(rest) : i + 1 \in 1 .. Len(o.undo)
      BY <1>5
    <3> QED BY <1>2, <1>5, <2>3, <3>1 DEF RunFilesOK, UndoOK
  <2>5. DirectOK(n)'
    <3>1. o.tx \in Transaction
      BY <1>2, RunningFields
    <3>2. Touched(o.tx) \subseteq Slots
      BY <3>1, TransactionFields DEF Touched
    <3>3. o.mode = "direct" => \A t \in Touched(o.tx) : files'[t] \in MayHold(o.tx, t)
      BY <1>2, <1>10, <3>2 DEF RunFilesOK, DirectOK, MayHold
    <3>4. CommittedEvents' = CommittedEvents
      BY <1>2 DEF CommittedEvents
    <3> QED BY <1>2, <2>3, <3>3, <3>4 DEF RunFilesOK, DirectOK
  <2>6. RunFilesOK(n)'
    BY <1>2, <2>3, <2>4, <2>5 DEF RunFilesOK, UndoOK, WrittenOK
  <2>7. FilesIInv'
    BY <1>2, <1>12, <2>2, <2>6, FilesMoved
  <2> QED BY <1>1, <1>10, <2>7
<1>13. FilesIInv'
  BY <1>3, <1>11, <1>12, <1>1 DEF Rollback
<1> QED BY <1>1, <1>10, <1>13

\* One command more is done, from what the transaction saw.
LEMMA WriteFileFiles ==
    ASSUME StoreIInv, FilesIInv, NEW p \in Process, WriteFile(p)
    PROVE  /\ FilesIInv'
           /\ \A s \in Slots : files'[s] # files[s] =>
                /\ s \in Touched(op[p].tx)
                /\ files[s] = op[p].tx.seen[s] /\ files'[s] = Desired(op[p].tx, s)
<1>1. PICK o : o = op[p]
  OBVIOUS
<1>2. /\ TypeOK /\ lock = p /\ o.pc = "write" /\ RunOK(o) /\ o \in Running
      /\ RunFilesOK(o) /\ journal' = journal
      /\ op \in [Process -> {Idle} \cup Waiting \cup Running]
      /\ files \in [Slots -> Content]
  BY <1>1, WhoRuns DEF WriteFile, Holds, FilesIInv, TypeOK
<1>3. PICK s, rest : s = Head(o.left) /\ rest = Tail(o.left)
  OBVIOUS
<1>4. /\ s \in Slots /\ rest \in Seq(Slots) /\ o.left \in Seq(Slots) /\ o.left # <<>>
      /\ o.tx \in Transaction
  BY <1>2, <1>3, HeadAndTail, RunningFields DEF RunOK
<1>5. To(o.left) = {s} \cup To(rest) /\ s \in Touched(o.tx)
  BY <1>2, <1>3, <1>4, ToIs DEF RunFilesOK
<1>6. Touched(o.tx) \subseteq Slots
  BY <1>4, TransactionFields DEF Touched
<1>7. CommittedEvents' = CommittedEvents
  BY <1>2 DEF CommittedEvents
<1>8. PICK after \in {"write", "bind", "commit"} :
        after = IF rest # <<>> THEN "write"
                ELSE IF o.tx.kind = "contract_continuity" /\ o.mode # "outbox"
                THEN "bind" ELSE "commit"
  OBVIOUS
<1>9. ASSUME NEW undo,
             op' = [op EXCEPT ![p] = [o EXCEPT !.pc = after, !.left = rest, !.undo = undo]],
             lock' = lock, UndoOK([o EXCEPT !.undo = undo]),
             files'[s] = Desired(o.tx, s),
             \A t \in Slots : t # s => files'[t] = files[t]
      PROVE  FilesIInv'
  <2>1. PICK n : n = [o EXCEPT !.pc = after, !.left = rest, !.undo = undo]
    OBVIOUS
  <2>2. PICK u : u = [o EXCEPT !.undo = undo]
    OBVIOUS
  <2>3. u.undo = undo /\ u.tx = o.tx /\ UndoOK(u)
    BY <1>2, <1>9, <2>2 DEF Running
  <2>4. n.pc = after /\ n.mode = o.mode /\ n.tx = o.tx /\ n.left = rest /\ n.undo = undo
    BY <1>2, <2>1 DEF Running
  <2>5. UndoOK(n)
    BY <2>3, <2>4 DEF UndoOK
  <2>6. ASSUME NEW t \in Touched(o.tx)
        PROVE  files'[t] \in {Desired(o.tx, t), Foreign} \/ t \in To(rest)
    <3>1. t = s \/ files'[t] = files[t]
      BY <1>6, <1>9
    <3>2. files[t] \in {Desired(o.tx, t), Foreign} \/ t \in To(o.left)
      BY <1>2 DEF RunFilesOK, WrittenOK
    <3> QED BY <1>5, <1>9, <3>1, <3>2
  <2>7. WrittenOK(n)'
    <3>1. after \in {"bind", "commit"} => rest = <<>>
      BY <1>8
    <3> QED BY <1>8, <2>4, <2>6, <3>1 DEF WrittenOK
  <2>8. ASSUME o.mode = "direct", NEW t \in Touched(o.tx) PROVE files'[t] \in MayHold(o.tx, t)
    <3>1. t = s \/ files'[t] = files[t]
      BY <1>6, <1>9
    <3>2. files[t] \in MayHold(o.tx, t)
      BY <1>2, <2>8 DEF RunFilesOK, DirectOK
    <3> QED BY <1>9, <3>1, <3>2 DEF MayHold
  <2>9. DirectOK(n)'
    BY <1>2, <1>7, <2>4, <2>8 DEF RunFilesOK, DirectOK
  <2>10. RunFilesOK(n)'
    <3>1. To(rest) \subseteq Touched(o.tx)
      BY <1>2, <1>5 DEF RunFilesOK
    <3> QED BY <2>4, <2>5, <2>7, <2>9, <3>1 DEF RunFilesOK, UndoOK
  <2> QED BY <1>2, <1>9, <2>1, <2>10, FilesMoved
<1>10. CASE /\ files[s] = Desired(o.tx, s)
            /\ op' = [op EXCEPT ![p].pc = after, ![p].left = rest]
            /\ UNCHANGED <<files, lock>>
  <2>1. op' = [op EXCEPT ![p] = [o EXCEPT !.pc = after, !.left = rest]]
    BY <1>1, <1>2, <1>10
  <2>2. [o EXCEPT !.pc = after, !.left = rest]
            = [o EXCEPT !.pc = after, !.left = rest, !.undo = o.undo]
    BY <1>2 DEF Running
  <2>3. o = [o EXCEPT !.undo = o.undo]
    BY <1>2 DEF Running
  <2>4. UndoOK([o EXCEPT !.undo = o.undo])
    BY <1>2, <2>3 DEF RunFilesOK
  <2>5. FilesIInv'
    BY <1>9, <1>10, <2>1, <2>2, <2>4
  <2> QED BY <1>10, <2>5
<1>11. CASE /\ files[s] = o.tx.seen[s]
            /\ files' = [files EXCEPT ![s] = Desired(o.tx, s)]
            /\ op' = [op EXCEPT ![p].pc = after, ![p].left = rest,
                                ![p].undo = <<[slot |-> s, before |-> files[s]]>> \o @]
            /\ UNCHANGED lock
  <2>1. PICK entry : entry = [slot |-> s, before |-> files[s]]
    OBVIOUS
  <2>2. entry \in [slot: Slots, before: Content] /\ entry.slot = s /\ entry.before = o.tx.seen[s]
    BY <1>2, <1>4, <1>11, <2>1
  <2>3. PICK undo : undo = <<entry>> \o o.undo
    OBVIOUS
  <2>4. op' = [op EXCEPT ![p] = [o EXCEPT !.pc = after, !.left = rest, !.undo = undo]]
    BY <1>1, <1>2, <1>11, <2>1, <2>3 DEF Running
  <2>5. PICK u : u = [o EXCEPT !.undo = undo]
    OBVIOUS
  <2>6. u.undo = undo /\ u.tx = o.tx
    BY <1>2, <2>5 DEF Running
  <2>7. o.undo \in Seq([slot: Slots, before: Content])
    BY <1>2, RunningFields
  <2>8. PICK m \in Nat : m = Len(o.undo)
    BY <2>7
  <2>9. /\ Len(undo) = m + 1 /\ undo[1] = entry
        /\ \A n \in 2 .. m + 1 : undo[n] = o.undo[n - 1]
    BY <2>2, <2>3, <2>7, <2>8
  <2>10. \A n \in 1 .. m + 1 : n = 1 \/ (n \in 2 .. m + 1 /\ n - 1 \in 1 .. m)
    BY <2>8
  <2>11. \A n \in 1 .. m : o.undo[n].slot \in Touched(o.tx)
                           /\ o.undo[n].before = o.tx.seen[o.undo[n].slot]
    BY <1>2, <2>8 DEF RunFilesOK, UndoOK
  <2>12. UndoOK(u)
    BY <1>5, <2>2, <2>6, <2>9, <2>10, <2>11 DEF UndoOK
  <2>13. FilesIInv'
    BY <1>2, <1>4, <1>9, <1>11, <2>4, <2>5, <2>12
  <2> QED BY <1>1, <1>2, <1>4, <1>5, <1>11, <2>13
<1>12. CASE /\ Release(p, Next_(p, FALSE)) \/ Unwind(p)
            /\ UNCHANGED files
  <2>1. FilesIInv'
    BY <1>1, <1>2, <1>12, ReleaseFiles, UnwindFiles
  <2> QED BY <1>12, <2>1
<1>13. \/ /\ files[s] = Desired(o.tx, s)
          /\ op' = [op EXCEPT ![p].pc = after, ![p].left = rest]
          /\ UNCHANGED <<files, lock>>
       \/ /\ files[s] = o.tx.seen[s]
          /\ files' = [files EXCEPT ![s] = Desired(o.tx, s)]
          /\ op' = [op EXCEPT ![p].pc = after, ![p].left = rest,
                              ![p].undo = <<[slot |-> s, before |-> files[s]]>> \o @]
          /\ UNCHANGED lock
       \/ /\ Release(p, Next_(p, FALSE)) \/ Unwind(p)
          /\ UNCHANGED files
  BY <1>1, <1>3, <1>8 DEF WriteFile
<1> QED BY <1>10, <1>11, <1>12, <1>13

\* A run that starts has all its commands to come and no backups.
LEMMA RunFiles ==
    ASSUME NEW mode, NEW pc \in {"authority", "prepare", "write"}, NEW tx, NEW todo, NEW known,
           mode = "direct" =>
               /\ \A s \in Touched(tx) : files[s] \in MayHold(tx, s)
               /\ \A e \in CommittedEvents : e.tx.id # tx.id
    PROVE  RunFilesOK(Run(mode, pc, tx, todo, known))
<1>1. PICK o : o = Run(mode, pc, tx, todo, known)
  OBVIOUS
<1>2. /\ o.mode = mode /\ o.pc = pc /\ o.tx = tx /\ o.left = tx.commands /\ o.undo = <<>>
  BY <1>1 DEF Run
<1>3. To(tx.commands) = Touched(tx)
  BY DEF To, Touched
<1>4. UndoOK(o)
  BY <1>2 DEF UndoOK
<1>5. WrittenOK(o)
  BY <1>2, <1>3 DEF WrittenOK
<1>6. DirectOK(o)
  BY <1>2 DEF DirectOK
<1>7. RunFilesOK(o)
  BY <1>2, <1>3, <1>4, <1>5, <1>6 DEF RunFilesOK
<1> QED BY <1>1, <1>7

\* A writer begins with the files as they are and an id of its own.
LEMMA BeginFiles ==
    ASSUME StoreIInv, StoreIInv', FilesIInv, NEW p \in Process,
           NEW kind, NEW ent, NEW life, NEW commands, NEW first \in {"authority", "prepare"},
           Begin(p, kind, ent, life, commands, first)
    PROVE  FilesIInv' /\ UNCHANGED <<files, journal>>
<1>1. PICK known : known = op[p].known
  OBVIOUS
<1>2. PICK tx : tx = [id |-> NewId, kind |-> kind, prev |-> projection.rev,
                      ent |-> ent, life |-> life, commands |-> commands,
                      seen |-> files, authority |-> FALSE]
  OBVIOUS
<1>3. PICK o : o = Run("direct", first, tx, {}, known)
  OBVIOUS
<1>4. /\ lock = None /\ lock' = p /\ op' = [op EXCEPT ![p] = o]
      /\ UNCHANGED <<files, journal>>
  BY <1>1, <1>2, <1>3 DEF Begin
<1>5. o = op'[p]
  BY <1>4, WhoRuns
<1>6. RunOK(op[p])'
  BY <1>4 DEF StoreIInv, ProcessesOK
<1>7. Beginning(op[p])'
  <2>1. op'[p].pc = first
    BY <1>3, <1>5 DEF Run
  <2> QED BY <1>6, <2>1 DEF RunOK
<1>8. \A t \in JournalTx' : t.id # tx.id
  <2>1. op'[p].tx = tx
    BY <1>3, <1>5 DEF Run
  <2> QED BY <1>7, <2>1 DEF Beginning
<1>9. \A e \in CommittedEvents : e.tx \in JournalTx
  BY JournalSets DEF StoreIInv, TypeOK
<1>10. \A e \in CommittedEvents : e.tx.id # tx.id
  BY <1>4, <1>8, <1>9 DEF JournalTx
<1>11. \A s \in Touched(tx) : files[s] \in MayHold(tx, s)
  BY <1>2 DEF MayHold
<1>12. RunFilesOK(o)
  BY <1>3, <1>10, <1>11, RunFiles
<1> QED BY <1>4, <1>12, FilesQuiet

\* The five operations of a writer.
LEMMA WritersFiles ==
    ASSUME StoreIInv, StoreIInv', FilesIInv, NEW p \in Process,
           \/ \E request \in EntityRequests : CommitEntity(p, request[1], request[2])
           \/ CommitActiveTaskBundle(p)
           \/ \E checkpointToo \in BOOLEAN : CommitContractContinuity(p, checkpointToo)
           \/ CompleteTaskState(p)
    PROVE  FilesIInv' /\ UNCHANGED <<files, journal>>
<1>1. \E kind, ent, life, commands : \E first \in {"authority", "prepare"} :
        Begin(p, kind, ent, life, commands, first)
  <2>1. ASSUME NEW request, CommitEntity(p, request[1], request[2])
        PROVE  \E kind, ent, life, commands :
                    Begin(p, kind, ent, life, commands, "authority")
    BY <2>1 DEF CommitEntity
  <2>2. CommitActiveTaskBundle(p) =>
            \E kind, ent, life, commands : Begin(p, kind, ent, life, commands, "authority")
    BY DEF CommitActiveTaskBundle
  <2>3. ASSUME NEW checkpointToo, CommitContractContinuity(p, checkpointToo)
        PROVE  \E kind, ent, life, commands :
                    Begin(p, kind, ent, life, commands, "prepare")
    BY <2>3 DEF CommitContractContinuity
  <2>4. CompleteTaskState(p) =>
            \E kind, ent, life, commands : Begin(p, kind, ent, life, commands, "authority")
    BY DEF CompleteTaskState
  <2> QED BY <2>1, <2>2, <2>3, <2>4
<1> QED BY <1>1, BeginFiles

\* Whoever waits leaves the files alone; a replay starts with all its commands.
LEMMA WaitingFiles ==
    ASSUME StoreIInv, FilesIInv, NEW p \in Process,
           \/ Read(p) \/ GiveUp(p) \/ ReconcileRead(p) \/ OutboxRead(p)
           \/ RebuildRead(p) \/ RebuildWrite(p) \/ ReplayBegin(p) \/ OutboxBegin(p)
    PROVE  FilesIInv' /\ UNCHANGED <<files, journal>>
<1>1. UNCHANGED <<files, journal>>
  BY DEF Read, GiveUp, ReconcileRead, OutboxRead, RebuildRead, RebuildWrite,
     ReplayBegin, OutboxBegin
<1>2. lock # p
  <2>1. GiveUp(p) => lock # p
    BY DEF GiveUp
  <2>2. op[p] = Idle \/ op[p].pc \in {"outbox", "rebuild", "idle"} => lock # p
    BY WhoRuns, RunningFields DEF Idle
  <2>3. lock = None => lock # p
    BY WhoRuns
  <2> QED BY <2>1, <2>2, <2>3 DEF Read, ReconcileRead, OutboxRead, RebuildRead, RebuildWrite,
             ReplayBegin, OutboxBegin
<1>3. ASSUME NEW o, op' = [op EXCEPT ![p] = o], lock' = lock
      PROVE  FilesIInv'
  BY <1>1, <1>2, <1>3, FilesQuiet
<1>4. ASSUME lock = None, lock' = p, NEW mode \in {"replay", "outbox"}, NEW tx, NEW todo,
             op' = [op EXCEPT ![p] = Run(mode, "write", tx, todo, None)]
      PROVE  FilesIInv'
  <2>1. PICK o : o = Run(mode, "write", tx, todo, None)
    OBVIOUS
  <2>2. RunFilesOK(o)
    BY <2>1, RunFiles
  <2> QED BY <1>1, <1>4, <2>1, <2>2, FilesQuiet
<1>5. CASE \/ Read(p) \/ GiveUp(p) \/ ReconcileRead(p) \/ OutboxRead(p)
           \/ RebuildRead(p) \/ RebuildWrite(p)
  <2>1. lock' = lock
    BY <1>5 DEF Read, GiveUp, ReconcileRead, OutboxRead, RebuildRead, RebuildWrite
  <2>2. \E o : op' = [op EXCEPT ![p] = o]
    <3>1. Read(p) => \E o : op' = [op EXCEPT ![p] = o]
      BY DEF Read
    <3>2. GiveUp(p) => \E o : op' = [op EXCEPT ![p] = o]
      BY DEF GiveUp
    <3>3. ReconcileRead(p) => \E o : op' = [op EXCEPT ![p] = o]
      BY DEF ReconcileRead
    <3>4. OutboxRead(p) => \E o : op' = [op EXCEPT ![p] = o]
      BY DEF OutboxRead
    <3>5. RebuildRead(p) => \E o : op' = [op EXCEPT ![p] = o]
      BY DEF RebuildRead
    <3>6. RebuildWrite(p) => \E o : op' = [op EXCEPT ![p] = o]
      BY DEF RebuildWrite
    <3> QED BY <1>5, <3>1, <3>2, <3>3, <3>4, <3>5, <3>6
  <2> QED BY <1>1, <1>3, <2>1, <2>2
<1>6. CASE ReplayBegin(p)
  <2>1. PICK tx : tx = op[p].tx
    OBVIOUS
  <2>2. \/ lock' = p /\ op' = [op EXCEPT ![p] = Run("replay", "write", tx, {}, None)]
        \/ lock' = lock /\ \E o : op' = [op EXCEPT ![p] = o]
    BY <1>6, <2>1 DEF ReplayBegin
  <2>3. lock = None
    BY <1>6 DEF ReplayBegin
  <2> QED BY <1>1, <1>3, <1>4, <2>2, <2>3
<1>7. CASE OutboxBegin(p)
  <2>1. PICK todo, r, tx : todo = op[p].todo /\ r = Oldest(todo) /\ tx = outbox[r].tx
    OBVIOUS
  <2>2. \/ lock' = p /\ op' = [op EXCEPT ![p] = Run("outbox", "write", tx, todo, None)]
        \/ lock' = lock /\ \E o : op' = [op EXCEPT ![p] = o]
    BY <1>7, <2>1 DEF OutboxBegin
  <2>3. lock = None
    BY <1>7 DEF OutboxBegin
  <2> QED BY <1>1, <1>3, <1>4, <2>2, <2>3
<1> QED BY <1>5, <1>6, <1>7

\* Moving the authority goes on with the same run; a continuity may be given up.
LEMMA AuthoritiesFiles ==
    ASSUME StoreIInv, FilesIInv, NEW p \in Process, Authority(p) \/ Bind(p)
    PROVE  FilesIInv' /\ UNCHANGED <<files, journal>>
<1>1. PICK o : o = op[p]
  OBVIOUS
<1>2. /\ TypeOK /\ lock = p /\ o.pc \in {"authority", "bind"} /\ RunOK(o) /\ o \in Running
      /\ RunFilesOK(o) /\ UNCHANGED <<files, journal>>
      /\ op \in [Process -> {Idle} \cup Waiting \cup Running]
  BY <1>1, WhoRuns DEF Authority, Bind, Holds, FilesIInv
<1>3. o.tx \in Transaction
  BY <1>2, RunningFields
<1>4. ASSUME NEW tx, tx.seen = o.tx.seen, Touched(tx) = Touched(o.tx), tx.id = o.tx.id,
             tx.kind = o.tx.kind, tx.commands = o.tx.commands,
             \A s : Desired(tx, s) = Desired(o.tx, s),
             NEW n, n.mode = o.mode, n.tx = tx, n.left = o.left, n.undo = o.undo,
             \/ o.pc = "authority" /\ n.pc = "prepare"
             \/ o.pc = "bind" /\ n.pc = "commit"
      PROVE  RunFilesOK(n)
  <2>1. To(n.left) \subseteq Touched(n.tx) /\ UndoOK(n)
    BY <1>2, <1>4 DEF RunFilesOK, UndoOK
  <2>2. WrittenOK(n)
    BY <1>2, <1>4 DEF RunFilesOK, WrittenOK
  <2>3. DirectOK(n)
    BY <1>2, <1>4 DEF RunFilesOK, DirectOK, MayHold
  <2> QED BY <2>1, <2>2, <2>3 DEF RunFilesOK
<1>5. ASSUME NEW pc, op' = [op EXCEPT ![p].pc = pc, ![p].tx.authority = TRUE], UNCHANGED lock,
             \/ o.pc = "authority" /\ pc = "prepare"
             \/ o.pc = "bind" /\ pc = "commit"
      PROVE  FilesIInv'
  <2>1. PICK tx : tx = Core(o.tx)
    OBVIOUS
  <2>2. PICK n : n = [o EXCEPT !.pc = pc, !.tx = tx]
    OBVIOUS
  <2>3. op' = [op EXCEPT ![p] = n]
    BY <1>1, <1>2, <1>5, <2>1, <2>2, Zenon DEF Core
  <2>4. n.pc = pc /\ n.tx = tx /\ n.mode = o.mode /\ n.left = o.left /\ n.undo = o.undo
    BY <1>2, <2>2 DEF Running
  <2>5. /\ tx.seen = o.tx.seen /\ Touched(tx) = Touched(o.tx) /\ tx.id = o.tx.id
        /\ tx.kind = o.tx.kind /\ tx.commands = o.tx.commands
        /\ \A s : Desired(tx, s) = Desired(o.tx, s)
    BY <1>3, <2>1, CoreFields, CoreFiles
  <2>6. RunFilesOK(n)
    BY <1>4, <1>5, <2>4, <2>5
  <2> QED BY <1>2, <1>5, <2>3, <2>6, FilesQuiet
<1>6. CASE Step(p, "prepare") /\ UNCHANGED lock /\ o.pc = "authority"
  <2>1. PICK n : n = [o EXCEPT !.pc = "prepare"]
    OBVIOUS
  <2>2. op' = [op EXCEPT ![p] = n]
    BY <1>1, <1>2, <1>6, <2>1 DEF Step
  <2>3. n.pc = "prepare" /\ n.tx = o.tx /\ n.mode = o.mode /\ n.left = o.left /\ n.undo = o.undo
    BY <1>2, <2>1 DEF Running
  <2>4. RunFilesOK(n)
    BY <1>4, <1>6, <2>3
  <2> QED BY <1>2, <1>6, <2>2, <2>4, FilesQuiet
<1>7. CASE UNCHANGED <<op, lock>>
  <2>1. op' = [op EXCEPT ![p] = o]
    BY <1>1, <1>2, <1>7
  <2> QED BY <1>2, <1>7, <2>1, FilesQuiet
<1>8. CASE Release(p, Idle)
  BY <1>2, <1>8, ReleaseFiles
<1>9. CASE Unwind(p) /\ o.pc = "bind"
  BY <1>1, <1>2, <1>9, UnwindFiles
<1>10. CASE Authority(p)
  BY <1>1, <1>2, <1>5, <1>6, <1>7, <1>8, <1>10 DEF Authority, Holds
<1>11. CASE Bind(p)
  BY <1>1, <1>2, <1>5, <1>7, <1>9, <1>11 DEF Bind, Holds
<1> QED BY <1>10, <1>11

\* The prepared event comes before the first file.
LEMMA PrepareFiles ==
    ASSUME StoreIInv, FilesIInv, NEW p \in Process, Prepare(p)
    PROVE  FilesIInv'
<1>1. PICK o : o = op[p]
  OBVIOUS
<1>2. /\ TypeOK /\ lock = p /\ o.pc = "prepare" /\ RunOK(o) /\ o \in Running
      /\ RunFilesOK(o) /\ files' = files /\ lock' = lock
      /\ op \in [Process -> {Idle} \cup Waiting \cup Running]
  BY <1>1, WhoRuns DEF Prepare, Holds, FilesIInv
<1>3. o.tx \in Transaction
  BY <1>2, RunningFields
<1>4. PICK e : e = [phase |-> "prepared", tx |-> o.tx]
  OBVIOUS
<1>5. e \in Event /\ e.phase = "prepared" /\ journal' = Append(journal, e)
  BY <1>1, <1>3, <1>4 DEF Event, Prepare
<1>6. CommittedEvents' = CommittedEvents
  BY <1>2, <1>5, JournalGrows DEF TypeOK
<1>7. PICK n : n = [o EXCEPT !.pc = "write"]
  OBVIOUS
<1>8. op' = [op EXCEPT ![p] = n]
  BY <1>1, <1>2, <1>7 DEF Prepare, Step
<1>9. n.pc = "write" /\ n.tx = o.tx /\ n.mode = o.mode /\ n.left = o.left /\ n.undo = o.undo
  BY <1>2, <1>7 DEF Running
<1>10. To(n.left) \subseteq Touched(n.tx) /\ UndoOK(n)
  BY <1>2, <1>9 DEF RunFilesOK, UndoOK
<1>11. WrittenOK(n)'
  <2>1. To(n.left) = Touched(n.tx)
    BY <1>2, <1>9 DEF RunFilesOK, WrittenOK, To, Touched
  <2> QED BY <1>9, <2>1 DEF WrittenOK
<1>12. DirectOK(n)'
  BY <1>2, <1>6, <1>9 DEF RunFilesOK, DirectOK
<1>13. RunFilesOK(n)'
  BY <1>10, <1>11, <1>12 DEF RunFilesOK, UndoOK
<1> QED BY <1>2, <1>8, <1>13, FilesMoved

\* A run with its committed event has written its files.
LEMMA CommitEventFiles ==
    ASSUME StoreIInv, FilesIInv, NEW p \in Process, CommitEvent(p)
    PROVE  /\ FilesIInv'
           /\ files' = files
           /\ \/ journal' = journal
              \/ \E e \in Event :
                    /\ journal' = Append(journal, e)
                    /\ \A s \in Touched(e.tx) : files[s] \in {Desired(e.tx, s), Foreign}
<1>1. PICK o : o = op[p]
  OBVIOUS
<1>2. /\ TypeOK /\ lock = p /\ o.pc = "commit" /\ RunOK(o) /\ o \in Running
      /\ RunFilesOK(o) /\ files' = files
      /\ op \in [Process -> {Idle} \cup Waiting \cup Running]
  BY <1>1, WhoRuns DEF CommitEvent, Holds, FilesIInv
<1>3. o.tx \in Transaction
  BY <1>2, RunningFields
<1>4. PICK e : e = Committed(p)
  OBVIOUS
<1>5. e \in Event /\ e.tx = o.tx
  <2>1. e = [phase |-> "committed", id |-> EventId(p), tx |-> o.tx, whole |-> Whole(p)]
    BY <1>1, <1>4 DEF Committed
  <2>2. EventId(p) \in Nat /\ Whole(p) \in BOOLEAN
    BY <1>1, <1>3, TransactionFields DEF EventId, Whole, Entity
  <2> QED BY <1>3, <2>1, <2>2 DEF Event
<1>6. \A s \in Touched(o.tx) : files[s] \in {Desired(o.tx, s), Foreign}
  BY <1>2 DEF RunFilesOK, WrittenOK, To
<1>7. journal' = journal \/ journal' = Append(journal, e)
  BY <1>4 DEF CommitEvent
<1>8. FilesIInv'
  <2>1. CASE Unwind(p) /\ UNCHANGED journal
    BY <1>1, <1>2, <2>1, UnwindFiles
  <2>2. CASE Step(p, "project") /\ UNCHANGED lock
    <3>1. PICK n : n = [o EXCEPT !.pc = "project"]
      OBVIOUS
    <3>2. op' = [op EXCEPT ![p] = n]
      BY <1>1, <1>2, <2>2, <3>1 DEF Step
    <3>3. /\ n.pc = "project" /\ n.tx = o.tx /\ n.mode = o.mode
          /\ n.left = o.left /\ n.undo = o.undo
      BY <1>2, <3>1 DEF Running
    <3>4. RunFilesOK(n)'
      BY <1>2, <3>3 DEF RunFilesOK, UndoOK, WrittenOK, DirectOK
    <3> QED BY <1>2, <2>2, <3>2, <3>4, FilesMoved
  <2> QED BY <2>1, <2>2 DEF CommitEvent
<1> QED BY <1>2, <1>5, <1>6, <1>7, <1>8

\* After the committed event the files are left alone.
LEMMA LateFiles ==
    ASSUME StoreIInv, FilesIInv, NEW p \in Process, Project(p) \/ Deliver(p) \/ Publish(p)
    PROVE  FilesIInv' /\ UNCHANGED <<files, journal>>
<1>1. PICK o : o = op[p]
  OBVIOUS
<1>2. /\ lock = p /\ o.pc \in {"project", "deliver", "publish"} /\ o \in Running
      /\ RunFilesOK(o) /\ UNCHANGED <<files, journal>>
      /\ op \in [Process -> {Idle} \cup Waiting \cup Running]
  BY <1>1, WhoRuns DEF Project, Deliver, Publish, Holds, FilesIInv
<1>3. ASSUME NEW pc \in {"deliver", "publish", "clean"}, Step(p, pc), UNCHANGED lock
      PROVE  FilesIInv'
  <2>1. PICK n : n = [o EXCEPT !.pc = pc]
    OBVIOUS
  <2>2. op' = [op EXCEPT ![p] = n]
    BY <1>1, <1>2, <1>3, <2>1 DEF Step
  <2>3. n.pc = pc /\ n.tx = o.tx /\ n.mode = o.mode /\ n.left = o.left /\ n.undo = o.undo
    BY <1>2, <2>1 DEF Running
  <2>4. RunFilesOK(n)
    BY <1>2, <2>3 DEF RunFilesOK, UndoOK, WrittenOK, DirectOK
  <2> QED BY <1>2, <1>3, <2>2, <2>4, FilesQuiet
<1>4. CASE FailLate(p)
  BY <1>2, <1>4, EndsFiles
<1>5. Project(p) => Step(p, "deliver") \/ Step(p, "clean")
  BY DEF Project
<1>6. Project(p) => UNCHANGED lock
  BY DEF Project
<1> QED BY <1>2, <1>3, <1>4, <1>5, <1>6 DEF Deliver, Publish

\* What a step owes to the files.
FilesStep == ChangesAreRecorded /\ CommittedIsWritten /\ CommittedStays

\* Nothing, where files and journal stay.
LEMMA FilesStay ==
    ASSUME StoreIInv, UNCHANGED <<files, journal>>
    PROVE  FilesStep
<1>1. Len(journal) \in Nat
  BY DEF StoreIInv, TypeOK
<1> QED BY <1>1 DEF FilesStep, ChangesAreRecorded, CommittedIsWritten, CommittedStays

\* What runs was recorded before it changes a file, as far as files depend on it.
LEMMA RunIsRecorded ==
    ASSUME StoreIInv, NEW p \in Process, lock = p, op[p].pc \in {"write", "rollback"}
    PROVE  \E t \in Recorded : /\ Touched(t) = Touched(op[p].tx)
                               /\ t.seen = op[p].tx.seen
                               /\ \A s : Desired(t, s) = Desired(op[p].tx, s)
<1>1. PICK o : o = op[p]
  OBVIOUS
<1>2. Begun(o) /\ o.tx \in Transaction /\ journal \in Seq(Event)
  BY <1>1, WhoRuns, RunningFields DEF RunOK, TypeOK
<1>3. CASE o.mode = "outbox"
  <2>1. o.tx \in Recorded
    BY <1>2, <1>3 DEF Begun, Recorded
  <2> QED BY <1>1, <2>1
<1>4. CASE o.mode # "outbox"
  <2>1. PICK t \in PreparedTx : Core(t) = Core(o.tx)
    BY <1>2, <1>4 DEF Begun
  <2>2. t \in Recorded /\ t \in Transaction
    BY <1>2, JournalSets DEF Recorded
  <2>3. /\ Touched(t) = Touched(o.tx) /\ t.seen = o.tx.seen
        /\ \A s : Desired(t, s) = Desired(o.tx, s)
    BY <1>2, <2>1, <2>2, CoreFiles
  <2> QED BY <1>1, <2>2, <2>3
<1> QED BY <1>3, <1>4

\* A run that changes a file changes it between what its transaction saw and
\* what it leaves; its transaction was recorded, and if it is its own writer's
\* has no committed event.
LEMMA ChangeIsRecorded ==
    ASSUME StoreIInv, FilesIInv, NEW p \in Process, lock = p,
           op[p].pc \in {"write", "rollback"}, journal' = journal,
           \A s \in Slots : files'[s] # files[s] =>
                /\ s \in Touched(op[p].tx)
                /\ {files[s], files'[s]} = {op[p].tx.seen[s], Desired(op[p].tx, s)}
    PROVE  FilesStep
<1>1. ChangesAreRecorded
  <2>1. PICK t \in Recorded : /\ Touched(t) = Touched(op[p].tx)
                              /\ t.seen = op[p].tx.seen
                              /\ \A s : Desired(t, s) = Desired(op[p].tx, s)
    BY RunIsRecorded
  <2> QED BY <2>1 DEF ChangesAreRecorded
<1>2. Len(journal') = Len(journal) /\ Len(journal) \in Nat
  BY DEF StoreIInv, TypeOK
<1>3. CommittedIsWritten
  BY <1>2 DEF CommittedIsWritten
<1>4. CommittedStays
  <2> SUFFICES ASSUME NEW q \in Process, NEW e \in CommittedEvents,
                      lock = q, op[q].mode = "direct", e.tx.id = op[q].tx.id,
                      op[q].tx.kind # "contract_continuity"
               PROVE  FALSE
    BY DEF CommittedStays
  <2>1. q = p
    OBVIOUS
  <2>2. DirectOK(op[p])
    BY DEF FilesIInv, RunFilesOK
  <2> QED BY <2>1, <2>2 DEF DirectOK
<1> QED BY <1>1, <1>3, <1>4 DEF FilesStep

\* One more event leaves the files; what is committed is written.
LEMMA EventIsWritten ==
    ASSUME StoreIInv, NEW e \in Event, journal' = Append(journal, e), files' = files,
           e.phase = "committed" =>
                \A s \in Touched(e.tx) : files[s] \in {Desired(e.tx, s), Foreign}
    PROVE  FilesStep
<1>1. PICK m \in Nat : m = Len(journal)
  BY DEF StoreIInv, TypeOK
<1>2. Len(journal') = m + 1 /\ journal'[m + 1] = e
  BY <1>1 DEF StoreIInv, TypeOK
<1>3. CommittedIsWritten
  BY <1>1, <1>2 DEF CommittedIsWritten
<1>4. ChangesAreRecorded /\ CommittedStays
  BY DEF ChangesAreRecorded, CommittedStays
<1> QED BY <1>3, <1>4 DEF FilesStep

\* Somebody else's edit is nobody's transaction.
LEMMA OutsideFiles ==
    ASSUME StoreIInv, FilesIInv, OutsideEdit
    PROVE  FilesIInv' /\ FilesStep
<1>1. PICK k \in Kinds : files' = [files EXCEPT ![k] = Foreign]
  BY DEF OutsideEdit
<1>2. /\ files \in [Slots -> Content] /\ journal \in Seq(Event) /\ journal' = journal
      /\ lock' = lock /\ op' = op
  BY DEF StoreIInv, TypeOK, OutsideEdit
<1>3. \A s \in Slots : files'[s] \in {files[s], Foreign}
  BY <1>1, <1>2
<1>4. Len(journal) \in Nat
  BY <1>2
<1>5. FilesStep
  BY <1>2, <1>3, <1>4 DEF FilesStep, ChangesAreRecorded, CommittedIsWritten, CommittedStays
<1>6. ASSUME NEW p \in Process, lock = p PROVE RunFilesOK(op[p])'
  <2>1. PICK o : o = op[p]
    OBVIOUS
  <2>2. RunFilesOK(o) /\ o.tx \in Transaction /\ o = op'[p]
    BY <1>2, <1>6, <2>1, WhoRuns, RunningFields DEF FilesIInv
  <2>3. Touched(o.tx) \subseteq Slots
    BY <2>2, TransactionFields DEF Touched
  <2>4. WrittenOK(o)'
    BY <1>3, <2>2, <2>3 DEF RunFilesOK, WrittenOK
  <2>5. DirectOK(o)'
    BY <1>2, <1>3, <2>2, <2>3 DEF RunFilesOK, DirectOK, MayHold, CommittedEvents
  <2>6. RunFilesOK(o)'
    BY <2>2, <2>4, <2>5 DEF RunFilesOK, UndoOK
  <2> QED BY <2>2, <2>6 DEF RunFilesOK, UndoOK, WrittenOK, DirectOK
<1> QED BY <1>2, <1>5, <1>6 DEF FilesIInv

\* No step at all.
LEMMA NothingFiles ==
    ASSUME StoreIInv, FilesIInv, UNCHANGED vars
    PROVE  FilesIInv' /\ FilesStep
<1>1. UNCHANGED <<files, journal>> /\ lock' = lock /\ op' = op
  BY DEF vars
<1>2. ASSUME NEW p \in Process, lock = p PROVE RunFilesOK(op[p])'
  <2>1. PICK o : o = op[p]
    OBVIOUS
  <2>2. RunFilesOK(o) /\ o = op'[p]
    BY <1>1, <1>2, <2>1 DEF FilesIInv
  <2>3. RunFilesOK(o)'
    BY <1>1, <2>2 DEF RunFilesOK, UndoOK, WrittenOK, DirectOK, CommittedEvents
  <2> QED BY <2>2, <2>3 DEF RunFilesOK, UndoOK, WrittenOK, DirectOK
<1> QED BY <1>1, <1>2, FilesStay DEF FilesIInv

\* Every step keeps the files in order and owes them no more.
LEMMA NextFiles ==
    ASSUME StoreIInv, StoreIInv', FilesIInv, [Next]_vars
    PROVE  FilesIInv' /\ FilesStep
<1>1. CASE UNCHANGED vars
  BY <1>1, NothingFiles
<1>2. CASE OutsideEdit
  BY <1>2, OutsideFiles
<1>3. ASSUME NEW p \in Process,
             \/ \E request \in EntityRequests : CommitEntity(p, request[1], request[2])
             \/ CommitActiveTaskBundle(p)
             \/ \E checkpointToo \in BOOLEAN : CommitContractContinuity(p, checkpointToo)
             \/ CompleteTaskState(p)
      PROVE  FilesIInv' /\ FilesStep
  BY <1>3, WritersFiles, FilesStay
<1>4. ASSUME NEW p \in Process, WriteFile(p) \/ Rollback(p)
      PROVE  FilesIInv' /\ FilesStep
  <2>1. lock = p /\ op[p].pc \in {"write", "rollback"} /\ journal' = journal
    BY <1>4 DEF WriteFile, Rollback, Holds
  <2>2. FilesIInv'
    BY <1>4, WriteFileFiles, RollbackFiles
  <2>3. \A s \in Slots : files'[s] # files[s] =>
            /\ s \in Touched(op[p].tx)
            /\ {files[s], files'[s]} = {op[p].tx.seen[s], Desired(op[p].tx, s)}
    <3>1. CASE WriteFile(p)
      BY <3>1, WriteFileFiles
    <3>2. CASE Rollback(p)
      BY <3>2, RollbackFiles
    <3> QED BY <1>4, <3>1, <3>2
  <2> QED BY <2>1, <2>2, <2>3, ChangeIsRecorded
<1>5. ASSUME NEW p \in Process, Prepare(p) PROVE FilesIInv' /\ FilesStep
  <2>1. PICK e : e = [phase |-> "prepared", tx |-> op[p].tx]
    OBVIOUS
  <2>2. op[p].tx \in Transaction
    BY <1>5, WhoRuns, RunningFields DEF Prepare, Holds
  <2>3. e \in Event /\ e.phase = "prepared" /\ journal' = Append(journal, e) /\ files' = files
    BY <1>5, <2>1, <2>2 DEF Event, Prepare
  <2> QED BY <1>5, <2>3, PrepareFiles, EventIsWritten
<1>6. ASSUME NEW p \in Process, CommitEvent(p) PROVE FilesIInv' /\ FilesStep
  <2>1. FilesIInv' /\ files' = files
    BY <1>6, CommitEventFiles
  <2>2. CASE journal' = journal
    BY <2>1, <2>2, FilesStay
  <2>3. ASSUME NEW e \in Event, journal' = Append(journal, e),
               \A s \in Touched(e.tx) : files[s] \in {Desired(e.tx, s), Foreign}
        PROVE  FilesStep
    BY <2>1, <2>3, EventIsWritten
  <2> QED BY <1>6, <2>1, <2>2, <2>3, CommitEventFiles
<1>7. ASSUME NEW p \in Process, Authority(p) \/ Bind(p) PROVE FilesIInv' /\ FilesStep
  BY <1>7, AuthoritiesFiles, FilesStay
<1>8. ASSUME NEW p \in Process, Project(p) \/ Deliver(p) \/ Publish(p)
      PROVE  FilesIInv' /\ FilesStep
  BY <1>8, LateFiles, FilesStay
<1>9. ASSUME NEW p \in Process,
             \/ Read(p) \/ GiveUp(p) \/ ReconcileRead(p) \/ OutboxRead(p)
             \/ RebuildRead(p) \/ RebuildWrite(p) \/ ReplayBegin(p) \/ OutboxBegin(p)
      PROVE  FilesIInv' /\ FilesStep
  BY <1>9, WaitingFiles, FilesStay
<1>10. ASSUME NEW p \in Process, Fail(p) \/ Crash(p) \/ CleanUp(p)
       PROVE  FilesIInv' /\ FilesStep
  <2>1. lock = p /\ UNCHANGED <<files, journal>>
    BY <1>10 DEF Fail, Crash, CleanUp, Holds
  <2> QED BY <1>10, <2>1, EndsFiles, FilesStay
<1> QED BY <1>1, <1>2, <1>3, <1>4, <1>5, <1>6, <1>7, <1>8, <1>9, <1>10 DEF Next

\* Whoever holds the lock has its files as its transaction found or leaves
\* them, its backups of them, and no committed event while it may touch them.
THEOREM FilesInvariance == Spec => []FilesIInv
<1>1. Init => FilesIInv
  BY NoneAssumption DEF Init, FilesIInv
<1>2. StoreIInv /\ StoreIInv' /\ FilesIInv /\ [Next]_vars => FilesIInv'
  BY NextFiles
<1> QED BY <1>1, <1>2, StoreInvariance, PTL DEF Spec

\* A file changes as some recorded transaction changes it or changes it back, an
\* event is committed when its files are written, and its writer leaves them
\* alone from then on (FilesFollowJournal).
THEOREM FilesFollow == Spec => FilesFollowJournal
<1>1. StoreIInv /\ StoreIInv' /\ FilesIInv /\ [Next]_vars =>
        [ChangesAreRecorded /\ CommittedIsWritten /\ CommittedStays]_<<files, journal>>
  BY NextFiles DEF FilesStep
<1> QED BY <1>1, StoreInvariance, FilesInvariance, PTL DEF Spec, FilesFollowJournal

\* A prepared transaction that nobody committed is the next the journal waits
\* for, and each of its files is as its writer found it or leaves it
\* (PreparedCanBeReplayed).
THEOREM PreparedIsReplayable == Spec => []PreparedCanBeReplayed
<1>1. StoreIInv /\ LogIInv /\ ImageIInv /\ FilesIInv => PreparedCanBeReplayed
  <2> SUFFICES ASSUME StoreIInv, LogIInv, ImageIInv, FilesIInv
               PROVE  PreparedCanBeReplayed
    OBVIOUS
  <2>1. ASSUME NEW p \in Process, lock = p, op[p].mode = "direct",
               NEW s \in Touched(op[p].tx)
        PROVE  files[s] \in {op[p].tx.seen[s], Desired(op[p].tx, s), Foreign}
    BY <2>1 DEF FilesIInv, RunFilesOK, DirectOK, MayHold
  <2>2. ASSUME Replayable, NEW tx \in Incomplete, CommittedAt(Target(tx)) = {},
               Replayed.rev # tx.prev
        PROVE  FALSE
    <3>1. tx \in PreparedTx /\ tx \in Transaction
      BY JournalSets DEF StoreIInv, TypeOK
    <3>2. tx.prev <= Replayed.rev /\ Replayed.rev \in Nat
      BY <2>2, <3>1, RevisionOf DEF StoreIInv, LogIInv, LogOK, JournalOK
    <3>3. Target(tx) \in 1 .. Replayed.rev
      BY <2>2, <3>1, <3>2, TransactionFields
    <3>4. PICK e \in CommittedEvents : Target(e.tx) = Target(tx)
      BY <2>2, <3>3 DEF ImageIInv, Covered
    <3>5. \E n \in CommittedAt(Target(tx)) : journal[n] = e
      BY <3>4 DEF CommittedEvents, CommittedAt
    <3> QED BY <2>2, <3>5
  <2> QED BY <2>1, <2>2 DEF PreparedCanBeReplayed
<1> QED BY <1>1, StoreInvariance, LogInvariance, ImageInvariance, FilesInvariance, PTL
=============================================================================
