------------------------ MODULE Instructions_proofs ------------------------
(***************************************************************************)
(* Proofs about Instructions, for every set of sessions and texts and any  *)
(* number of anchors and Sets.                                             *)
(*                                                                         *)
(* UserIsHeard speaks of a guard that has passed.  What it rests on was    *)
(* done earlier and elsewhere: the contract the guard read had answered    *)
(* whatever came before its anchor (ContractsAnswered, also of the         *)
(* contract a Set is about to write), and nothing of its owner came after  *)
(* it, since anchors are only appended.  The other conjuncts do the same   *)
(* for the receipts a restore reads.  A session's newest anchor is the     *)
(* greatest number of a set; that such a set has one is GreatestNumber.    *)
(***************************************************************************)
EXTENDS Instructions, TLAPS, NaturalsInduction, WellFoundedInduction

----------------------------------------------------------------------------
(* Instructions: work does not pass over what the user said.               *)

Row == [owner : Speaker, text : Wish \cup {Confirmation}]

\* A contract that waits for no mapping has answered whatever came before the anchor
\* it is bound to, whoever owned it then.
AnsweredOK(c) == ~c.needs => (1 .. c.anchor \subseteq c.answered)

ContractsAnswered ==
  /\ AnsweredOK(bound)
  /\ setting.stage # "none" => AnsweredOK(setting.to)
  /\ guarding.stage # "none" => AnsweredOK(guarding.contract)

\* The Set that holds the lock writes the next revision.
NextRevision == setting.stage = "publish" => setting.to.revision = bound.revision + 1

\* Receipts are of earlier revisions or of the contract as it is.
ProgressBound ==
  \A i \in DOMAIN progress :
    progress[i].revision < bound.revision \/ progress[i] = ProgressOf(bound)

\* What was the newest anchor when a restore began still is, or an older one.
RestoreBound == restoring.stage # "none" => restoring.newest <= NewestOf(restoring.owner)

InstructionIInv ==
  /\ InstructionTypeOK /\ ContractsAnswered /\ NextRevision /\ ProgressBound
  /\ RestoreBound /\ UserIsHeard

\* An element of a sequence is of the set the sequence is over.
LEMMA ElementIs ==
  ASSUME NEW A, NEW q \in Seq(A), NEW i \in DOMAIN q
  PROVE  q[i] \in A
OBVIOUS

\* A set of natural numbers has a least element.
LEMMA LeastNumber ==
  ASSUME NEW T \in SUBSET Nat, T # {}
  PROVE  \E x \in T : \A y \in T : x <= y
<1>1. IsWellFoundedOn(OpToRel(<, Nat), Nat)
  BY NatLessThanWellFounded
<1>2. \E x \in T : \A y \in T : ~ (<<y, x>> \in OpToRel(<, Nat))
  BY <1>1, WFMin
<1>3. \E x \in T : \A y \in T : ~(y < x)
  BY <1>2 DEF OpToRel
<1> QED BY <1>3

\* And a set of numbers up to a bound has a greatest.
LEMMA GreatestNumber ==
  ASSUME NEW n \in Nat, NEW T \in SUBSET (1 .. n), T # {}, NEW m,
         m = CHOOSE i \in T : \A j \in T : j <= i
  PROVE  m \in T /\ \A j \in T : j <= m
<1> DEFINE K == {k \in Nat : \A j \in T : j <= k}
<1>1. n \in K /\ K \in SUBSET Nat
  OBVIOUS
<1>2. PICK k \in K : \A x \in K : k <= x
  BY <1>1, LeastNumber
<1>3. k \in T
  <2> SUFFICES ASSUME k \notin T PROVE FALSE
    OBVIOUS
  <2>1. \A j \in T : j \in Nat /\ j >= 1 /\ j <= k /\ j # k
    BY <1>2
  <2>2. PICK j \in T : TRUE
    OBVIOUS
  <2>3. k \in Nat /\ k >= 1
    BY <1>2, <2>1, <2>2
  <2>4. k - 1 \in K /\ ~(k <= k - 1)
    BY <2>1, <2>3
  <2> QED BY <1>2, <2>4
<1> QED BY <1>2, <1>3

\* The last anchor of a session among some.
Newest(rows, s) ==
    LET own == {i \in DOMAIN rows : rows[i].owner = s}
    IN IF own = {} THEN NoAnchor ELSE CHOOSE i \in own : \A j \in own : j <= i

\* It is one of the session's own, and none of those is later.
LEMMA NewestIs ==
  ASSUME NEW rows \in Seq(Row), NEW s
  PROVE  /\ Newest(rows, s) \in 0 .. Len(rows)
         /\ Newest(rows, s) # NoAnchor => rows[Newest(rows, s)].owner = s
         /\ \A i \in DOMAIN rows : rows[i].owner = s => i <= Newest(rows, s)
<1> DEFINE own == {i \in DOMAIN rows : rows[i].owner = s}
<1>0. own \subseteq 1 .. Len(rows) /\ Len(rows) \in Nat
  OBVIOUS
<1>1. CASE own = {}
  BY <1>0, <1>1 DEF Newest, NoAnchor
<1>2. CASE own # {}
  <2>1. PICK m : m = CHOOSE i \in own : \A j \in own : j <= i
    OBVIOUS
  <2>2. Newest(rows, s) = m
    BY <1>2, <2>1 DEF Newest
  <2> HIDE DEF own
  <2>3. m \in own /\ \A j \in own : j <= m
    BY <1>0, <1>2, <2>1, GreatestNumber
  <2> QED BY <1>0, <2>2, <2>3 DEF own, NoAnchor
<1> QED BY <1>1, <1>2

\* Anchors are only appended.
Grown ==
  /\ anchors' \in Seq(Row) /\ Len(anchors) <= Len(anchors')
  /\ \A i \in DOMAIN anchors : i \in DOMAIN anchors' /\ anchors'[i] = anchors[i]

\* What was typed stays typed and what was newest stays as new, as anchors are appended.
LEMMA GrowthKeeps ==
  ASSUME InstructionTypeOK, Grown
  PROVE  /\ \A c \in Contracts : c \in Contracts'
         /\ 0 .. Len(anchors) \subseteq 0 .. Len(anchors')
         /\ \A s : NewestOf(s) <= NewestOf(s)'
<1>0. anchors \in Seq(Row) /\ anchors' \in Seq(Row) /\ Len(anchors) \in Nat
      /\ Len(anchors') \in Nat
  BY DEF InstructionTypeOK, Row, Grown
<1>1. 0 .. Len(anchors) \subseteq 0 .. Len(anchors') /\ DOMAIN anchors \subseteq DOMAIN anchors'
  BY <1>0 DEF Grown
<1>2. \A c \in Contracts : c \in Contracts'
  BY <1>1 DEF Contracts
<1>3. ASSUME NEW s PROVE NewestOf(s) <= NewestOf(s)'
  <2>1. PICK old : old = Newest(anchors, s)
    OBVIOUS
  <2>2. PICK new : new = Newest(anchors', s)
    OBVIOUS
  <2>3. old \in 0 .. Len(anchors) /\ (old # NoAnchor => anchors[old].owner = s)
    BY <1>0, <2>1, NewestIs
  <2>4. /\ new \in 0 .. Len(anchors')
        /\ \A i \in DOMAIN anchors' : anchors'[i].owner = s => i <= new
    BY <1>0, <2>2, NewestIs
  <2>5. old <= new
    BY <1>0, <2>3, <2>4 DEF NoAnchor, Grown
  <2>6. NewestOf(s) = old /\ NewestOf(s)' = new
    BY <2>1, <2>2 DEF NewestOf, Newest
  <2> QED BY <2>5, <2>6
<1> QED BY <1>1, <1>2, <1>3

\* An observation appends an anchor or stays with the one that is pending.
MayObserve(seen, s, text) ==
  \/ seen = [rows |-> anchors, anchor |-> NewestOf(s)]
  \/ seen = [rows |-> Append(anchors, [owner |-> s, text |-> text]),
             anchor |-> Len(anchors) + 1]

\* Either way the anchors there were stay, and it names one there is.
LEMMA ObservedIs ==
  ASSUME InstructionTypeOK, NEW s \in Speaker, NEW text \in Wish \cup {Confirmation},
         NEW seen, MayObserve(seen, s, text)
  PROVE  /\ seen.rows \in Seq(Row) /\ seen.anchor \in 0 .. Len(seen.rows)
         /\ Len(anchors) <= Len(seen.rows)
         /\ \A i \in DOMAIN anchors : i \in DOMAIN seen.rows /\ seen.rows[i] = anchors[i]
<1>0. anchors \in Seq(Row) /\ Len(anchors) \in Nat
  BY DEF InstructionTypeOK, Row
<1>1. NewestOf(s) \in 0 .. Len(anchors)
  <2>1. Newest(anchors, s) \in 0 .. Len(anchors)
    BY <1>0, NewestIs
  <2> QED BY <2>1 DEF NewestOf, Newest
<1>2. CASE seen = [rows |-> anchors, anchor |-> NewestOf(s)]
  BY <1>0, <1>1, <1>2
<1>3. CASE seen = [rows |-> Append(anchors, [owner |-> s, text |-> text]),
                   anchor |-> Len(anchors) + 1]
  <2>1. PICK row \in Row : row = [owner |-> s, text |-> text]
    BY DEF Row
  <2>2. seen = [rows |-> Append(anchors, row), anchor |-> Len(anchors) + 1]
    BY <1>3, <2>1
  <2> QED BY <1>0, <2>2
<1> QED BY <1>2, <1>3 DEF MayObserve

\* What a Set binds its contract to; one that neither tells nor explains anything stays
\* with the anchor of the contract before.
LEMMA ResolutionIs ==
  ASSUME InstructionTypeOK, NEW x \in SetOf
  PROVE  LET found == Resolution(x)
         IN  /\ found.rows \in Seq(Row) /\ found.anchor \in 0 .. Len(found.rows)
             /\ Len(anchors) <= Len(found.rows)
             /\ \A i \in DOMAIN anchors : i \in DOMAIN found.rows /\ found.rows[i] = anchors[i]
             /\ ~x.maps /\ ~Tells(x) => found.anchor = bound.anchor
<1>0. /\ anchors \in Seq(Row) /\ Len(anchors) \in Nat /\ x.by \in Speaker
      /\ bound.anchor \in 0 .. Len(anchors)
      /\ x.text \in Wish \cup {Confirmation, NoWish}
  BY DEF InstructionTypeOK, Row, SetOf, Contracts
<1>1. PICK newest : newest = NewestOf(bound.owner)
  OBVIOUS
<1>2. newest \in 0 .. Len(anchors)
  <2>1. Newest(anchors, bound.owner) \in 0 .. Len(anchors)
    BY <1>0, NewestIs
  <2> QED BY <1>1, <2>1 DEF NewestOf, Newest
<1>3. PICK text : text = IF x.text = NoWish THEN anchors[newest].text ELSE x.text
  OBVIOUS
<1>4. Resolution(x) =
        CASE Tells(x) -> Observed(x.by, x.text, TRUE, bound)
          [] Explicit(x) /\ newest # NoAnchor /\ anchors[newest].text = text ->
               [rows |-> anchors, anchor |-> newest]
          [] Explicit(x) /\ (newest = NoAnchor \/ anchors[newest].text # text) ->
               Observed(x.by, text, FALSE, bound)
          [] OTHER -> [rows |-> anchors, anchor |-> bound.anchor]
  BY <1>1, <1>3 DEF Resolution
<1>5. Explicit(x) /\ x.text = NoWish => newest # NoAnchor
  BY <1>1 DEF Explicit, Backed, IsPending
<1>6. Explicit(x) => text \in Wish \cup {Confirmation}
  <2>1. CASE x.text # NoWish
    BY <1>0, <1>3, <2>1
  <2>2. CASE x.text = NoWish /\ newest # NoAnchor
    <3>1. anchors[newest] \in Row
      BY <1>0, <1>2, <2>2 DEF NoAnchor
    <3> QED BY <1>3, <2>2, <3>1 DEF Row
  <2> QED BY <1>5, <2>1, <2>2
<1>a. CASE Tells(x)
  <2>1. x.text \in Wish \cup {Confirmation} /\ ~Explicit(x)
    BY <1>0, <1>a DEF Tells, Explicit
  <2>2. PICK seen : seen = Resolution(x)
    OBVIOUS
  <2>3. MayObserve(seen, x.by, x.text)
    BY <1>4, <1>a, <2>1, <2>2 DEF Observed, MayObserve
  <2> QED BY <1>0, <1>a, <2>1, <2>2, <2>3, ObservedIs
<1>b. CASE ~Tells(x) /\ ~Explicit(x)
  BY <1>0, <1>4, <1>b
<1>c. CASE ~Tells(x) /\ Explicit(x) /\ newest # NoAnchor /\ anchors[newest].text = text
  <2>1. x.maps
    BY <1>c DEF Explicit
  <2> QED BY <1>0, <1>2, <1>4, <1>c, <2>1
<1>d. CASE ~Tells(x) /\ Explicit(x) /\ ~(newest # NoAnchor /\ anchors[newest].text = text)
  <2>1. x.maps
    BY <1>d DEF Explicit
  <2>2. PICK seen : seen = Resolution(x)
    OBVIOUS
  <2>3. MayObserve(seen, x.by, text)
    BY <1>4, <1>d, <2>2 DEF Observed, MayObserve
  <2> QED BY <1>0, <1>6, <1>d, <2>1, <2>2, <2>3, ObservedIs
<1> QED BY <1>a, <1>b, <1>c, <1>d

\* A sequence over a set is one over a larger set.
LEMMA SeqWidens ==
  ASSUME NEW A, NEW B, A \subseteq B, NEW q \in Seq(A)
  PROVE  q \in Seq(B)
OBVIOUS

\* A step of the hook or of a Set: anchors may be appended, the contract stays.
LEMMA SetSideKeeps ==
  ASSUME InstructionIInv, Grown, Len(anchors') <= MaxAnchors,
         UNCHANGED <<bound, progress, guarding, restoring>>,
         setting' = Unoccupied
           \/ /\ setting' \in [stage : {"publish", "record"}, to : Contracts']
              /\ AnsweredOK(setting'.to)
              /\ setting'.stage = "publish" => setting'.to.revision = bound.revision + 1
  PROVE  InstructionIInv'
<1>0. /\ InstructionTypeOK /\ ContractsAnswered /\ NextRevision /\ ProgressBound
      /\ RestoreBound /\ UserIsHeard /\ anchors \in Seq(Row) /\ Len(anchors) \in Nat
      /\ anchors' \in Seq(Row) /\ Len(anchors') \in Nat
  BY DEF InstructionIInv, InstructionTypeOK, Row, Grown
<1>1. /\ \A c \in Contracts : c \in Contracts'
      /\ 0 .. Len(anchors) \subseteq 0 .. Len(anchors')
      /\ \A s : NewestOf(s) <= NewestOf(s)'
  BY <1>0, GrowthKeeps
<1> DEFINE G == [stage : {"read", "passed"}, contract : Contracts, seen : 0 .. Len(anchors)]
           R == [stage : {"read", "current"}, owner : Speaker,
                 anchor : 0 .. Len(anchors), newest : 0 .. Len(anchors)]
<1>2. bound \in Contracts' /\ setting' \in {Unoccupied} \cup
                                [stage : {"publish", "record"}, to : Contracts']
  BY <1>0, <1>1 DEF InstructionTypeOK
<1>3. guarding \in {Unoccupied} \cup [stage : {"read", "passed"}, contract : Contracts',
                                      seen : 0 .. Len(anchors')]
  <2>1. guarding \in {Unoccupied} \cup G
    BY <1>0 DEF InstructionTypeOK
  <2> HIDE DEF Contracts
  <2> QED BY <1>1, <2>1
<1>4. restoring \in {Unoccupied} \cup [stage : {"read", "current"}, owner : Speaker,
                                       anchor : 0 .. Len(anchors'),
                                       newest : 0 .. Len(anchors')]
  <2>1. restoring \in {Unoccupied} \cup R
    BY <1>0 DEF InstructionTypeOK
  <2> QED BY <1>1, <2>1
<1>5. progress \in Seq([owner : Speaker, revision : 1 .. MaxSets,
                        anchor : 0 .. Len(anchors')])
  <2>1. progress \in Seq([owner : Speaker, revision : 1 .. MaxSets,
                          anchor : 0 .. Len(anchors)])
    BY <1>0 DEF InstructionTypeOK
  <2>2. [owner : Speaker, revision : 1 .. MaxSets, anchor : 0 .. Len(anchors)] \subseteq
          [owner : Speaker, revision : 1 .. MaxSets, anchor : 0 .. Len(anchors')]
    BY <1>1
  <2> QED BY <2>1, <2>2, SeqWidens
<1>6. InstructionTypeOK'
  BY <1>0, <1>2, <1>3, <1>4, <1>5 DEF InstructionTypeOK, Row
<1>7. ContractsAnswered' /\ NextRevision' /\ ProgressBound'
  BY <1>0 DEF ContractsAnswered, NextRevision, ProgressBound, AnsweredOK, ProgressOf, Unoccupied
<1>8. RestoreBound'
  <2>1. CASE restoring = Unoccupied
    BY <2>1 DEF RestoreBound, Unoccupied
  <2>2. CASE restoring \in R
    <3>1. PICK s : s = restoring.owner
      OBVIOUS
    <3>2. NewestOf(s) <= NewestOf(s)'
      BY <1>1
    <3>3. NewestOf(s) \in Nat /\ NewestOf(s)' \in Nat
      <4>1. Newest(anchors, s) \in Nat /\ Newest(anchors', s) \in Nat
        BY <1>0, NewestIs
      <4> QED BY <4>1 DEF Newest, NewestOf
    <3>4. restoring.stage # "none" => restoring.newest <= NewestOf(s)
      BY <1>0, <3>1 DEF RestoreBound
    <3>5. restoring.stage # "none" => restoring.newest <= NewestOf(s)'
      BY <2>2, <3>2, <3>3, <3>4
    <3>6. NewestOf(restoring.owner)' = NewestOf(s)'
      BY <3>1 DEF NewestOf
    <3> QED BY <3>1, <3>5, <3>6 DEF RestoreBound
  <2> QED BY <1>0, <2>1, <2>2 DEF InstructionTypeOK
<1>9. UserIsHeard'
  <2>1. guarding.stage = "passed" =>
          \A i \in 1 .. guarding.seen :
            anchors'[i].owner = guarding.contract.owner => i \in guarding.contract.answered
    <3> SUFFICES ASSUME guarding.stage = "passed", NEW i \in 1 .. guarding.seen
                 PROVE  anchors'[i].owner = guarding.contract.owner =>
                          i \in guarding.contract.answered
      OBVIOUS
    <3>1. guarding \in G
      BY <1>0 DEF InstructionTypeOK, Unoccupied
    <3>2. i \in 1 .. Len(anchors)
      BY <1>0, <3>1
    <3>3. anchors'[i] = anchors[i]
      BY <1>0, <3>2 DEF Grown
    <3> QED BY <1>0, <3>3 DEF UserIsHeard
  <2> QED BY <1>0, <2>1 DEF UserIsHeard
<1> QED BY <1>6, <1>7, <1>8, <1>9 DEF InstructionIInv

\* What the user says becomes an anchor.
LEMMA ObserveUserKeeps ==
  ASSUME InstructionIInv, NEW s \in Speaker, NEW text \in Wish \cup {Confirmation},
         ObserveUser(s, text)
  PROVE  InstructionIInv'
<1>1. PICK seen : seen = Observed(s, text, TRUE, bound)
  OBVIOUS
<1>2. anchors' = seen.rows /\ MayObserve(seen, s, text)
  BY <1>1 DEF ObserveUser, Observed, MayObserve
<1>3. InstructionTypeOK
  BY DEF InstructionIInv
<1>4. Grown
  BY <1>2, <1>3, ObservedIs DEF Grown
<1>5. /\ Len(anchors') <= MaxAnchors /\ setting.stage = "none"
      /\ UNCHANGED <<bound, setting, progress, guarding, restoring>>
  BY DEF ObserveUser
<1>6. setting' = Unoccupied
  BY <1>3, <1>5 DEF InstructionTypeOK
<1> QED BY <1>4, <1>5, <1>6, SetSideKeeps

\* A Set takes the lock with the contract it will write: it answers everything if it maps
\* the instruction to a work line, else it waits for that or leaves the anchor alone.
LEMMA BeginSetKeeps ==
  ASSUME InstructionIInv, NEW x \in SetOf, BeginSet(x)
  PROVE  InstructionIInv'
<1>0. /\ InstructionTypeOK /\ AnsweredOK(bound) /\ bound \in Contracts
      /\ x.by \in Speaker /\ bound.revision < MaxSets /\ Len(anchors') <= MaxAnchors
      /\ UNCHANGED <<bound, progress, guarding, restoring>>
  BY DEF InstructionIInv, InstructionTypeOK, ContractsAnswered, SetOf, BeginSet
<1>1. PICK found : found = Resolution(x)
  OBVIOUS
<1>2. /\ anchors' = found.rows /\ found.anchor \in 0 .. Len(anchors')
      /\ ~x.maps /\ ~Tells(x) => found.anchor = bound.anchor
  BY <1>0, <1>1, ResolutionIs DEF BeginSet
<1>3. Grown
  BY <1>0, <1>1, ResolutionIs DEF BeginSet, Grown
<1>4. PICK needs \in BOOLEAN : needs = Needs(x)
  <2>1. Needs(x) \in BOOLEAN
    <3>1. CASE Tells(x)
      BY <3>1, Zenon DEF Needs, Tells
    <3>2. CASE ~Tells(x) /\ x.maps
      BY <3>2, Zenon DEF Needs
    <3>3. CASE ~Tells(x) /\ ~x.maps
      BY <3>3, Zenon DEF Needs
    <3> QED BY <3>1, <3>2, <3>3
  <2> QED BY <2>1
<1>5. ~needs /\ ~x.maps => ~Tells(x) /\ ~bound.needs
  BY <1>4 DEF Needs
<1>6. PICK to : to = [revision |-> bound.revision + 1, owner |-> x.by,
                      anchor |-> found.anchor, needs |-> needs,
                      answered |-> bound.answered \cup
                                     (IF x.maps THEN DOMAIN anchors' ELSE {})]
  OBVIOUS
<1>7. setting' = [stage |-> "publish", to |-> to]
  BY <1>1, <1>4, <1>6 DEF BeginSet
<1>8. anchors \in Seq(Row) /\ anchors' \in Seq(Row) /\ MaxSets \in Nat
  BY <1>0, <1>3, InstructionAssumption DEF InstructionTypeOK, Grown, Row
<1>9. to \in Contracts'
  <2>1. to.answered \subseteq DOMAIN anchors'
    BY <1>0, <1>3, <1>6, <1>8 DEF Contracts, Grown
  <2>2. to.revision \in 1 .. MaxSets
    BY <1>0, <1>6, <1>8 DEF Contracts
  <2> QED BY <1>0, <1>2, <1>6, <2>1, <2>2 DEF Contracts
<1>10. AnsweredOK(to)
  <2>1. CASE x.maps
    BY <1>2, <1>6, <1>8, <2>1 DEF AnsweredOK
  <2>2. CASE ~x.maps
    BY <1>0, <1>2, <1>5, <1>6, <2>2 DEF AnsweredOK
  <2> QED BY <2>1, <2>2
<1>11. /\ setting' \in [stage : {"publish", "record"}, to : Contracts']
       /\ setting'.to = to /\ to.revision = bound.revision + 1
  BY <1>6, <1>7, <1>9
<1> QED BY <1>0, <1>3, <1>10, <1>11, SetSideKeeps

\* A Set or an observer that only lets go of the lock changes nothing else.
LEMMA SetDiesKeeps ==
  ASSUME InstructionIInv, SetDies
  PROVE  InstructionIInv'
<1>1. Grown /\ Len(anchors') <= MaxAnchors
  BY DEF InstructionIInv, InstructionTypeOK, Row, Grown, SetDies
<1>2. UNCHANGED <<bound, progress, guarding, restoring>> /\ setting' = Unoccupied
  BY DEF SetDies
<1> QED BY <1>1, <1>2, SetSideKeeps

\* The contract a Set wrote takes the place of the one before, whose receipts are of an
\* earlier revision now.
LEMMA PublishKeeps ==
  ASSUME InstructionIInv, PublishContract
  PROVE  InstructionIInv'
<1>0. /\ InstructionTypeOK /\ ContractsAnswered /\ NextRevision /\ ProgressBound
      /\ RestoreBound /\ UserIsHeard
      /\ UNCHANGED <<anchors, progress, guarding, restoring>>
      /\ setting.stage = "publish" /\ bound' = setting.to
      /\ setting' = [setting EXCEPT !.stage = "record"]
  BY DEF InstructionIInv, PublishContract
<1>1. setting \in [stage : {"publish", "record"}, to : Contracts]
  BY <1>0 DEF InstructionTypeOK, Unoccupied
<1>2. /\ bound' \in Contracts /\ bound'.revision = bound.revision + 1
      /\ bound.revision \in Nat /\ AnsweredOK(bound')
  BY <1>0, <1>1 DEF InstructionTypeOK, Contracts, NextRevision, ContractsAnswered
<1>3. /\ setting' \in [stage : {"publish", "record"}, to : Contracts]
      /\ setting'.to = setting.to /\ setting'.stage = "record"
  BY <1>0, <1>1
<1>4. InstructionTypeOK'
  BY <1>0, <1>2, <1>3 DEF InstructionTypeOK, Contracts
<1>5. ContractsAnswered' /\ NextRevision'
  BY <1>0, <1>2, <1>3 DEF ContractsAnswered, AnsweredOK, NextRevision
<1>6. ProgressBound'
  <2> SUFFICES ASSUME NEW i \in DOMAIN progress
               PROVE  progress[i].revision < bound'.revision
    BY <1>0 DEF ProgressBound
  <2>1. progress[i].revision \in Nat
    <3>0. progress \in Seq([owner : Speaker, revision : 1 .. MaxSets,
                            anchor : 0 .. Len(anchors)])
      BY <1>0 DEF InstructionTypeOK
    <3>1. progress[i] \in [owner : Speaker, revision : 1 .. MaxSets,
                           anchor : 0 .. Len(anchors)]
      BY <3>0, ElementIs
    <3> QED BY <3>1
  <2>2. progress[i].revision <= bound.revision
    BY <1>0, <1>2, <2>1 DEF ProgressBound, ProgressOf
  <2> QED BY <1>2, <2>1, <2>2
<1>7. RestoreBound' /\ UserIsHeard'
  BY <1>0 DEF RestoreBound, NewestOf, UserIsHeard
<1> QED BY <1>4, <1>5, <1>6, <1>7 DEF InstructionIInv

\* A receipt is written of the contract as it is, once.
LEMMA ReceiptKeeps ==
  ASSUME InstructionIInv, RecordProgress \/ ReplaySet
  PROVE  InstructionIInv'
<1>0. /\ InstructionTypeOK /\ ContractsAnswered /\ NextRevision /\ ProgressBound
      /\ RestoreBound /\ UserIsHeard
      /\ UNCHANGED <<anchors, bound, guarding, restoring>>
      /\ progress' \in {progress, WithReceipt(bound)} /\ setting' \in {setting, Unoccupied}
  BY DEF InstructionIInv, RecordProgress, ReplaySet
<1> DEFINE P == [owner : Speaker, revision : 1 .. MaxSets, anchor : 0 .. Len(anchors)]
<1>1. PICK receipt : receipt = ProgressOf(bound)
  OBVIOUS
<1>2. receipt \in P /\ receipt.revision = bound.revision /\ bound.revision \in Nat
  BY <1>0, <1>1 DEF ProgressOf, InstructionTypeOK, Contracts
<1>3. /\ progress \in Seq(P) /\ Len(progress) \in Nat
  BY <1>0 DEF InstructionTypeOK
<1>4. \/ progress' = progress
      \/ /\ progress' = Append(progress, receipt)
         /\ \A i \in DOMAIN progress : progress[i] # receipt
  BY <1>0, <1>1 DEF WithReceipt, HasProgress
<1> HIDE DEF P
<1>5. progress' \in Seq(P)
  BY <1>2, <1>3, <1>4
<1>6. InstructionTypeOK' /\ ContractsAnswered' /\ NextRevision' /\ RestoreBound'
  <2>1. InstructionTypeOK'
    BY <1>0, <1>5 DEF P, InstructionTypeOK, Contracts
  <2>2. ContractsAnswered' /\ NextRevision'
    BY <1>0 DEF ContractsAnswered, AnsweredOK, NextRevision, Unoccupied
  <2> QED BY <1>0, <2>1, <2>2 DEF RestoreBound, NewestOf
<1>7. ProgressBound' /\ UserIsHeard'
  <2>1. CASE progress' = progress
    BY <1>0, <2>1 DEF ProgressBound, ProgressOf, UserIsHeard
  <2>2. CASE /\ progress' = Append(progress, receipt)
             /\ \A i \in DOMAIN progress : progress[i] # receipt
    <3>1. /\ DOMAIN progress' = 1 .. Len(progress) + 1
          /\ DOMAIN progress = 1 .. Len(progress)
          /\ progress'[Len(progress) + 1] = receipt
          /\ \A i \in DOMAIN progress : progress'[i] = progress[i]
      BY <1>3, <2>2
    <3>2. \A i \in DOMAIN progress : progress[i].revision < bound.revision
      BY <1>0, <1>1, <2>2 DEF ProgressBound
    <3>3. \A i \in DOMAIN progress' :
             progress'[i].revision < bound.revision \/ progress'[i] = receipt
      BY <1>3, <3>1, <3>2
    <3>4. ASSUME NEW i \in DOMAIN progress', NEW j \in DOMAIN progress', i < j
          PROVE  progress'[i].revision < progress'[j].revision
      <4>1. i \in DOMAIN progress
        BY <1>3, <3>1, <3>4
      <4>2. CASE j \in DOMAIN progress
        BY <1>0, <3>1, <3>4, <4>1, <4>2 DEF UserIsHeard
      <4>3. CASE j = Len(progress) + 1
        BY <1>2, <3>1, <3>2, <4>1, <4>3
      <4> QED BY <1>3, <3>1, <4>2, <4>3
    <3> QED BY <1>0, <1>1, <3>3, <3>4 DEF ProgressBound, ProgressOf, UserIsHeard
  <2> QED BY <1>4, <2>1, <2>2
<1> QED BY <1>6, <1>7 DEF InstructionIInv

\* What the guard let pass had been answered.
PassedOK(g) ==
  g.stage = "passed" =>
    \A i \in 1 .. g.seen : anchors[i].owner = g.contract.owner => i \in g.contract.answered

\* A step of a reader changes nothing but the reader.
LEMMA ReaderSideKeeps ==
  ASSUME InstructionIInv, UNCHANGED <<anchors, bound, setting, progress>>,
         \/ guarding' \in {guarding, Unoccupied}
         \/ /\ guarding' \in [stage : {"read", "passed"}, contract : Contracts,
                              seen : 0 .. Len(anchors)]
            /\ AnsweredOK(guarding'.contract) /\ PassedOK(guarding'),
         \/ restoring' \in {restoring, Unoccupied}
         \/ /\ restoring' \in [stage : {"read", "current"}, owner : Speaker,
                               anchor : 0 .. Len(anchors), newest : 0 .. Len(anchors)]
            /\ restoring'.newest <= NewestOf(restoring'.owner)
            /\ restoring'.stage = "current" => restoring'.anchor >= restoring'.newest
  PROVE  InstructionIInv'
<1>0. /\ InstructionTypeOK /\ ContractsAnswered /\ NextRevision /\ ProgressBound
      /\ RestoreBound /\ UserIsHeard
  BY DEF InstructionIInv
<1>1. InstructionTypeOK'
  BY <1>0 DEF InstructionTypeOK, Contracts
<1>2. ContractsAnswered' /\ NextRevision' /\ ProgressBound'
  BY <1>0 DEF ContractsAnswered, AnsweredOK, NextRevision, ProgressBound, ProgressOf,
              Unoccupied
<1>3. RestoreBound'
  <2>1. PICK s : s = restoring'.owner
    OBVIOUS
  <2>2. restoring'.stage # "none" => restoring'.newest <= NewestOf(s)
    BY <1>0, <2>1 DEF RestoreBound, Unoccupied
  <2>3. NewestOf(restoring.owner)' = NewestOf(s)
    BY <2>1 DEF NewestOf
  <2> QED BY <2>1, <2>2, <2>3 DEF RestoreBound
<1>4. UserIsHeard'
  BY <1>0 DEF UserIsHeard, PassedOK, Unoccupied
<1> QED BY <1>1, <1>2, <1>3, <1>4 DEF InstructionIInv

\* The anchor of the newest receipt of a session.
LEMMA NewestProgressIs ==
  ASSUME InstructionTypeOK, NEW s
  PROVE  NewestProgress(s) \in 0 .. Len(anchors)
<1> DEFINE own == {i \in DOMAIN progress : progress[i].owner = s}
<1>0. /\ progress \in Seq([owner : Speaker, revision : 1 .. MaxSets,
                          anchor : 0 .. Len(anchors)])
      /\ Len(anchors) \in Nat
  BY DEF InstructionTypeOK
<1>1. CASE own = {}
  BY <1>0, <1>1 DEF NewestProgress, NoAnchor
<1>2. CASE own # {}
  <2>1. PICK i : i = CHOOSE k \in own : \A j \in own : j <= k
    OBVIOUS
  <2>2. own \in SUBSET (1 .. Len(progress)) /\ Len(progress) \in Nat
    BY <1>0
  <2>3. NewestProgress(s) = progress[i].anchor
    BY <1>2, <2>1 DEF NewestProgress
  <2> HIDE DEF own
  <2>4. i \in own
    BY <1>2, <2>1, <2>2, GreatestNumber
  <2>5. progress[i] \in [owner : Speaker, revision : 1 .. MaxSets,
                         anchor : 0 .. Len(anchors)]
    <3>1. i \in DOMAIN progress
      BY <2>4 DEF own
    <3> QED BY <1>0, <3>1, ElementIs
  <2> QED BY <2>3, <2>5
<1> QED BY <1>1, <1>2

\* Guard and restore, from their first read to their judgement.
LEMMA ReadersKeep ==
  ASSUME InstructionIInv,
         \/ GuardReads \/ GuardJudges \/ GuardEnds
         \/ \E s \in Speaker : RestoreReads(s)
         \/ RestoreJudges \/ RestoreEnds
  PROVE  InstructionIInv'
<1>0. /\ InstructionTypeOK /\ ContractsAnswered /\ RestoreBound /\ UserIsHeard
      /\ UNCHANGED <<anchors, bound, setting, progress>>
      /\ bound \in Contracts /\ anchors \in Seq(Row) /\ Len(anchors) \in Nat
  BY DEF InstructionIInv, InstructionTypeOK, Row, GuardReads, GuardJudges, GuardEnds,
         RestoreReads, RestoreJudges, RestoreEnds
<1> DEFINE G == [stage : {"read", "passed"}, contract : Contracts, seen : 0 .. Len(anchors)]
           R == [stage : {"read", "current"}, owner : Speaker,
                 anchor : 0 .. Len(anchors), newest : 0 .. Len(anchors)]
<1>n. ASSUME NEW s PROVE NewestOf(s) \in 0 .. Len(anchors)
  <2>1. Newest(anchors, s) \in 0 .. Len(anchors)
    BY <1>0, NewestIs
  <2> QED BY <2>1 DEF NewestOf, Newest
<1>1. CASE GuardReads
  <2>1. guarding' = [stage |-> "read", contract |-> bound, seen |-> 0] /\ restoring' = restoring
    BY <1>1 DEF GuardReads
  <2>2. /\ guarding' \in G /\ guarding'.stage = "read" /\ guarding'.contract = bound
    BY <1>0, <2>1
  <2> QED BY <1>0, <2>1, <2>2, ReaderSideKeeps DEF ContractsAnswered, PassedOK
<1>2. CASE GuardJudges
  <2>0. restoring' = restoring /\ guarding.stage = "read" /\ guarding \in G
    BY <1>0, <1>2 DEF GuardJudges, InstructionTypeOK, Unoccupied
  <2>1. CASE ~Passes(guarding.contract)
    <3>1. guarding' = Unoccupied
      BY <1>2, <2>1 DEF GuardJudges
    <3> QED BY <1>0, <2>0, <3>1, ReaderSideKeeps
  <2>2. CASE Passes(guarding.contract)
    <3>1. guarding' = [guarding EXCEPT !.stage = "passed", !.seen = Len(anchors)]
      BY <1>2, <2>2 DEF GuardJudges
    <3>2. PICK c \in Contracts : c = guarding.contract
      BY <2>0
    <3>0. Len(anchors) \in 0 .. Len(anchors)
      BY <1>0
    <3>g. PICK n \in Nat : guarding = [stage |-> "read", contract |-> c, seen |-> n]
      BY <1>0, <2>0, <3>2
    <3>h. guarding' = [stage |-> "passed", contract |-> c, seen |-> Len(anchors)]
      <4>1. PICK g : g = [stage |-> "read", contract |-> c, seen |-> n]
        OBVIOUS
      <4>2. PICK m : m = Len(anchors)
        OBVIOUS
      <4>3. [g EXCEPT !.stage = "passed", !.seen = m]
              = [stage |-> "passed", contract |-> c, seen |-> m]
        <5> DEFINE h == [g EXCEPT !.stage = "passed"]
        <5>1. h = [stage |-> "passed", contract |-> c, seen |-> n]
          BY <4>1
        <5>2. [g EXCEPT !.stage = "passed", !.seen = m] = [h EXCEPT !.seen = m]
          OBVIOUS
        <5> HIDE DEF h
        <5> QED BY <5>1, <5>2
      <4> QED BY <3>1, <3>g, <4>1, <4>2, <4>3
    <3>3. /\ guarding' \in G /\ guarding'.contract = c /\ guarding'.seen = Len(anchors)
      BY <3>0, <3>h
    <3>4. AnsweredOK(c) /\ ~c.needs /\ NewestOf(c.owner) \in {NoAnchor, c.anchor}
      BY <1>0, <2>0, <2>2, <3>2 DEF ContractsAnswered, Passes, IsPending
    <3>5. c.anchor \in 0 .. Len(anchors) /\ (1 .. c.anchor \subseteq c.answered)
      BY <3>4 DEF AnsweredOK, Contracts
    <3>6. ASSUME NEW i \in 1 .. Len(anchors), anchors[i].owner = c.owner
          PROVE  i \in c.answered
      <4>1. i <= Newest(anchors, c.owner)
        BY <1>0, <3>6, NewestIs
      <4>2. Newest(anchors, c.owner) \in {NoAnchor, c.anchor}
        BY <3>4 DEF NewestOf, Newest
      <4> QED BY <3>5, <4>1, <4>2 DEF NoAnchor
    <3>7. PassedOK(guarding')
      BY <3>3, <3>6 DEF PassedOK
    <3> QED BY <1>0, <2>0, <3>3, <3>4, <3>7, ReaderSideKeeps
  <2> QED BY <2>1, <2>2
<1>3. CASE GuardEnds
  BY <1>0, <1>3, ReaderSideKeeps DEF GuardEnds
<1>4. CASE \E s \in Speaker : RestoreReads(s)
  <2>1. PICK s \in Speaker : RestoreReads(s)
    BY <1>4
  <2>2. PICK a : a = NewestProgress(s)
    OBVIOUS
  <2>3. PICK n : n = NewestOf(s)
    OBVIOUS
  <2>4. restoring' = [stage |-> "read", owner |-> s, anchor |-> a, newest |-> n]
        /\ guarding' = guarding
    BY <2>1, <2>2, <2>3 DEF RestoreReads
  <2>5. n \in 0 .. Len(anchors)
    BY <1>n, <2>3
  <2>6. a \in 0 .. Len(anchors)
    BY <1>0, <2>2, NewestProgressIs
  <2>7. restoring' \in R /\ restoring'.newest <= NewestOf(restoring'.owner)
        /\ restoring'.stage = "read"
    BY <2>3, <2>4, <2>5, <2>6
  <2> QED BY <1>0, <2>4, <2>7, ReaderSideKeeps
<1>5. CASE RestoreJudges
  <2>0. guarding' = guarding /\ restoring.stage = "read" /\ restoring \in R
        /\ restoring.newest <= NewestOf(restoring.owner)
    BY <1>0, <1>5 DEF RestoreJudges, InstructionTypeOK, Unoccupied, RestoreBound
  <2>1. CASE ~BindingIsCurrent(restoring.owner, restoring.anchor)
    <3>1. restoring' = Unoccupied
      BY <1>5, <2>1 DEF RestoreJudges
    <3> QED BY <1>0, <2>0, <3>1, ReaderSideKeeps
  <2>2. CASE BindingIsCurrent(restoring.owner, restoring.anchor)
    <3>1. restoring' = [restoring EXCEPT !.stage = "current"]
      BY <1>5, <2>2 DEF RestoreJudges
    <3>2. /\ restoring' \in R /\ restoring'.owner = restoring.owner
          /\ restoring'.newest = restoring.newest /\ restoring'.anchor = restoring.anchor
      BY <2>0, <3>1
    <3>3. restoring.anchor >= restoring.newest
      BY <2>0, <2>2 DEF BindingIsCurrent
    <3> QED BY <1>0, <2>0, <3>2, <3>3, ReaderSideKeeps
  <2> QED BY <2>1, <2>2
<1>6. CASE RestoreEnds
  BY <1>0, <1>6, ReaderSideKeeps DEF RestoreEnds
<1> QED BY <1>1, <1>2, <1>3, <1>4, <1>5, <1>6

\* Nobody said or did anything.
LEMMA InstructionInitHolds == InstructionInit => InstructionIInv
<1> SUFFICES ASSUME InstructionInit PROVE InstructionIInv
  OBVIOUS
<1>0. /\ anchors = <<>> /\ progress = <<>> /\ setting = Unoccupied
      /\ guarding = Unoccupied /\ restoring = Unoccupied
      /\ bound.revision = 1 /\ bound.anchor = 0 /\ bound.answered = {}
      /\ 1 \in 1 .. MaxSets /\ MaxAnchors \in Nat
  BY InstructionAssumption DEF InstructionInit, NoAnchor
<1>1. FALSE \in BOOLEAN
  BY Zenon
<1>2. PICK s \in Speaker : s = CHOOSE t \in Speaker : TRUE
  BY InstructionAssumption
<1>3. bound = [revision |-> 1, owner |-> s, anchor |-> 0, needs |-> FALSE, answered |-> {}]
  BY <1>2 DEF InstructionInit, NoAnchor
<1>4. bound \in Contracts
  BY <1>0, <1>1, <1>3 DEF Contracts
<1>5. InstructionTypeOK
  BY <1>0, <1>4 DEF InstructionTypeOK
<1>6. ContractsAnswered /\ NextRevision /\ ProgressBound /\ RestoreBound /\ UserIsHeard
  BY <1>0 DEF ContractsAnswered, AnsweredOK, NextRevision, ProgressBound, RestoreBound,
              UserIsHeard, Unoccupied
<1> QED BY <1>5, <1>6 DEF InstructionIInv

\* The invariant holds in every state of every behaviour of sets and readers.
THEOREM InstructionInvariance == InstructionSpec => []InstructionIInv
<1>1. InstructionIInv /\ [InstructionNext]_instructionVars => InstructionIInv'
  <2> SUFFICES ASSUME InstructionIInv, [InstructionNext]_instructionVars
               PROVE  InstructionIInv'
    OBVIOUS
  <2>1. CASE \E s \in Speaker, text \in Wish \cup {Confirmation} : ObserveUser(s, text)
    BY <2>1, ObserveUserKeeps
  <2>2. CASE \E x \in SetOf : BeginSet(x)
    BY <2>2, BeginSetKeeps
  <2>3. CASE PublishContract
    BY <2>3, PublishKeeps
  <2>4. CASE RecordProgress \/ ReplaySet
    BY <2>4, ReceiptKeeps
  <2>5. CASE SetDies
    BY <2>5, SetDiesKeeps
  <2>6. CASE \/ GuardReads \/ GuardJudges \/ GuardEnds
             \/ \E s \in Speaker : RestoreReads(s)
             \/ RestoreJudges \/ RestoreEnds
    BY <2>6, ReadersKeep
  <2>7. CASE UNCHANGED instructionVars
    BY <2>7, ReaderSideKeeps DEF instructionVars
  <2> QED BY <2>1, <2>2, <2>3, <2>4, <2>5, <2>6, <2>7 DEF InstructionNext
<1> QED BY <1>1, InstructionInitHolds, PTL DEF InstructionSpec

\* Anchors, contracts and receipts keep their types.
THEOREM InstructionTypeCorrect == InstructionSpec => []InstructionTypeOK
<1>1. InstructionIInv => InstructionTypeOK
  BY DEF InstructionIInv
<1> QED BY <1>1, InstructionInvariance, PTL

\* Work that passes follows what the user said, and a restore is not led back.
THEOREM UserHeard == InstructionSpec => []UserIsHeard
<1>1. InstructionIInv => UserIsHeard
  BY DEF InstructionIInv
<1> QED BY <1>1, InstructionInvariance, PTL
=============================================================================
