-------------------------- MODULE Snapshot_proofs --------------------------
(***************************************************************************)
(* The snapshot between the camera process and the policy worker.          *)
(*                                                                         *)
(* ReadsWhole of SnapshotArena for every number of slots, parts and        *)
(* samples.  ObservationIsFresh and StopIsNotStuck of LocalSnapshot for    *)
(* any cameras, arms, histories, ages and timeouts.                        *)
(***************************************************************************)
EXTENDS SnapshotArena, LocalSnapshotInv, SequenceTheorems, WellFoundedInduction, TLAPS

-----------------------------------------------------------------------------
(* SnapshotArena *)

(* The slot of any sequence number is a slot of the arena. *)
LEMMA SlotExists ==
    ASSUME NEW n \in Nat
    PROVE  n % Slots \in SlotIndex
  BY ArenaAssumption DEF SlotIndex

(* The empty arena satisfies the invariant. *)
LEMMA ArenaStarts == ArenaInit => ArenaInv
<1> SUFFICES ASSUME ArenaInit PROVE ArenaInv
  OBVIOUS
<1> USE ArenaAssumption DEF ArenaInit, NoDescriptor, Blank
<1>1. ArenaTypeOK
  BY DEF ArenaTypeOK, Descriptor, SlotIndex, PartIndex
<1>2. SlotsAreWhole
  BY DEF SlotsAreWhole
<1>3. WritesOddSlot /\ IssuedWereCommitted /\ ReadsItsOwn /\ ReadsWhole
  BY DEF WritesOddSlot, IssuedWereCommitted, ReadsItsOwn, ReadsWhole
<1> QED
  BY <1>1, <1>2, <1>3 DEF ArenaInv

(* BeginCommit: the slot is odd, so nobody who finds a generation in it may  *)
(* rely on its parts; whoever was reading it no longer matches.              *)
LEMMA BeginCommitKeeps == ArenaInv /\ BeginCommit => ArenaInv'
<1> SUFFICES ASSUME ArenaInv, BeginCommit PROVE ArenaInv'
  OBVIOUS
<1> USE ArenaAssumption
<1>0. ArenaTypeOK /\ SlotsAreWhole /\ IssuedWereCommitted /\ ReadsItsOwn /\ ReadsWhole
  BY DEF ArenaInv
<1>a. /\ sequence \in Nat /\ sequence' = sequence + 1
      /\ sequence' \in Nat /\ sequence' \in 0 .. MaxSequence
  BY <1>0 DEF BeginCommit, ArenaTypeOK
<1> DEFINE at == sequence' % Slots
<1>b. at \in SlotIndex
  BY <1>a, SlotExists
<1>1. /\ generation' = [generation EXCEPT ![at] = 2 * sequence' + 1]
      /\ writing' = 1 /\ UNCHANGED <<content, issued, readerVars>>
  BY DEF BeginCommit
<1> HIDE DEF at
<1>2. /\ generation'[at] = 2 * sequence' + 1
      /\ \A slot \in SlotIndex : slot # at => generation'[slot] = generation[slot]
      /\ generation' \in [SlotIndex -> Nat]
  BY <1>0, <1>a, <1>b, <1>1 DEF ArenaTypeOK
<1>3. ArenaTypeOK'
  <2>1. writing' \in 0 .. Parts + 1
    BY <1>1
  <2> QED
    BY <1>0, <1>a, <1>1, <1>2, <2>1 DEF ArenaTypeOK, readerVars
<1>4. SlotsAreWhole'
  <2> SUFFICES ASSUME NEW slot \in SlotIndex
               PROVE  \E n \in 0 .. sequence' :
                        \/ generation'[slot] = 2 * n + 1
                        \/ /\ generation'[slot] = 2 * n
                           /\ \A part \in PartIndex : content[slot][part] = n
    BY <1>1 DEF SlotsAreWhole
  <2>1. sequence' \in 0 .. sequence' /\ \A n \in 0 .. sequence : n \in 0 .. sequence'
    BY <1>a
  <2>2. CASE slot = at
    BY <1>2, <2>1, <2>2
  <2>3. CASE slot # at
    BY <1>0, <1>2, <2>1, <2>3 DEF SlotsAreWhole
  <2> QED
    BY <2>2, <2>3
<1>5. \A descriptor \in issued : descriptor.generation < 2 * sequence'
  BY <1>0, <1>a, <1>b, <1>1 DEF IssuedWereCommitted, ArenaTypeOK, Descriptor
<1>6. WritesOddSlot'
  BY <1>0, <1>a, <1>b, <1>1, <1>2, <1>5 DEF WritesOddSlot, CurrentSlot, PartIndex, at
<1>7. IssuedWereCommitted'
  BY <1>0, <1>a, <1>b, <1>1, <1>2, <1>5 DEF IssuedWereCommitted, ArenaTypeOK, Descriptor
<1>8. ReadsItsOwn'
  <2>1. reading # 0 /\ Matches' => Matches
    BY <1>0, <1>a, <1>b, <1>1, <1>2, <1>5
       DEF Matches, readerVars, ReadsItsOwn, ArenaTypeOK, Descriptor
  <2> QED
    BY <1>0, <1>a, <1>b, <1>1, <2>1 DEF ReadsItsOwn, readerVars
<1>9. ReadsWhole'
  BY <1>0, <1>a, <1>b, <1>1 DEF ReadsWhole, readerVars
<1> QED
  BY <1>3, <1>4, <1>6, <1>7, <1>8, <1>9 DEF ArenaInv

(* CopyPart: only parts of a slot that is odd change. *)
LEMMA CopyPartKeeps == ArenaInv /\ CopyPart => ArenaInv'
<1> SUFFICES ASSUME ArenaInv, CopyPart PROVE ArenaInv'
  OBVIOUS
<1> USE ArenaAssumption
<1>0. /\ ArenaTypeOK /\ SlotsAreWhole /\ WritesOddSlot /\ IssuedWereCommitted
      /\ ReadsItsOwn /\ ReadsWhole
  BY DEF ArenaInv
<1>a. sequence \in Nat /\ sequence' = sequence /\ writing \in PartIndex /\ writing # 0
  BY <1>0 DEF CopyPart, ArenaTypeOK, PartIndex
<1>b. CurrentSlot \in SlotIndex /\ CurrentSlot' = CurrentSlot
  BY <1>a, SlotExists DEF CurrentSlot
<1>1. /\ writing' = writing + 1
      /\ content' = [content EXCEPT ![CurrentSlot] = [@ EXCEPT ![writing] = sequence]]
      /\ UNCHANGED <<sequence, generation, issued, readerVars>>
  BY DEF CopyPart
<1> DEFINE at == CurrentSlot
<1>2. /\ content'[at] = [content[at] EXCEPT ![writing] = sequence]
      /\ \A slot \in SlotIndex : slot # at => content'[slot] = content[slot]
      /\ content' \in [SlotIndex -> [PartIndex -> Nat]]
  BY <1>0, <1>1, <1>a, <1>b DEF ArenaTypeOK
<1>4. /\ generation[at] = 2 * sequence + 1
      /\ \A part \in PartIndex : part < writing => content[at][part] = sequence
      /\ \A descriptor \in issued : descriptor.generation < 2 * sequence
  BY <1>0, <1>a DEF WritesOddSlot
<1>5. \A part \in PartIndex : part < writing + 1 => content'[at][part] = sequence
  <2> SUFFICES ASSUME NEW part \in PartIndex, part < writing + 1
               PROVE  content'[at][part] = sequence
    OBVIOUS
  <2>1. content[at] \in [PartIndex -> Nat]
    BY <1>0, <1>b DEF ArenaTypeOK
  <2>2. CASE part = writing
    BY <1>2, <2>1, <2>2
  <2>3. CASE part # writing
    <3>1. part < writing
      BY <1>a, <2>3 DEF PartIndex
    <3> QED
      BY <1>2, <1>4, <2>1, <2>3, <3>1
  <2> QED
    BY <2>2, <2>3
<1> HIDE DEF at
<1>6. ArenaTypeOK'
  <2>1. writing' \in 0 .. Parts + 1
    BY <1>a, <1>1 DEF PartIndex
  <2> QED
    BY <1>0, <1>1, <1>2, <2>1 DEF ArenaTypeOK, readerVars
<1>7. SlotsAreWhole'
  <2>1. \A slot \in SlotIndex : slot # at => content'[slot] = content[slot]
    BY <1>2
  <2>2. generation' = generation /\ sequence' = sequence
    BY <1>1
  <2>3. sequence \in 0 .. sequence
    BY <1>a
  <2> QED
    BY <1>0, <1>4, <2>1, <2>2, <2>3 DEF SlotsAreWhole
<1>8. WritesOddSlot'
  BY <1>0, <1>a, <1>b, <1>1, <1>4, <1>5 DEF WritesOddSlot, at
<1>9. IssuedWereCommitted'
  BY <1>0, <1>1 DEF IssuedWereCommitted, ArenaTypeOK, Descriptor
<1>10. ReadsItsOwn'
  <2>1. Matches' <=> Matches
    BY <1>0, <1>1 DEF Matches, readerVars
  <2> QED
    BY <1>0, <1>1, <2>1 DEF ReadsItsOwn, readerVars
<1>11. ReadsWhole'
  BY <1>0, <1>1 DEF ReadsWhole, readerVars
<1> QED
  BY <1>6, <1>7, <1>8, <1>9, <1>10, <1>11 DEF ArenaInv

(* Publish: all parts were copied; the generation is one nobody holds yet.   *)
LEMMA PublishKeeps == ArenaInv /\ Publish => ArenaInv'
<1> SUFFICES ASSUME ArenaInv, Publish PROVE ArenaInv'
  OBVIOUS
<1> USE ArenaAssumption
<1>0. /\ ArenaTypeOK /\ SlotsAreWhole /\ WritesOddSlot /\ IssuedWereCommitted
      /\ ReadsItsOwn /\ ReadsWhole
  BY DEF ArenaInv
<1> DEFINE at == CurrentSlot
           new == [slot |-> at, generation |-> 2 * sequence]
<1>a. sequence \in Nat /\ sequence' = sequence /\ writing = Parts + 1 /\ writing # 0
  BY <1>0 DEF Publish, ArenaTypeOK
<1>b. at \in SlotIndex
  BY <1>a, SlotExists DEF CurrentSlot
<1>1. /\ writing' = 0 /\ issued' = issued \cup {new}
      /\ generation' = [generation EXCEPT ![at] = 2 * sequence]
      /\ UNCHANGED <<sequence, content, readerVars>>
  BY DEF Publish
<1>2. /\ generation'[at] = 2 * sequence
      /\ \A slot \in SlotIndex : slot # at => generation'[slot] = generation[slot]
      /\ generation' \in [SlotIndex -> Nat]
  BY <1>0, <1>a, <1>b, <1>1 DEF ArenaTypeOK
<1>3. /\ sequence # 0
      /\ \A part \in PartIndex : content[at][part] = sequence
      /\ \A descriptor \in issued : descriptor.generation < 2 * sequence
  BY <1>0, <1>a, <1>b, <1>1 DEF WritesOddSlot, PartIndex
<1>4. new \in Descriptor
  BY <1>a, <1>b DEF Descriptor
<1> HIDE DEF at
<1>5. ArenaTypeOK'
  BY <1>0, <1>a, <1>b, <1>1, <1>2, <1>4 DEF ArenaTypeOK, readerVars
<1>6. SlotsAreWhole'
  BY <1>0, <1>a, <1>b, <1>1, <1>2, <1>3 DEF SlotsAreWhole
<1>7. WritesOddSlot'
  BY <1>1 DEF WritesOddSlot
<1>8. IssuedWereCommitted'
  BY <1>0, <1>a, <1>b, <1>1, <1>2, <1>3 DEF IssuedWereCommitted, ArenaTypeOK, Descriptor
<1>9. ReadsItsOwn'
  <2>1. reading # 0 /\ Matches' => Matches
    BY <1>0, <1>a, <1>b, <1>1, <1>2, <1>3
       DEF Matches, readerVars, ReadsItsOwn, ArenaTypeOK, Descriptor
  <2> QED
    BY <1>0, <1>a, <1>b, <1>1, <2>1 DEF ReadsItsOwn, readerVars
<1>10. ReadsWhole'
  BY <1>0, <1>a, <1>b, <1>1 DEF ReadsWhole, readerVars
<1> QED
  BY <1>5, <1>6, <1>7, <1>8, <1>9, <1>10 DEF ArenaInv

(* A writer that gives up ... *)
LEMMA CopyThrowsKeeps == ArenaInv /\ CopyThrows => ArenaInv'
  BY ArenaAssumption DEF ArenaInv, CopyThrows, readerVars, ArenaTypeOK, SlotsAreWhole,
     WritesOddSlot, IssuedWereCommitted, ReadsItsOwn, ReadsWhole, Matches, CurrentSlot

(* ... and those of the reader. *)
LEMMA ReadKeeps == ArenaInv /\ Read => ArenaInv'
<1> SUFFICES ASSUME ArenaInv, Read PROVE ArenaInv'
  OBVIOUS
<1> USE ArenaAssumption
<1>0. /\ ArenaTypeOK /\ SlotsAreWhole /\ WritesOddSlot /\ IssuedWereCommitted
      /\ ReadsItsOwn /\ ReadsWhole
  BY DEF ArenaInv
<1>1. UNCHANGED writerVars
  BY DEF Read, BeginRead, Compare, ReadPart, Return, Refuse
<1>2. SlotsAreWhole' /\ WritesOddSlot' /\ IssuedWereCommitted'
  BY <1>0, <1>1 DEF writerVars, SlotsAreWhole, WritesOddSlot, IssuedWereCommitted, CurrentSlot
<1>3. NoDescriptor \in Descriptor
  BY DEF NoDescriptor, Descriptor, SlotIndex
<1>4. CASE \E descriptor \in issued : BeginRead(descriptor)
  <2>1. PICK descriptor \in issued : BeginRead(descriptor)
    BY <1>4
  <2>2. ArenaTypeOK'
    BY <1>0, <1>1, <1>3, <2>1 DEF BeginRead, ArenaTypeOK, writerVars, Blank
  <2>3. ReadsItsOwn' /\ ReadsWhole'
    BY <1>0, <1>1, <2>1 DEF BeginRead, ReadsItsOwn, ReadsWhole, writerVars, PartIndex
  <2> QED
    BY <1>2, <2>2, <2>3 DEF ArenaInv
<1>5. CASE Compare
  <2>1. ArenaTypeOK' /\ ReadsItsOwn' /\ ReadsWhole'
    BY <1>0, <1>1, <1>5 DEF Compare, ArenaTypeOK, ReadsItsOwn, ReadsWhole, writerVars,
       Matches, PartIndex
  <2> QED
    BY <1>2, <2>1 DEF ArenaInv
<1>6. CASE ReadPart
  <2> DEFINE part == reading - 1
  <2>a. /\ reading \in 0 .. Parts + 2 /\ want \in Descriptor
        /\ seen \in [PartIndex -> Nat] /\ content \in [SlotIndex -> [PartIndex -> Nat]]
    BY <1>0 DEF ArenaTypeOK
  <2>b. /\ part \in PartIndex /\ reading' = reading + 1 /\ UNCHANGED <<want, sample>>
        /\ seen' = [seen EXCEPT ![part] = content[want.slot][part]]
    BY <1>6 DEF ReadPart
  <2>c. reading # 0 /\ reading' \in 0 .. Parts + 2 /\ reading = part + 1
    BY <2>a, <2>b DEF PartIndex
  <2> HIDE DEF part
  <2>d. want.slot \in SlotIndex /\ want \in issued
    BY <1>0, <2>a, <2>c DEF Descriptor, ReadsItsOwn
  <2>e. content[want.slot][part] \in Nat /\ seen' \in [PartIndex -> Nat]
    BY <2>a, <2>b, <2>d
  <2>1. ArenaTypeOK'
    BY <1>0, <1>1, <2>b, <2>c, <2>e DEF ArenaTypeOK, writerVars
  <2>2. ASSUME Matches PROVE 2 * content[want.slot][part] = want.generation
    <3>1. PICK m \in 1 .. sequence : want.generation = 2 * m
      BY <1>0, <2>d DEF IssuedWereCommitted
    <3>2. PICK n \in 0 .. sequence :
            \/ generation[want.slot] = 2 * n + 1
            \/ /\ generation[want.slot] = 2 * n
               /\ content[want.slot][part] = n
      BY <1>0, <2>b, <2>d DEF SlotsAreWhole
    <3>3. sequence \in Nat
      BY <1>0 DEF ArenaTypeOK
    <3> QED
      BY <2>2, <3>1, <3>2, <3>3 DEF Matches
  <2>3. ReadsItsOwn'
    <3> SUFFICES ASSUME Matches, NEW other \in PartIndex, other < reading' - 1
                 PROVE  2 * seen'[other] = want.generation
      BY <1>1, <2>b, <2>d DEF ReadsItsOwn, Matches, writerVars
    <3>1. CASE other = part
      BY <2>2, <2>a, <2>b, <3>1
    <3>2. CASE other # part
      <4>1. other < reading - 1
        BY <2>b, <2>c, <3>2 DEF PartIndex
      <4> QED
        BY <1>0, <2>a, <2>b, <2>c, <3>2, <4>1 DEF ReadsItsOwn
    <3> QED
      BY <3>1, <3>2
  <2>4. ReadsWhole'
    BY <1>0, <1>1, <2>b DEF ReadsWhole, writerVars
  <2> QED
    BY <1>2, <2>1, <2>3, <2>4 DEF ArenaInv
<1>7. CASE Return
  <2>1. ArenaTypeOK' /\ ReadsItsOwn'
    BY <1>0, <1>1, <1>7 DEF Return, ArenaTypeOK, ReadsItsOwn, writerVars
  <2>2. ReadsWhole'
    BY <1>0, <1>1, <1>7 DEF Return, ReadsItsOwn, ReadsWhole, writerVars, PartIndex, ArenaTypeOK
  <2> QED
    BY <1>2, <2>1, <2>2 DEF ArenaInv
<1>8. CASE Refuse
  <2>1. ArenaTypeOK' /\ ReadsItsOwn' /\ ReadsWhole'
    BY <1>0, <1>1, <1>8 DEF Refuse, ArenaTypeOK, ReadsItsOwn, ReadsWhole, writerVars
  <2> QED
    BY <1>2, <2>1 DEF ArenaInv
<1> QED
  BY <1>4, <1>5, <1>6, <1>7, <1>8 DEF Read

(* ArenaInv is an invariant of the arena.                                    *)
THEOREM ArenaInductive == ArenaSpec => []ArenaInv
<1>1. ArenaInv /\ [Write \/ Read]_arenaVars => ArenaInv'
  <2>1. ASSUME ArenaInv, UNCHANGED arenaVars PROVE ArenaInv'
    BY <2>1 DEF arenaVars, ArenaInv, ArenaTypeOK, SlotsAreWhole, WritesOddSlot,
       IssuedWereCommitted, ReadsItsOwn, ReadsWhole, Matches, CurrentSlot
  <2> QED
    BY <2>1, BeginCommitKeeps, CopyPartKeeps, PublishKeeps, CopyThrowsKeeps, ReadKeeps
       DEF Write
<1> QED
  BY <1>1, ArenaStarts, PTL DEF ArenaSpec

(* Whatever read returns is one committed sample, whole, and the one it was  *)
(* asked for.                                                                *)
THEOREM ReadsAreWhole == ArenaSpec => []ReadsWhole
  BY ArenaInductive, PTL DEF ArenaInv

-----------------------------------------------------------------------------
(* LocalSnapshot: what it chooses from its buffers. *)

(* The order of the numbers, as a set of pairs. *)
Less == {pair \in Nat \X Nat : pair[1] < pair[2]}

(* Every nonempty set of numbers has a least element. *)
LEMMA LeastExists ==
    ASSUME NEW S \in SUBSET Nat, S # {}
    PROVE  \E x \in S : \A y \in S : x <= y
<1>1. IsWellFoundedOn(Less, Nat)
  BY NatLessThanWellFounded DEF OpToRel, Less
<1>2. PICK x \in S : \A y \in S : <<y, x>> \notin Less
  BY <1>1, WFMin
<1>3. ASSUME NEW y \in S PROVE x <= y
  <2>1. ~(y < x)
    BY <1>2 DEF Less
  <2> QED
    BY <2>1
<1> QED
  BY <1>3

(* ... which is what Min chooses. *)
LEMMA LeastOf ==
    ASSUME NEW S \in SUBSET Nat, S # {}
    PROVE  Min(S) \in S
  BY LeastExists DEF Min

(* Every nonempty set of integers up to a bound has a greatest element: the *)
(* one whose distance from the bound is least.                              *)
LEMMA GreatestOf ==
    ASSUME NEW b \in Int, NEW S \in SUBSET {x \in Int : x <= b}, S # {}
    PROVE  Max(S) \in S /\ \A y \in S : y <= Max(S)
<1> DEFINE T == {b - s : s \in S}
<1>1. T \in SUBSET Nat
  OBVIOUS
<1>2. PICK s \in S : TRUE
  OBVIOUS
<1>3. b - s \in T
  OBVIOUS
<1>4. PICK t \in T : \A u \in T : t <= u
  BY <1>1, <1>3, LeastExists
<1>5. PICK m \in S : t = b - m
  OBVIOUS
<1>6. ASSUME NEW y \in S PROVE m >= y
  <2>1. b - m <= b - y
    BY <1>4, <1>5
  <2> QED
    BY <2>1
<1> QED
  BY <1>6 DEF Max

(* What push keeps is what it was given. *)
LEMMA PushedType ==
    ASSUME NEW S \in SUBSET Int, NEW stamps \in Seq(S), NEW stamp \in S, NEW limit \in Nat
    PROVE  Pushed(stamps, stamp, limit) \in Seq(S)
<1> DEFINE grown == Append(stamps, stamp)
           first == Len(grown) - limit + 1
<1>1. grown \in Seq(S) /\ Len(grown) \in Nat /\ first \in Int
  BY AppendProperties, LenProperties
<1> HIDE DEF grown, first
<1>2. Max({1, first}) \in Int /\ Max({1, first}) >= 1
  <2>1. CASE first <= 1
    <3>1. {1, first} \in SUBSET {x \in Int : x <= 1}
      BY <1>1, <2>1
    <3> QED
      BY <3>1, GreatestOf
  <2>2. CASE first > 1
    <3>1. {1, first} \in SUBSET {x \in Int : x <= first}
      BY <1>1, <2>2
    <3>2. Max({1, first}) \in {1, first}
      BY <1>1, <3>1, GreatestOf
    <3> QED
      BY <1>1, <2>2, <3>2
  <2> QED
    BY <1>1, <2>1, <2>2
<1>3. SubSeq(grown, Max({1, first}), Len(grown)) \in Seq(S)
  <2> DEFINE m == Max({1, first})
             n == Len(grown)
  <2>1. m \in Int /\ m >= 1 /\ n \in Int
    BY <1>1, <1>2
  <2>2. \A i \in 1 .. n : grown[i] \in S
    BY <1>1, ElementOfSeq
  <2> HIDE DEF m, n
  <2>3. \A i \in m .. n : grown[i] \in S
    BY <2>1, <2>2
  <2>4. SubSeq(grown, m, n) \in Seq(S)
    BY <2>1, <2>3, SubSeqProperties
  <2> QED
    BY <2>4 DEF m, n
<1> QED
  BY <1>3 DEF Pushed, grown, first

(* The buffers hold nothing newer than the clock. *)
LEMMA BufferFacts ==
    ASSUME TypeOK, NEW stream \in Streams
    PROVE  ToSet(buffers[stream]) \in SUBSET {stamp \in Int : stamp <= now}
<1>1. buffers[stream] \in Seq({stamp \in Int : stamp <= now})
  BY DEF TypeOK
<1>2. \A i \in DOMAIN buffers[stream] : buffers[stream][i] \in {stamp \in Int : stamp <= now}
  BY <1>1, ElementOfSeq, LenProperties
<1> QED
  BY <1>2 DEF ToSet

(* ... and neither does what is chosen of them. *)
LEMMA NearestFacts ==
    ASSUME TypeOK, NEW side \in Sides, NEW anchor
    PROVE  NearestNotAfter(buffers[side], anchor) \in SUBSET {stamp \in Int : stamp <= now}
<1> DEFINE Delta(stamp) == IF stamp < anchor THEN anchor - stamp ELSE stamp - anchor
           candidates == {stamp \in ToSet(buffers[side]) : stamp <= now}
           best == {stamp \in candidates :
                       \A other \in candidates : Delta(stamp) <= Delta(other)}
<1>1. side \in Streams
  BY DEF Streams, Cameras
<1>2. best \in SUBSET {stamp \in Int : stamp <= now}
  BY <1>1, BufferFacts
<1>3. best # {} => Max(best) \in best
  <2> HIDE DEF best
  <2>1. now \in Int
    BY DEF TypeOK
  <2> QED
    BY <1>2, <2>1, GreatestOf
<1>4. NearestNotAfter(buffers[side], anchor) = IF best = {} THEN {} ELSE {Max(best)}
  BY DEF NearestNotAfter
<1> QED
  BY <1>2, <1>3, <1>4

(* What select returns was not after the clock, and no older than allowed.  *)
LEMMA SelectedFacts ==
    ASSUME TypeOK, Selected # {}
    PROVE  /\ Max(Group(Max(Selected))) \in Int
           /\ now - Max(Group(Max(Selected))) \in 0 .. MaxAge
<1> DEFINE i == Max(Selected)
<1>1. "overview" \in Streams /\ now \in Int
  BY DEF Streams, Cameras, TypeOK
<1>2. Len(buffers["overview"]) \in Int /\ DOMAIN buffers["overview"] = 1 .. Len(buffers["overview"])
  BY <1>1 DEF TypeOK
<1>3. Selected \in SUBSET {x \in Int : x <= Len(buffers["overview"])}
  BY <1>2 DEF Selected
<1>4. i \in Selected
  BY <1>2, <1>3, GreatestOf
<1> HIDE DEF i
<1>5. i \in DOMAIN buffers["overview"] /\ Usable(i)
  BY <1>4 DEF Selected
<1>6. buffers["overview"][i] \in {stamp \in Int : stamp <= now}
  <2>1. buffers["overview"] \in Seq({stamp \in Int : stamp <= now})
    BY <1>1 DEF TypeOK
  <2> QED
    BY <1>2, <1>5, <2>1, ElementOfSeq
<1>7. Group(i) \in SUBSET {stamp \in Int : stamp <= now}
  BY <1>6, NearestFacts DEF Group
<1>8. Group(i) # {}
  BY DEF Group
<1>9. Max(Group(i)) \in Int
  BY <1>1, <1>7, <1>8, GreatestOf
<1> QED
  BY <1>5, <1>9 DEF Usable, i

(* The two slots. *)
LEMMA SlotFacts ==
    ASSUME NEW n \in Nat
    PROVE  n % 2 \in 0 .. 1 /\ (2 * n) \div 2 = n /\ (n \div 2) % 2 \in 0 .. 1
  OBVIOUS

-----------------------------------------------------------------------------
(* What each step does to the connections. *)

(* A connection is a record whose parts change one by one. *)
LEMMA PeerParts ==
    ASSUME NEW p \in Peers
    PROVE  /\ p.queue \in {"waiting", "accepted", "closed"} /\ p.asked \in BOOLEAN
           /\ p.reply \in Seq(Replies) /\ p.hungup \in BOOLEAN /\ p.shut \in BOOLEAN
  BY DEF Peers

(* Its place in the queue, *)
LEMMA Queued ==
    ASSUME NEW p \in Peers, NEW q \in {"accepted", "closed"}
    PROVE  /\ [p EXCEPT !.queue = q] \in Peers
           /\ [p EXCEPT !.queue = q].asked = p.asked
           /\ [p EXCEPT !.queue = q].reply = p.reply
           /\ [p EXCEPT !.queue = q].shut = p.shut
  BY DEF Peers

(* the request on it, *)
LEMMA Asked ==
    ASSUME NEW p \in Peers, NEW b \in BOOLEAN
    PROVE  /\ [p EXCEPT !.asked = b] \in Peers
           /\ [p EXCEPT !.asked = b].asked = b
           /\ [p EXCEPT !.asked = b].reply = p.reply
           /\ [p EXCEPT !.asked = b].shut = p.shut
  BY DEF Peers

(* the answers on it, *)
LEMMA Replied ==
    ASSUME NEW p \in Peers, NEW r \in Seq(Replies)
    PROVE  /\ [p EXCEPT !.reply = r] \in Peers
           /\ [p EXCEPT !.reply = r].asked = p.asked
           /\ [p EXCEPT !.reply = r].reply = r
           /\ [p EXCEPT !.reply = r].shut = p.shut
  BY DEF Peers

(* that the client closed it, *)
LEMMA HungUp ==
    ASSUME NEW p \in Peers
    PROVE  /\ [p EXCEPT !.hungup = TRUE] \in Peers
           /\ [p EXCEPT !.hungup = TRUE].shut = p.shut
  BY DEF Peers

(* and that stop() shut it down. *)
LEMMA ShutDown ==
    ASSUME NEW p \in Peers
    PROVE  /\ [p EXCEPT !.shut = TRUE] \in Peers
           /\ [p EXCEPT !.shut = TRUE].asked = p.asked
           /\ [p EXCEPT !.shut = TRUE].reply = p.reply
           /\ [p EXCEPT !.shut = TRUE].shut
  BY DEF Peers

(* A step replaces one connection and leaves the others. *)
LEMMA OneChanges ==
    ASSUME TypeOK, NEW k \in 1 .. Len(peers), NEW p \in Peers, peers' = [peers EXCEPT ![k] = p]
    PROVE  /\ peers' \in Seq(Peers) /\ Len(peers') = Len(peers) /\ peers'[k] = p
           /\ \A i \in 1 .. Len(peers) : i # k => peers'[i] = peers[i]
  BY DEF TypeOK

(* All connections but one stay as they are. *)
Others(k) == \A i \in 1 .. Len(peers) : i # k => peers'[i] = peers[i]

PeersKeepType == peers' \in Seq(Peers) /\ Len(peers') = Len(peers)

(* What HangUp does to the connection it gives up, and to no other.          *)
LEMMA HangUpFacts ==
    ASSUME TypeOK, HangUp
    PROVE  /\ socket' = 0 /\ PeersKeepType
           /\ \A i \in 1 .. Len(peers) : peers'[i].shut = peers[i].shut
<1>1. socket' = 0
  BY DEF HangUp
<1>2. CASE socket = 0
  BY <1>2 DEF HangUp, TypeOK, PeersKeepType
<1>3. CASE socket # 0
  <2> DEFINE p == peers[socket]
             after == [[p EXCEPT !.hungup = TRUE] EXCEPT !.reply = <<>>]
  <2>1. socket \in 1 .. Len(peers) /\ p \in Peers
    BY <1>3 DEF TypeOK
  <2>2. [p EXCEPT !.hungup = TRUE] \in Peers /\ [p EXCEPT !.hungup = TRUE].shut = p.shut
    BY <2>1, HungUp
  <2>3. <<>> \in Seq(Replies)
    OBVIOUS
  <2>4. after \in Peers /\ after.shut = p.shut
    BY <2>2, <2>3, Replied
  <2>5. peers' = [peers EXCEPT ![socket] = after]
    BY <1>3 DEF HangUp
  <2> HIDE DEF after
  <2>6. peers' \in Seq(Peers) /\ Len(peers') = Len(peers) /\ peers'[socket] = after
        /\ \A i \in 1 .. Len(peers) : i # socket => peers'[i] = peers[i]
    BY <2>1, <2>4, <2>5, OneChanges
  <2> QED
    BY <1>1, <2>4, <2>6 DEF PeersKeepType
<1> QED
  BY <1>1, <1>2, <1>3

(* A new connection comes after all others. *)
LEMMA ConnectFacts ==
    ASSUME TypeOK, Connect
    PROVE  /\ peers' \in Seq(Peers) /\ Len(peers') = Len(peers) + 1
           /\ socket' = Len(peers')
           /\ ~peers'[socket'].asked /\ peers'[socket'].reply = <<>>
           /\ \A i \in 1 .. Len(peers) : peers'[i] = peers[i]
<1> DEFINE peer == [queue |-> "waiting", asked |-> FALSE, reply |-> <<>>,
                    hungup |-> FALSE, shut |-> FALSE]
<1>1. peers' = Append(peers, peer) /\ socket' = Len(peers')
  BY DEF Connect
<1>2. peer \in Peers
  BY DEF Peers
<1> HIDE DEF peer
<1>3. peers' \in Seq(Peers) /\ Len(peers') = Len(peers) + 1 /\ peers'[Len(peers')] = peer
  BY <1>1, <1>2 DEF TypeOK
<1> QED
  BY <1>1, <1>3 DEF TypeOK, peer

(* The oldest connection that waits is accepted. *)
LEMMA AcceptFacts ==
    ASSUME TypeOK, Accept
    PROVE  /\ serving' \in 1 .. Len(peers) /\ PeersKeepType /\ Others(serving')
           /\ peers'[serving'].asked = peers[serving'].asked
           /\ peers'[serving'].reply = peers[serving'].reply
           /\ peers'[serving'].shut = peers[serving'].shut
<1>1. Waiting \in SUBSET Nat /\ Waiting \subseteq 1 .. Len(peers)
  BY DEF TypeOK, Waiting
<1>2. serving' \in 1 .. Len(peers)
  BY <1>1, LeastOf DEF Accept
<1> DEFINE p == peers[serving']
           after == [p EXCEPT !.queue = "accepted"]
<1>3. p \in Peers
  BY <1>2 DEF TypeOK
<1>4. after \in Peers /\ after.asked = p.asked /\ after.reply = p.reply /\ after.shut = p.shut
  BY <1>3, Queued
<1>5. peers' = [peers EXCEPT ![serving'] = after]
  BY DEF Accept
<1> HIDE DEF after
<1> QED
  BY <1>2, <1>4, <1>5, OneChanges DEF PeersKeepType, Others

(* stop() shuts down the connection that is being served. *)
LEMMA StopConnectionFacts ==
    ASSUME TypeOK, StopConnection
    PROVE  /\ PeersKeepType /\ Others(connection)
           /\ connection # 0 =>
                  /\ peers'[connection].asked = peers[connection].asked
                  /\ peers'[connection].reply = peers[connection].reply
                  /\ peers'[connection].shut
<1>1. CASE connection = 0
  BY <1>1 DEF StopConnection, TypeOK, PeersKeepType, Others
<1>2. CASE connection # 0
  <2> DEFINE p == peers[connection]
             after == [p EXCEPT !.shut = TRUE]
  <2>1. connection \in 1 .. Len(peers) /\ p \in Peers
    BY <1>2 DEF TypeOK
  <2>2. after \in Peers /\ after.asked = p.asked /\ after.reply = p.reply /\ after.shut
    BY <2>1, ShutDown
  <2>3. peers' = [peers EXCEPT ![connection] = after]
    BY <1>2 DEF StopConnection
  <2> HIDE DEF after
  <2> QED
    BY <2>1, <2>2, <2>3, OneChanges DEF PeersKeepType, Others
<1> QED
  BY <1>1, <1>2

(* recv takes the request off the line. *)
LEMMA ReceiveRequestFacts ==
    ASSUME TypeOK, ConnectionInv, ReceiveRequest
    PROVE  /\ serving \in 1 .. Len(peers) /\ PeersKeepType /\ Others(serving)
           /\ ~peers'[serving].asked
           /\ peers'[serving].reply = peers[serving].reply
           /\ peers'[serving].shut = peers[serving].shut
<1> DEFINE p == peers[serving]
           after == [p EXCEPT !.asked = FALSE]
<1>1. serving \in 1 .. Len(peers)
  BY DEF TypeOK, ConnectionInv, ReceiveRequest
<1>2. p \in Peers
  BY <1>1 DEF TypeOK
<1>3. after \in Peers /\ ~after.asked /\ after.reply = p.reply /\ after.shut = p.shut
  BY <1>2, Asked
<1>4. peers' = [peers EXCEPT ![serving] = after]
  BY DEF ReceiveRequest
<1> HIDE DEF after
<1> QED
  BY <1>1, <1>3, <1>4, OneChanges DEF PeersKeepType, Others

(* send puts the answer on the line. *)
LEMMA SendReplyFacts ==
    ASSUME TypeOK, ConnectionInv, SendReply
    PROVE  /\ serving \in 1 .. Len(peers) /\ PeersKeepType /\ Others(serving)
           /\ peers'[serving].asked = peers[serving].asked
           /\ peers'[serving].reply = Append(peers[serving].reply, reply)
           /\ peers'[serving].shut = peers[serving].shut
<1> DEFINE p == peers[serving]
           after == [p EXCEPT !.reply = Append(p.reply, reply)]
<1>1. serving \in 1 .. Len(peers)
  BY DEF TypeOK, ConnectionInv, SendReply
<1>2. p \in Peers /\ Append(p.reply, reply) \in Seq(Replies)
  <2>1. p \in Peers
    BY <1>1 DEF TypeOK
  <2>2. p.reply \in Seq(Replies) /\ reply \in Replies
    BY <2>1, PeerParts DEF TypeOK
  <2> QED
    BY <2>1, <2>2
<1>3. /\ after \in Peers /\ after.asked = p.asked /\ after.shut = p.shut
      /\ after.reply = Append(p.reply, reply)
  BY <1>2, Replied
<1>4. peers' = [peers EXCEPT ![serving] = after]
  BY DEF SendReply
<1> HIDE DEF after
<1> QED
  BY <1>1, <1>3, <1>4, OneChanges DEF PeersKeepType, Others

(* close drops a request that was not received. *)
LEMMA CloseFacts ==
    ASSUME TypeOK, ConnectionInv, CloseConnection
    PROVE  /\ serving \in 1 .. Len(peers) /\ PeersKeepType /\ Others(serving)
           /\ ~peers'[serving].asked
           /\ peers'[serving].reply = peers[serving].reply
           /\ peers'[serving].shut = peers[serving].shut
<1> DEFINE p == peers[serving]
           closed == [p EXCEPT !.queue = "closed"]
           after == [closed EXCEPT !.asked = FALSE]
<1>1. serving \in 1 .. Len(peers)
  BY DEF TypeOK, ConnectionInv, CloseConnection
<1>2. p \in Peers
  BY <1>1 DEF TypeOK
<1>3. closed \in Peers /\ closed.reply = p.reply /\ closed.shut = p.shut
  BY <1>2, Queued
<1>4. peers' = [peers EXCEPT ![serving] = after]
  BY DEF CloseConnection
<1>5. after \in Peers /\ ~after.asked /\ after.reply = p.reply /\ after.shut = p.shut
  <2> HIDE DEF closed
  <2> QED
    BY <1>3, Asked
<1> HIDE DEF after
<1> QED
  BY <1>1, <1>4, <1>5, OneChanges DEF PeersKeepType, Others

(* sendall puts the request on the line. *)
LEMMA SendRequestFacts ==
    ASSUME TypeOK, CaptureInv, SendRequest
    PROVE  /\ socket \in 1 .. Len(peers) /\ PeersKeepType /\ Others(socket)
           /\ peers'[socket].asked
           /\ peers'[socket].reply = peers[socket].reply
           /\ peers'[socket].shut = peers[socket].shut
<1> DEFINE p == peers[socket]
           after == [p EXCEPT !.asked = TRUE]
<1>1. socket \in 1 .. Len(peers)
  BY DEF TypeOK, CaptureInv, SendRequest
<1>2. p \in Peers
  BY <1>1 DEF TypeOK
<1>3. after \in Peers /\ after.asked /\ after.reply = p.reply /\ after.shut = p.shut
  BY <1>2, Asked
<1>4. peers' = [peers EXCEPT ![socket] = after]
  BY DEF SendRequest
<1> HIDE DEF after
<1> QED
  BY <1>1, <1>3, <1>4, OneChanges DEF PeersKeepType, Others

(* recv takes the first answer off the line. *)
LEMMA ReceiveReplyFacts ==
    ASSUME TypeOK, CaptureInv, ReceiveReply
    PROVE  /\ socket \in 1 .. Len(peers) /\ PeersKeepType /\ Others(socket)
           /\ peers[socket].reply \in Seq(Replies) /\ peers[socket].reply # <<>>
           /\ answer' = peers[socket].reply[1] /\ answer' \in Replies
           /\ peers'[socket].asked = peers[socket].asked
           /\ peers'[socket].reply = Tail(peers[socket].reply)
           /\ peers'[socket].shut = peers[socket].shut
<1> DEFINE p == peers[socket]
           after == [p EXCEPT !.reply = Tail(p.reply)]
<1>1. socket \in 1 .. Len(peers)
  BY DEF TypeOK, CaptureInv, ReceiveReply
<1>2. p \in Peers
  BY <1>1 DEF TypeOK
<1>3. p.reply \in Seq(Replies) /\ p.reply # <<>>
  BY <1>2, PeerParts DEF ReceiveReply
<1>4. Tail(p.reply) \in Seq(Replies) /\ Head(p.reply) = p.reply[1] /\ Head(p.reply) \in Replies
  BY <1>3, HeadTailProperties
<1>5. /\ after \in Peers /\ after.asked = p.asked /\ after.shut = p.shut
      /\ after.reply = Tail(p.reply)
  BY <1>2, <1>4, Replied
<1>6. peers' = [peers EXCEPT ![socket] = after] /\ answer' = Head(p.reply)
  BY DEF ReceiveReply
<1> HIDE DEF after
<1> QED
  BY <1>1, <1>3, <1>4, <1>5, <1>6, OneChanges DEF PeersKeepType, Others

(* Every step keeps the types. *)
LEMMA TypeStep ==
    ASSUME IInv, [Next]_vars
    PROVE  TypeOK'
<1> USE DEF vars, outside, world, camera, stopping, thread, policy
<1>1. CASE Tick
  <2>1. PICK arrived \in SUBSET Delivering : \E stamps \in [arrived -> now' - MaxDelay .. now'] :
          OnMessages(arrived, stamps)
    BY <1>1 DEF Tick
  <2>2. PICK stamps \in [arrived -> now' - MaxDelay .. now'] : OnMessages(arrived, stamps)
    BY <2>1
  <2>3. now' = now + 1 /\ now' \in Nat
    BY <1>1 DEF Tick, IInv, TypeOK
  <2> DEFINE S == {stamp \in Int : stamp <= now'}
  <2>4. ASSUME NEW stream \in Streams PROVE buffers[stream] \in Seq(S)
    <3>1. buffers[stream] \in Seq({stamp \in Int : stamp <= now})
      BY DEF IInv, TypeOK
    <3>2. {stamp \in Int : stamp <= now} \subseteq S
      BY <2>3 DEF IInv, TypeOK
    <3> QED
      BY <3>1, <3>2
  <2>5. ASSUME NEW stream \in Streams, stream \in arrived
        PROVE  Pushed(buffers[stream], stamps[stream], Limit(stream)) \in Seq(S)
    <3>1. stamps[stream] \in S
      BY <2>2, <2>3, <2>5, SnapshotAssumption
    <3>2. Limit(stream) \in Nat
      BY SnapshotAssumption DEF Limit
    <3> QED
      BY <2>4, <3>1, <3>2, PushedType
  <2>6. buffers' \in [Streams -> Seq(S)]
    BY <2>2, <2>4, <2>5 DEF OnMessages
  <2>7. UNCHANGED <<camera, stopping, thread, peers, policy>>
    BY <1>1 DEF Tick
  <2> QED
    BY <2>3, <2>6, <2>7 DEF IInv, TypeOK
<1>2. CASE Signal
  BY <1>2 DEF Signal, IInv, TypeOK, ConnectionInv, CaptureInv
<1>3. ASSUME NEW camera_ \in Cameras, WorkerFails(camera_) PROVE TypeOK'
  BY <1>3 DEF WorkerFails, Shutdown, IInv, TypeOK, ConnectionInv, CaptureInv
<1>4. ASSUME NEW camera_ \in Cameras, WorkerEnds(camera_) PROVE TypeOK'
  BY <1>4 DEF WorkerEnds, IInv, TypeOK, ConnectionInv, CaptureInv
<1>5. CASE Start
  BY <1>5 DEF Start, StartServer, IInv, TypeOK, ConnectionInv, CaptureInv
<1>6. CASE StartFails
  BY <1>6 DEF StartFails, IInv, TypeOK, ConnectionInv, CaptureInv
<1>7. CASE SpinReturns
  BY <1>7 DEF SpinReturns, IInv, TypeOK, ConnectionInv, CaptureInv
<1>8. CASE StopServer
  BY <1>8 DEF StopServer, IInv, TypeOK, ConnectionInv, CaptureInv
<1>9. CASE StopConnection
  BY <1>9, StopConnectionFacts
     DEF StopConnection, PeersKeepType, IInv, TypeOK, ConnectionInv, CaptureInv
<1>10. CASE StopListener
  BY <1>10 DEF StopListener, IInv, TypeOK, ConnectionInv, CaptureInv
<1>11. CASE JoinServer
  BY <1>11 DEF JoinServer, IInv, TypeOK, ConnectionInv, CaptureInv
<1>12. CASE StopWorkers
  BY <1>12 DEF StopWorkers, IInv, TypeOK, ConnectionInv, CaptureInv
<1>13. CASE JoinWorkers
  BY <1>13 DEF JoinWorkers, IInv, TypeOK, ConnectionInv, CaptureInv
<1>14. CASE Loop
  BY <1>14 DEF Loop, IInv, TypeOK, ConnectionInv, CaptureInv
<1>15. CASE Accept
  BY <1>15, AcceptFacts DEF Accept, PeersKeepType, IInv, TypeOK, ConnectionInv, CaptureInv
<1>16. CASE AcceptFails
  BY <1>16 DEF AcceptFails, IInv, TypeOK, ConnectionInv, CaptureInv
<1>17. CASE Assign
  BY <1>17 DEF Assign, IInv, TypeOK, ConnectionInv, CaptureInv
<1>18. CASE Serve
  BY <1>18 DEF Serve, IInv, TypeOK, ConnectionInv, CaptureInv
<1>19. CASE ReceiveRequest
  BY <1>19, ReceiveRequestFacts
     DEF ReceiveRequest, PeersKeepType, IInv, TypeOK, ConnectionInv, CaptureInv
<1>20. CASE ReceiveEnds
  BY <1>20 DEF ReceiveEnds, IInv, TypeOK, ConnectionInv, CaptureInv
<1>21. CASE CaptureSnapshot
  BY <1>21, SelectedFacts, SlotFacts
     DEF CaptureSnapshot, Replies, IInv, TypeOK, ConnectionInv, CaptureInv
<1>22. CASE CaptureRefused
  BY <1>22 DEF CaptureRefused, Nothing, Replies, IInv, TypeOK, ConnectionInv, CaptureInv
<1>23. CASE CaptureThrows
  BY <1>23 DEF CaptureThrows, Shutdown, IInv, TypeOK, ConnectionInv, CaptureInv
<1>24. CASE SendReply
  BY <1>24, SendReplyFacts
     DEF SendReply, Nothing, Replies, PeersKeepType, IInv, TypeOK, ConnectionInv,
         CaptureInv
<1>25. CASE SendFails
  BY <1>25 DEF SendFails, Nothing, Replies, IInv, TypeOK, ConnectionInv, CaptureInv
<1>26. CASE CloseConnection
  BY <1>26, CloseFacts
     DEF CloseConnection, PeersKeepType, IInv, TypeOK, ConnectionInv, CaptureInv
<1>27. CASE BeginCapture
  BY <1>27, SnapshotAssumption DEF BeginCapture, IInv, TypeOK, ConnectionInv, CaptureInv
<1>28. CASE Connect
  BY <1>28, ConnectFacts DEF Connect, IInv, TypeOK, ConnectionInv, CaptureInv
<1>29. CASE SendRequest
  BY <1>29, SendRequestFacts
     DEF SendRequest, PeersKeepType, IInv, TypeOK, ConnectionInv, CaptureInv
<1>30. CASE ReceiveReply
  BY <1>30, ReceiveReplyFacts
     DEF ReceiveReply, PeersKeepType, IInv, TypeOK, ConnectionInv, CaptureInv
<1>31. CASE CaptureFails
  BY <1>31, HangUpFacts DEF CaptureFails, PeersKeepType, IInv, TypeOK, ConnectionInv, CaptureInv
<1>32. CASE ReadArena
  <2> DEFINE slot == (answer.generation \div 2) % 2
  <2>1. slot \in 0 .. 1
    <3>1. answer.generation \in Nat
      BY DEF IInv, TypeOK, Replies
    <3> QED
      BY <3>1, SlotFacts
  <2>2. arena[slot].cutoff \in Int
    <3> HIDE DEF slot
    <3>1. arena[slot] \in [generation : Nat, cutoff : Int]
      BY <2>1 DEF IInv, TypeOK
    <3> QED
      BY <3>1
  <2>3. observation' \in {[cutoff |-> arena[slot].cutoff], Unavailable}
    BY <1>32 DEF ReadArena
  <2> HIDE DEF slot
  <2>4. observation' \in [cutoff : Int]
    BY <2>2, <2>3 DEF Unavailable
  <2>5. client' = "return" /\ UNCHANGED <<outside, peers, socket, deadline, answer>>
    BY <1>32 DEF ReadArena
  <2> QED
    BY <2>4, <2>5 DEF IInv, TypeOK
<1>33. CASE ReturnFromCapture
  BY <1>33
     DEF ReturnFromCapture, Unavailable, Nothing, Replies, IInv, TypeOK, ConnectionInv,
         CaptureInv
<1>34. CASE CloseClient
  BY <1>34, HangUpFacts DEF CloseClient, PeersKeepType, IInv, TypeOK, ConnectionInv, CaptureInv
<1>35. CASE UNCHANGED vars
  BY <1>35 DEF vars, IInv, TypeOK, ConnectionInv, CaptureInv
<1> QED
  BY <1>1, <1>2, <1>3, <1>4, <1>5, <1>6, <1>7, <1>8, <1>9, <1>10, <1>11, <1>12, <1>13,
      <1>14, <1>15, <1>16, <1>17, <1>18, <1>19, <1>20, <1>21, <1>22, <1>23, <1>24,
      <1>25, <1>26, <1>27, <1>28, <1>29, <1>30, <1>31, <1>32, <1>33, <1>34, <1>35
     DEF Next, Worker, MainThread, ServerThread, Client

(* What is served is what stop() would shut down. *)
LEMMA ConnectionStep ==
    ASSUME IInv, [Next]_vars
    PROVE  ConnectionInv'
<1> USE DEF vars, outside, world, camera, stopping, thread, policy
<1>1. CASE Tick
  BY <1>1 DEF Tick, IInv, ConnectionInv
<1>2. CASE Signal
  BY <1>2 DEF Signal, IInv, ConnectionInv
<1>3. ASSUME NEW camera_ \in Cameras, WorkerFails(camera_) PROVE ConnectionInv'
  BY <1>3 DEF WorkerFails, Shutdown, IInv, ConnectionInv
<1>4. ASSUME NEW camera_ \in Cameras, WorkerEnds(camera_) PROVE ConnectionInv'
  BY <1>4 DEF WorkerEnds, IInv, ConnectionInv
<1>5. CASE Start
  BY <1>5 DEF Start, StartServer, StopInv, IInv, ConnectionInv
<1>6. CASE StartFails
  BY <1>6 DEF StartFails, IInv, ConnectionInv
<1>7. CASE SpinReturns
  BY <1>7 DEF SpinReturns, IInv, ConnectionInv
<1>8. CASE StopServer
  BY <1>8 DEF StopServer, IInv, ConnectionInv
<1>9. CASE StopConnection
  BY <1>9 DEF StopConnection, IInv, ConnectionInv
<1>10. CASE StopListener
  BY <1>10 DEF StopListener, IInv, ConnectionInv
<1>11. CASE JoinServer
  BY <1>11 DEF JoinServer, IInv, ConnectionInv
<1>12. CASE StopWorkers
  BY <1>12 DEF StopWorkers, IInv, ConnectionInv
<1>13. CASE JoinWorkers
  BY <1>13 DEF JoinWorkers, IInv, ConnectionInv
<1>14. CASE Loop
  BY <1>14 DEF Loop, IInv, ConnectionInv
<1>15. CASE Accept
  BY <1>15, AcceptFacts DEF Accept, IInv, ConnectionInv
<1>16. CASE AcceptFails
  BY <1>16 DEF AcceptFails, IInv, ConnectionInv
<1>17. CASE Assign
  BY <1>17 DEF Assign, IInv, ConnectionInv
<1>18. CASE Serve
  BY <1>18 DEF Serve, IInv, ConnectionInv
<1>19. CASE ReceiveRequest
  BY <1>19 DEF ReceiveRequest, IInv, ConnectionInv
<1>20. CASE ReceiveEnds
  BY <1>20 DEF ReceiveEnds, IInv, ConnectionInv
<1>21. CASE CaptureSnapshot
  BY <1>21 DEF CaptureSnapshot, IInv, ConnectionInv
<1>22. CASE CaptureRefused
  BY <1>22 DEF CaptureRefused, IInv, ConnectionInv
<1>23. CASE CaptureThrows
  BY <1>23 DEF CaptureThrows, Shutdown, IInv, ConnectionInv
<1>24. CASE SendReply
  BY <1>24 DEF SendReply, IInv, ConnectionInv
<1>25. CASE SendFails
  BY <1>25 DEF SendFails, IInv, ConnectionInv
<1>26. CASE CloseConnection
  BY <1>26 DEF CloseConnection, IInv, ConnectionInv
<1>27. CASE BeginCapture
  BY <1>27 DEF BeginCapture, IInv, ConnectionInv
<1>28. CASE Connect
  BY <1>28 DEF Connect, IInv, ConnectionInv
<1>29. CASE SendRequest
  BY <1>29 DEF SendRequest, IInv, ConnectionInv
<1>30. CASE ReceiveReply
  BY <1>30 DEF ReceiveReply, IInv, ConnectionInv
<1>31. CASE CaptureFails
  BY <1>31 DEF CaptureFails, IInv, ConnectionInv
<1>32. CASE ReadArena
  BY <1>32 DEF ReadArena, IInv, ConnectionInv
<1>33. CASE ReturnFromCapture
  BY <1>33 DEF ReturnFromCapture, IInv, ConnectionInv
<1>34. CASE CloseClient
  BY <1>34 DEF CloseClient, IInv, ConnectionInv
<1>35. CASE UNCHANGED vars
  BY <1>35 DEF vars, IInv, ConnectionInv
<1> QED
  BY <1>1, <1>2, <1>3, <1>4, <1>5, <1>6, <1>7, <1>8, <1>9, <1>10, <1>11, <1>12, <1>13,
      <1>14, <1>15, <1>16, <1>17, <1>18, <1>19, <1>20, <1>21, <1>22, <1>23, <1>24,
      <1>25, <1>26, <1>27, <1>28, <1>29, <1>30, <1>31, <1>32, <1>33, <1>34, <1>35
     DEF Next, Worker, MainThread, ServerThread, Client

(* Once stop() is in the join, no call of the server blocks. *)
LEMMA StopStep ==
    ASSUME IInv, [Next]_vars
    PROVE  StopInv'
<1> USE DEF vars, outside, world, camera, stopping, thread, policy
<1>1. CASE Tick
  BY <1>1 DEF Tick, IInv, StopInv
<1>2. CASE Signal
  BY <1>2 DEF Signal, IInv, StopInv
<1>3. ASSUME NEW camera_ \in Cameras, WorkerFails(camera_) PROVE StopInv'
  BY <1>3 DEF WorkerFails, Shutdown, IInv, StopInv
<1>4. ASSUME NEW camera_ \in Cameras, WorkerEnds(camera_) PROVE StopInv'
  BY <1>4 DEF WorkerEnds, IInv, StopInv
<1>5. CASE Start
  BY <1>5 DEF Start, StartServer, IInv, StopInv
<1>6. CASE StartFails
  BY <1>6 DEF StartFails, IInv, StopInv
<1>7. CASE SpinReturns
  BY <1>7 DEF SpinReturns, IInv, StopInv
<1>8. CASE StopServer
  BY <1>8 DEF StopServer, IInv, StopInv
<1>9. CASE StopConnection
  BY <1>9, StopConnectionFacts DEF StopConnection, Others, ConnectionInv, IInv, StopInv
<1>10. CASE StopListener
  BY <1>10 DEF StopListener, IInv, StopInv
<1>11. CASE JoinServer
  BY <1>11 DEF JoinServer, IInv, StopInv
<1>12. CASE StopWorkers
  BY <1>12 DEF StopWorkers, IInv, StopInv
<1>13. CASE JoinWorkers
  BY <1>13 DEF JoinWorkers, IInv, StopInv
<1>14. CASE Loop
  BY <1>14 DEF Loop, IInv, StopInv
<1>15. CASE Accept
  BY <1>15, AcceptFacts DEF Accept, IInv, StopInv
<1>16. CASE AcceptFails
  BY <1>16 DEF AcceptFails, IInv, StopInv
<1>17. CASE Assign
  BY <1>17 DEF Assign, IInv, StopInv
<1>18. CASE Serve
  BY <1>18 DEF Serve, IInv, StopInv
<1>19. CASE ReceiveRequest
  BY <1>19, ReceiveRequestFacts DEF ReceiveRequest, IInv, StopInv
<1>20. CASE ReceiveEnds
  BY <1>20 DEF ReceiveEnds, IInv, StopInv
<1>21. CASE CaptureSnapshot
  BY <1>21 DEF CaptureSnapshot, IInv, StopInv
<1>22. CASE CaptureRefused
  BY <1>22 DEF CaptureRefused, IInv, StopInv
<1>23. CASE CaptureThrows
  BY <1>23 DEF CaptureThrows, Shutdown, IInv, StopInv
<1>24. CASE SendReply
  BY <1>24, SendReplyFacts DEF SendReply, IInv, StopInv
<1>25. CASE SendFails
  BY <1>25 DEF SendFails, IInv, StopInv
<1>26. CASE CloseConnection
  BY <1>26, CloseFacts DEF CloseConnection, IInv, StopInv
<1>27. CASE BeginCapture
  BY <1>27 DEF BeginCapture, IInv, StopInv
<1>28. CASE Connect
  <2>1. UNCHANGED <<main, server, running, listening, serving>>
    BY <1>28 DEF Connect
  <2>2. peers'[serving].shut = peers[serving].shut \/ serving = 0
    BY <1>28, ConnectFacts DEF IInv, TypeOK
  <2> QED
    BY <2>1, <2>2 DEF IInv, StopInv, ConnectionInv
<1>29. CASE SendRequest
  BY <1>29, SendRequestFacts DEF SendRequest, Others, IInv, StopInv
<1>30. CASE ReceiveReply
  BY <1>30, ReceiveReplyFacts DEF ReceiveReply, Others, IInv, StopInv
<1>31. CASE CaptureFails
  <2>1. UNCHANGED <<main, server, running, listening, serving>>
    BY <1>31 DEF CaptureFails
  <2>2. peers'[serving].shut = peers[serving].shut \/ serving = 0
    BY <1>31, HangUpFacts DEF CaptureFails, IInv, TypeOK
  <2> QED
    BY <2>1, <2>2 DEF IInv, StopInv, ConnectionInv
<1>32. CASE ReadArena
  BY <1>32 DEF ReadArena, IInv, StopInv
<1>33. CASE ReturnFromCapture
  BY <1>33 DEF ReturnFromCapture, IInv, StopInv
<1>34. CASE CloseClient
  <2>1. UNCHANGED <<main, server, running, listening, serving>>
    BY <1>34 DEF CloseClient
  <2>2. peers'[serving].shut = peers[serving].shut \/ serving = 0
    BY <1>34, HangUpFacts DEF CloseClient, IInv, TypeOK
  <2> QED
    BY <2>1, <2>2 DEF IInv, StopInv, ConnectionInv
<1>35. CASE UNCHANGED vars
  BY <1>35 DEF vars, IInv, StopInv
<1> QED
  BY <1>1, <1>2, <1>3, <1>4, <1>5, <1>6, <1>7, <1>8, <1>9, <1>10, <1>11, <1>12, <1>13,
      <1>14, <1>15, <1>16, <1>17, <1>18, <1>19, <1>20, <1>21, <1>22, <1>23, <1>24,
      <1>25, <1>26, <1>27, <1>28, <1>29, <1>30, <1>31, <1>32, <1>33, <1>34, <1>35
     DEF Next, Worker, MainThread, ServerThread, Client

-----------------------------------------------------------------------------
(* Requests and answers. *)

(* Fresh of an answer that stays, in the state after a step. *)
FreshNext(given) ==
    given.ok =>
        /\ given.generation <= 2 * sequence_'
        /\ arena'[(given.generation \div 2) % 2].generation = given.generation
               => arena'[(given.generation \div 2) % 2].cutoff >= deadline' - Timeout - MaxAge

(* A commit replaces a slot under a generation that nobody was answered, so *)
(* every answer that was fresh still is.                                    *)
LEMMA CommitKeepsFresh ==
    ASSUME TypeOK, CaptureSnapshot, NEW given \in Replies, Fresh(given)
    PROVE  FreshNext(given)
<1> SUFFICES ASSUME given.ok PROVE FreshNext(given)
  BY DEF FreshNext
<1> DEFINE g == given.generation
           slot == (g \div 2) % 2
<1>1. /\ sequence_ \in Nat /\ sequence_' = sequence_ + 1 /\ deadline' = deadline
      /\ g \in Nat /\ g <= 2 * sequence_
      /\ arena[slot].generation = g => arena[slot].cutoff >= deadline - Timeout - MaxAge
  BY DEF TypeOK, CaptureSnapshot, policy, Replies, Fresh
<1>2. slot \in 0 .. 1 /\ arena \in [0 .. 1 -> [generation : Nat, cutoff : Int]]
  BY <1>1 DEF TypeOK
<1>3. arena' = [arena EXCEPT ![sequence_' % 2] =
                   [generation |-> 2 * sequence_', cutoff |-> Max(Group(Max(Selected)))]]
  BY DEF CaptureSnapshot
<1> HIDE DEF slot
<1>4. CASE slot = sequence_' % 2
  <2>1. arena'[slot].generation = 2 * sequence_'
    BY <1>2, <1>3, <1>4
  <2> QED
    BY <1>1, <2>1 DEF FreshNext, slot
<1>5. CASE slot # sequence_' % 2
  <2>1. arena'[slot] = arena[slot]
    BY <1>2, <1>3, <1>5
  <2> QED
    BY <1>1, <2>1 DEF FreshNext, slot
<1> QED
  BY <1>4, <1>5

(* What a capture commits is fresh: it chose the group after the client     *)
(* asked, so no earlier than the deadline less the time allowed.            *)
LEMMA CommitIsFresh ==
    ASSUME TypeOK, CaptureSnapshot, deadline <= now + Timeout
    PROVE  FreshNext(reply')
<1> DEFINE cutoff_ == Max(Group(Max(Selected)))
<1>1. cutoff_ \in Int /\ now - cutoff_ \in 0 .. MaxAge
  BY SelectedFacts DEF CaptureSnapshot
<1> HIDE DEF cutoff_
<1>2. /\ sequence_ \in Nat /\ sequence_' = sequence_ + 1 /\ sequence_' \in Nat
      /\ deadline' = deadline /\ deadline \in Nat /\ now \in Nat
      /\ arena \in [0 .. 1 -> [generation : Nat, cutoff : Int]]
  BY DEF TypeOK, CaptureSnapshot, policy
<1>3. arena' = [arena EXCEPT ![sequence_' % 2] =
                   [generation |-> 2 * sequence_', cutoff |-> cutoff_]]
  BY DEF CaptureSnapshot, cutoff_
<1>4. sequence_' % 2 \in 0 .. 1 /\ (2 * sequence_') \div 2 = sequence_'
  BY <1>2, SlotFacts
<1>5. arena'[sequence_' % 2].cutoff = cutoff_
  BY <1>2, <1>3, <1>4
<1>6. reply' = [ok |-> TRUE, generation |-> 2 * sequence_']
  BY DEF CaptureSnapshot
<1>7. cutoff_ >= deadline' - Timeout - MaxAge
  BY <1>1, <1>2, SnapshotAssumption
<1> QED
  BY <1>2, <1>4, <1>5, <1>6, <1>7 DEF FreshNext

(* Nothing of a capture is on the line. *)
LEMMA NothingAsked ==
    ASSUME socket' # 0 => ~peers'[socket'].asked /\ peers'[socket'].reply = <<>> /\ ~Handling'
    PROVE  RequestInv'
  BY DEF RequestInv, Handling

(* The connection of a capture is left as it is. *)
LEMMA RequestKept ==
    ASSUME RequestInv, UNCHANGED <<socket, client, arena, sequence_, deadline>>,
           socket # 0 => /\ peers'[socket].asked => peers[socket].asked
                         /\ peers'[socket].reply = peers[socket].reply
                         /\ Handling' => Handling
                         /\ Handling' /\ server' = "send" => server = "send" /\ reply' = reply
    PROVE  RequestInv'
<1> SUFFICES ASSUME socket # 0 PROVE RequestInv'
  BY DEF RequestInv
<1>1. \A i \in DOMAIN peers'[socket].reply : i = 1 /\ Fresh(peers[socket].reply[i])'
  BY DEF RequestInv, Fresh
<1>2. Handling' /\ server' = "send" => Fresh(reply)'
  BY DEF RequestInv, Fresh
<1> QED
  BY <1>1, <1>2 DEF RequestInv

(* An answer is on the line only for a capture that waits for it. *)
LEMMA RequestStep ==
    ASSUME IInv, [Next]_vars
    PROVE  RequestInv'
<1> USE DEF vars, outside, world, camera, stopping, thread, policy
<1>1. CASE Tick
  BY <1>1 DEF Tick, IInv, TypeOK, RequestInv, Handling, Fresh
<1>2. CASE Signal
  BY <1>2 DEF Signal, IInv, TypeOK, RequestInv, Handling, Fresh
<1>3. ASSUME NEW camera_ \in Cameras, WorkerFails(camera_) PROVE RequestInv'
  BY <1>3 DEF WorkerFails, Shutdown, IInv, TypeOK, RequestInv, Handling, Fresh
<1>4. ASSUME NEW camera_ \in Cameras, WorkerEnds(camera_) PROVE RequestInv'
  BY <1>4 DEF WorkerEnds, IInv, TypeOK, RequestInv, Handling, Fresh
<1>5. CASE Start
  BY <1>5 DEF Start, StartServer, StopInv, IInv, TypeOK, RequestInv, Handling, Fresh
<1>6. CASE StartFails
  BY <1>6 DEF StartFails, IInv, TypeOK, RequestInv, Handling, Fresh
<1>7. CASE SpinReturns
  BY <1>7 DEF SpinReturns, IInv, TypeOK, RequestInv, Handling, Fresh
<1>8. CASE StopServer
  BY <1>8 DEF StopServer, IInv, TypeOK, RequestInv, Handling, Fresh
<1>9. CASE StopConnection
  <2>1. UNCHANGED <<socket, client, arena, sequence_, deadline, reply, server, serving>>
    BY <1>9 DEF StopConnection
  <2>2. socket # 0 => /\ peers'[socket].asked = peers[socket].asked
                      /\ peers'[socket].reply = peers[socket].reply
    BY <1>9, StopConnectionFacts DEF IInv, TypeOK, Others
  <2> QED
    BY <2>1, <2>2, RequestKept DEF IInv, Handling
<1>10. CASE StopListener
  BY <1>10 DEF StopListener, IInv, TypeOK, RequestInv, Handling, Fresh
<1>11. CASE JoinServer
  BY <1>11 DEF JoinServer, IInv, TypeOK, RequestInv, Handling, Fresh
<1>12. CASE StopWorkers
  BY <1>12 DEF StopWorkers, IInv, TypeOK, RequestInv, Handling, Fresh
<1>13. CASE JoinWorkers
  BY <1>13 DEF JoinWorkers, IInv, TypeOK, RequestInv, Handling, Fresh
<1>14. CASE Loop
  BY <1>14 DEF Loop, IInv, TypeOK, RequestInv, Handling, Fresh
<1>15. CASE Accept
  <2>1. /\ UNCHANGED <<socket, client, arena, sequence_, deadline>>
        /\ server' = "assign"
    BY <1>15 DEF Accept
  <2>2. socket # 0 => /\ peers'[socket].asked => peers[socket].asked
                      /\ peers'[socket].reply = peers[socket].reply
    <3> SUFFICES ASSUME socket # 0
                 PROVE  /\ peers'[socket].asked => peers[socket].asked
                        /\ peers'[socket].reply = peers[socket].reply
      OBVIOUS
    <3>1. CASE socket = serving'
      BY <1>15, <3>1, AcceptFacts DEF IInv
    <3>2. CASE socket # serving'
      <4>1. peers'[socket] = peers[socket]
        BY <1>15, <3>2, AcceptFacts DEF IInv, TypeOK, Others
      <4> QED
        BY <4>1
    <3> QED
      BY <3>1, <3>2
  <2> QED
    BY <2>1, <2>2, RequestKept DEF IInv, Handling
<1>16. CASE AcceptFails
  BY <1>16 DEF AcceptFails, IInv, TypeOK, RequestInv, Handling, Fresh
<1>17. CASE Assign
  BY <1>17 DEF Assign, IInv, TypeOK, RequestInv, Handling, Fresh
<1>18. CASE Serve
  BY <1>18 DEF Serve, IInv, TypeOK, RequestInv, Handling, Fresh
<1>19. CASE ReceiveRequest
  <2>1. /\ UNCHANGED <<socket, client, arena, sequence_, deadline, reply, serving>>
        /\ server = "receive" /\ server' = "capture" /\ peers[serving].asked
    BY <1>19 DEF ReceiveRequest
  <2>2. CASE socket = 0
    BY <2>1, <2>2 DEF RequestInv
  <2>3. CASE socket # 0 /\ serving # socket
    <3>1. peers'[socket] = peers[socket]
      BY <1>19, <2>3, ReceiveRequestFacts DEF Others, IInv, TypeOK
    <3> QED
      BY <2>1, <2>3, <3>1, RequestKept DEF IInv, Handling
  <2>4. CASE socket # 0 /\ serving = socket
    <3>1. client = "receive" /\ peers[socket].reply = <<>>
      BY <2>1, <2>4 DEF IInv, RequestInv
    <3>2. ~peers'[socket].asked /\ peers'[socket].reply = <<>>
      BY <1>19, <2>4, <3>1, ReceiveRequestFacts DEF IInv
    <3> QED
      BY <2>1, <3>1, <3>2 DEF RequestInv
  <2> QED
    BY <2>2, <2>3, <2>4
<1>20. CASE ReceiveEnds
  BY <1>20 DEF ReceiveEnds, IInv, TypeOK, RequestInv, Handling, Fresh
<1>21. CASE CaptureSnapshot
  <2>1. /\ UNCHANGED <<client, socket, peers, serving, deadline>>
        /\ server = "capture" /\ server' = "send"
    BY <1>21 DEF CaptureSnapshot
  <2>2. SUFFICES ASSUME socket # 0 PROVE RequestInv'
    BY <2>1 DEF RequestInv
  <2>3. peers[socket].reply \in Seq(Replies)
    BY <2>2, PeerParts DEF IInv, TypeOK
  <2>4. \A i \in DOMAIN peers[socket].reply : i = 1 /\ FreshNext(peers[socket].reply[i])
    <3> SUFFICES ASSUME NEW i \in DOMAIN peers[socket].reply
                 PROVE  i = 1 /\ FreshNext(peers[socket].reply[i])
      OBVIOUS
    <3>1. i = 1 /\ Fresh(peers[socket].reply[i])
      BY <2>2 DEF IInv, RequestInv
    <3>2. peers[socket].reply[i] \in Replies
      BY <2>3
    <3> QED
      BY <1>21, <3>1, <3>2, CommitKeepsFresh DEF IInv
  <2>5. Handling => FreshNext(reply')
    BY <1>21, <2>1, <2>2, CommitIsFresh DEF IInv, RequestInv, CaptureInv, Handling
  <2>6. \A i \in DOMAIN peers'[socket].reply : i = 1 /\ Fresh(peers[socket].reply[i])'
    BY <2>1, <2>4 DEF Fresh, FreshNext
  <2>7. Handling' => Handling /\ Fresh(reply)'
    BY <2>1, <2>5 DEF Handling, Fresh, FreshNext
  <2> QED
    BY <2>1, <2>2, <2>6, <2>7 DEF IInv, RequestInv, Handling
<1>22. CASE CaptureRefused
  BY <1>22 DEF CaptureRefused, Nothing, IInv, TypeOK, RequestInv, Handling, Fresh
<1>23. CASE CaptureThrows
  BY <1>23 DEF CaptureThrows, Shutdown, IInv, TypeOK, RequestInv, Handling, Fresh
<1>24. CASE SendReply
  <2>1. /\ UNCHANGED <<client, socket, sequence_, arena, deadline>>
        /\ server = "send" /\ server' = "serve"
    BY <1>24 DEF SendReply
  <2>2. CASE socket = 0
    BY <2>1, <2>2 DEF RequestInv
  <2>3. CASE socket # 0 /\ serving # socket
    <3>1. peers'[socket] = peers[socket]
      BY <1>24, <2>3, SendReplyFacts DEF Others, IInv, TypeOK
    <3> QED
      BY <2>1, <2>3, <3>1 DEF IInv, RequestInv, Handling, Fresh
  <2>4. CASE socket # 0 /\ serving = socket
    <3>1. /\ Handling /\ peers[socket].reply = <<>> /\ client = "receive"
          /\ ~peers[socket].asked /\ Fresh(reply)
      BY <2>1, <2>4 DEF IInv, RequestInv, Handling
    <3>2. peers'[socket].reply = <<reply>> /\ ~peers'[socket].asked
      BY <1>24, <2>4, <3>1, SendReplyFacts DEF IInv
    <3>3. DOMAIN peers'[socket].reply = {1} /\ peers'[socket].reply[1] = reply
      BY <3>2
    <3>4. \A i \in DOMAIN peers'[socket].reply : i = 1 /\ Fresh(peers'[socket].reply[i])
      BY <3>1, <3>3
    <3> QED
      BY <2>1, <2>4, <3>1, <3>2, <3>4 DEF RequestInv, Handling, Fresh
  <2> QED
    BY <2>2, <2>3, <2>4
<1>25. CASE SendFails
  BY <1>25 DEF SendFails, Nothing, IInv, TypeOK, RequestInv, Handling, Fresh
<1>26. CASE CloseConnection
  <2>1. /\ UNCHANGED <<socket, client, arena, sequence_, deadline>>
        /\ server' = "loop"
    BY <1>26 DEF CloseConnection
  <2>2. socket # 0 => /\ peers'[socket].asked => peers[socket].asked
                      /\ peers'[socket].reply = peers[socket].reply
    <3> SUFFICES ASSUME socket # 0
                 PROVE  /\ peers'[socket].asked => peers[socket].asked
                        /\ peers'[socket].reply = peers[socket].reply
      OBVIOUS
    <3>1. CASE socket = serving
      BY <1>26, <3>1, CloseFacts DEF IInv
    <3>2. CASE socket # serving
      <4>1. peers'[socket] = peers[socket]
        BY <1>26, <3>2, CloseFacts DEF IInv, TypeOK, Others
      <4> QED
        BY <4>1
    <3> QED
      BY <3>1, <3>2
  <2> QED
    BY <2>1, <2>2, RequestKept DEF IInv, Handling
<1>27. CASE BeginCapture
  <2>1. UNCHANGED <<socket, peers, server, serving>> /\ client = "idle"
    BY <1>27 DEF BeginCapture
  <2> QED
    BY <2>1, NothingAsked DEF IInv, RequestInv, Handling
<1>28. CASE Connect
  <2>1. UNCHANGED <<server, serving>> /\ serving \in 0 .. Len(peers)
    BY <1>28 DEF Connect, IInv, TypeOK
  <2>2. socket' = Len(peers) + 1 /\ ~peers'[socket'].asked /\ peers'[socket'].reply = <<>>
    BY <1>28, ConnectFacts DEF IInv
  <2>3. Len(peers) \in Nat
    BY DEF IInv, TypeOK
  <2> QED
    BY <2>1, <2>2, <2>3, NothingAsked DEF Handling
<1>29. CASE SendRequest
  <2>1. UNCHANGED <<socket, server, serving>> /\ client = "send" /\ client' = "receive"
    BY <1>29 DEF SendRequest
  <2>2. socket # 0 /\ ~Handling /\ peers[socket].reply = <<>>
    BY <2>1 DEF IInv, CaptureInv, RequestInv
  <2>3. peers'[socket].reply = <<>>
    BY <1>29, <2>2, SendRequestFacts DEF IInv
  <2> QED
    BY <2>1, <2>2, <2>3 DEF RequestInv, Handling
<1>30. CASE ReceiveReply
  <2>1. UNCHANGED <<socket, server, serving>>
    BY <1>30 DEF ReceiveReply
  <2> DEFINE answers == peers[socket].reply
  <2>2. /\ socket # 0 /\ answers \in Seq(Replies) /\ answers # <<>>
        /\ peers'[socket].asked = peers[socket].asked /\ peers'[socket].reply = Tail(answers)
    BY <1>30, ReceiveReplyFacts DEF IInv
  <2>3. \A i \in DOMAIN answers : i = 1
    BY <2>2 DEF IInv, RequestInv
  <2>4. ~peers[socket].asked /\ ~Handling
    BY <2>2 DEF IInv, RequestInv
  <2>5. Tail(answers) = <<>>
    <3> HIDE DEF answers
    <3>1. Len(answers) \in Nat /\ DOMAIN answers = 1 .. Len(answers) /\ Len(answers) # 0
      BY <2>2, EmptySeq, LenProperties
    <3>2. Len(answers) = 1
      <4>1. CASE Len(answers) >= 2
        BY <2>3, <3>1, <4>1
      <4> QED
        BY <3>1, <4>1
    <3> QED
      BY <2>2, <3>2
  <2> QED
    BY <2>1, <2>2, <2>4, <2>5, NothingAsked DEF Handling
<1>31. CASE CaptureFails
  BY <1>31 DEF CaptureFails, HangUp, IInv, TypeOK, RequestInv, Handling, Fresh
<1>32. CASE ReadArena
  BY <1>32 DEF ReadArena, IInv, TypeOK, RequestInv, Handling, Fresh
<1>33. CASE ReturnFromCapture
  <2>1. UNCHANGED <<socket, peers, server, serving>> /\ client = "return"
    BY <1>33 DEF ReturnFromCapture
  <2> QED
    BY <2>1, NothingAsked DEF IInv, RequestInv, Handling
<1>34. CASE CloseClient
  BY <1>34 DEF CloseClient, HangUp, IInv, TypeOK, RequestInv, Handling, Fresh
<1>35. CASE UNCHANGED vars
  BY <1>35 DEF vars, IInv, TypeOK, RequestInv, Handling, Fresh
<1> QED
  BY <1>1, <1>2, <1>3, <1>4, <1>5, <1>6, <1>7, <1>8, <1>9, <1>10, <1>11, <1>12, <1>13,
      <1>14, <1>15, <1>16, <1>17, <1>18, <1>19, <1>20, <1>21, <1>22, <1>23, <1>24,
      <1>25, <1>26, <1>27, <1>28, <1>29, <1>30, <1>31, <1>32, <1>33, <1>34, <1>35
     DEF Next, Worker, MainThread, ServerThread, Client

(* What a capture has to return is fresh. *)
LEMMA CaptureStep ==
    ASSUME IInv, [Next]_vars
    PROVE  CaptureInv'
<1> USE DEF vars, outside, world, camera, stopping, thread, policy
<1>1. CASE Tick
  BY <1>1, SnapshotAssumption
     DEF Tick, IInv, TypeOK, CaptureInv, ObservationIsFresh, Unavailable, Fresh
<1>2. CASE Signal
  BY <1>2 DEF Signal, IInv, TypeOK, CaptureInv, ObservationIsFresh, Unavailable, Fresh
<1>3. ASSUME NEW camera_ \in Cameras, WorkerFails(camera_) PROVE CaptureInv'
  BY <1>3
     DEF WorkerFails, Shutdown, IInv, TypeOK, CaptureInv, ObservationIsFresh,
         Unavailable, Fresh
<1>4. ASSUME NEW camera_ \in Cameras, WorkerEnds(camera_) PROVE CaptureInv'
  BY <1>4 DEF WorkerEnds, IInv, TypeOK, CaptureInv, ObservationIsFresh, Unavailable, Fresh
<1>5. CASE Start
  BY <1>5
     DEF Start, StartServer, IInv, TypeOK, CaptureInv, ObservationIsFresh, Unavailable,
         Fresh
<1>6. CASE StartFails
  BY <1>6 DEF StartFails, IInv, TypeOK, CaptureInv, ObservationIsFresh, Unavailable, Fresh
<1>7. CASE SpinReturns
  BY <1>7 DEF SpinReturns, IInv, TypeOK, CaptureInv, ObservationIsFresh, Unavailable, Fresh
<1>8. CASE StopServer
  BY <1>8 DEF StopServer, IInv, TypeOK, CaptureInv, ObservationIsFresh, Unavailable, Fresh
<1>9. CASE StopConnection
  BY <1>9 DEF StopConnection, IInv, TypeOK, CaptureInv, ObservationIsFresh, Unavailable, Fresh
<1>10. CASE StopListener
  BY <1>10 DEF StopListener, IInv, TypeOK, CaptureInv, ObservationIsFresh, Unavailable, Fresh
<1>11. CASE JoinServer
  BY <1>11 DEF JoinServer, IInv, TypeOK, CaptureInv, ObservationIsFresh, Unavailable, Fresh
<1>12. CASE StopWorkers
  BY <1>12 DEF StopWorkers, IInv, TypeOK, CaptureInv, ObservationIsFresh, Unavailable, Fresh
<1>13. CASE JoinWorkers
  BY <1>13 DEF JoinWorkers, IInv, TypeOK, CaptureInv, ObservationIsFresh, Unavailable, Fresh
<1>14. CASE Loop
  BY <1>14 DEF Loop, IInv, TypeOK, CaptureInv, ObservationIsFresh, Unavailable, Fresh
<1>15. CASE Accept
  BY <1>15 DEF Accept, IInv, TypeOK, CaptureInv, ObservationIsFresh, Unavailable, Fresh
<1>16. CASE AcceptFails
  BY <1>16 DEF AcceptFails, IInv, TypeOK, CaptureInv, ObservationIsFresh, Unavailable, Fresh
<1>17. CASE Assign
  BY <1>17 DEF Assign, IInv, TypeOK, CaptureInv, ObservationIsFresh, Unavailable, Fresh
<1>18. CASE Serve
  BY <1>18 DEF Serve, IInv, TypeOK, CaptureInv, ObservationIsFresh, Unavailable, Fresh
<1>19. CASE ReceiveRequest
  BY <1>19 DEF ReceiveRequest, IInv, TypeOK, CaptureInv, ObservationIsFresh, Unavailable, Fresh
<1>20. CASE ReceiveEnds
  BY <1>20 DEF ReceiveEnds, IInv, TypeOK, CaptureInv, ObservationIsFresh, Unavailable, Fresh
<1>21. CASE CaptureSnapshot
  <2>1. UNCHANGED <<client, socket, now, deadline, answer, observation>>
    BY <1>21 DEF CaptureSnapshot
  <2>2. client = "read" => Fresh(answer)'
    <3>1. answer \in Replies
      BY DEF IInv, TypeOK
    <3>2. client = "read" => FreshNext(answer)
      BY <1>21, <3>1, CommitKeepsFresh DEF IInv, CaptureInv
    <3> QED
      BY <2>1, <3>2 DEF Fresh, FreshNext
  <2> QED
    BY <2>1, <2>2 DEF IInv, CaptureInv, ObservationIsFresh, Unavailable
<1>22. CASE CaptureRefused
  BY <1>22 DEF CaptureRefused, IInv, TypeOK, CaptureInv, ObservationIsFresh, Unavailable, Fresh
<1>23. CASE CaptureThrows
  BY <1>23
     DEF CaptureThrows, Shutdown, IInv, TypeOK, CaptureInv, ObservationIsFresh,
         Unavailable, Fresh
<1>24. CASE SendReply
  BY <1>24 DEF SendReply, IInv, TypeOK, CaptureInv, ObservationIsFresh, Unavailable, Fresh
<1>25. CASE SendFails
  BY <1>25 DEF SendFails, IInv, TypeOK, CaptureInv, ObservationIsFresh, Unavailable, Fresh
<1>26. CASE CloseConnection
  BY <1>26 DEF CloseConnection, IInv, TypeOK, CaptureInv, ObservationIsFresh, Unavailable, Fresh
<1>27. CASE BeginCapture
  BY <1>27, SnapshotAssumption
     DEF BeginCapture, IInv, TypeOK, CaptureInv, ObservationIsFresh, Unavailable, Fresh
<1>28. CASE Connect
  BY <1>28, ConnectFacts
     DEF Connect, IInv, TypeOK, CaptureInv, ObservationIsFresh, Unavailable, Fresh
<1>29. CASE SendRequest
  BY <1>29 DEF SendRequest, IInv, TypeOK, CaptureInv, ObservationIsFresh, Unavailable, Fresh
<1>30. CASE ReceiveReply
  <2>1. UNCHANGED <<socket, now, deadline, observation, arena, sequence_>>
    BY <1>30 DEF ReceiveReply
  <2>2. /\ client' \in {"read", "return"} /\ client = "receive"
        /\ client' = "read" => answer'.ok
    BY <1>30 DEF ReceiveReply
  <2>3. Fresh(answer')
    <3>1. socket # 0 /\ 1 \in DOMAIN peers[socket].reply
      BY <1>30, ReceiveReplyFacts DEF IInv
    <3> QED
      BY <1>30, <3>1, ReceiveReplyFacts DEF IInv, RequestInv
  <2> QED
    BY <2>1, <2>2, <2>3 DEF IInv, CaptureInv, ObservationIsFresh, Unavailable, Fresh
<1>31. CASE CaptureFails
  BY <1>31
     DEF CaptureFails, HangUp, IInv, TypeOK, CaptureInv, ObservationIsFresh,
         Unavailable, Fresh
<1>32. CASE ReadArena
  <2>1. /\ UNCHANGED <<socket, now, deadline, arena, sequence_>>
        /\ client = "read" /\ client' = "return"
    BY <1>32 DEF ReadArena
  <2> DEFINE slot == arena[(answer.generation \div 2) % 2]
  <2>2. observation' = IF slot.generation = answer.generation
                       THEN [cutoff |-> slot.cutoff] ELSE Unavailable
    BY <1>32 DEF ReadArena
  <2>3. slot.generation = answer.generation => slot.cutoff >= deadline - Timeout - MaxAge
    BY <2>1 DEF IInv, CaptureInv, Fresh
  <2>4. ObservationIsFresh'
    BY <2>1, <2>2, <2>3 DEF ObservationIsFresh
  <2> QED
    BY <2>1, <2>4 DEF IInv, CaptureInv
<1>33. CASE ReturnFromCapture
  BY <1>33
     DEF ReturnFromCapture, IInv, TypeOK, CaptureInv, ObservationIsFresh, Unavailable,
         Fresh
<1>34. CASE CloseClient
  BY <1>34
     DEF CloseClient, HangUp, IInv, TypeOK, CaptureInv, ObservationIsFresh, Unavailable,
         Fresh
<1>35. CASE UNCHANGED vars
  BY <1>35 DEF vars, IInv, TypeOK, CaptureInv, ObservationIsFresh, Unavailable, Fresh
<1> QED
  BY <1>1, <1>2, <1>3, <1>4, <1>5, <1>6, <1>7, <1>8, <1>9, <1>10, <1>11, <1>12, <1>13,
      <1>14, <1>15, <1>16, <1>17, <1>18, <1>19, <1>20, <1>21, <1>22, <1>23, <1>24,
      <1>25, <1>26, <1>27, <1>28, <1>29, <1>30, <1>31, <1>32, <1>33, <1>34, <1>35
     DEF Next, Worker, MainThread, ServerThread, Client

(* The camera process and the client start with nothing on the line. *)
LEMMA InitInvariant == Init => IInv
<1> SUFFICES ASSUME Init PROVE IInv
  OBVIOUS
<1> USE DEF Init
<1>1. TypeOK
  <2>1. buffers \in [Streams -> Seq({stamp \in Int : stamp <= now})]
    OBVIOUS
  <2>2. peers = <<>> /\ peers \in Seq(Peers) /\ Len(peers) = 0
    OBVIOUS
  <2>3. arena \in [0 .. 1 -> [generation : Nat, cutoff : Int]]
    OBVIOUS
  <2>4. reply \in Replies /\ answer \in Replies /\ observation \in [cutoff : Int]
    BY DEF Nothing, Unavailable, Replies
  <2>5. connection \in 0 .. Len(peers) /\ serving \in 0 .. Len(peers) /\ socket \in 0 .. Len(peers)
    BY <2>2
  <2> QED
    BY <2>1, <2>2, <2>3, <2>4, <2>5 DEF TypeOK
<1>2. ConnectionInv /\ StopInv /\ RequestInv /\ CaptureInv
  BY DEF ConnectionInv, StopInv, RequestInv, CaptureInv, ObservationIsFresh
<1> QED
  BY <1>1, <1>2 DEF IInv

(* IInv is an invariant of the camera process and its client, for any       *)
(* cameras, arms, histories, ages and timeouts.                             *)
THEOREM SnapshotInductive == Spec => []IInv
<1>1. IInv /\ [Next]_vars => IInv'
  BY TypeStep, ConnectionStep, StopStep, RequestStep, CaptureStep DEF IInv
<1> QED
  BY InitInvariant, <1>1, PTL DEF Spec

(* An observation is never older, before the capture that returned it       *)
(* began, than a snapshot may be, whatever earlier captures timed out       *)
(* (LocalVlaSnapshotClient.capture, SnapshotBuffer::select).                *)
THEOREM ObservationsAreFresh == Spec => []ObservationIsFresh
<1>1. IInv => ObservationIsFresh
  BY DEF IInv, CaptureInv
<1> QED
  BY <1>1, SnapshotInductive, PTL

(* Once stop() joins the server thread, that thread is in no call that      *)
(* could block for good (SnapshotSocketServer::stop).                       *)
THEOREM StopNeverSticks == Spec => []StopIsNotStuck
<1>1. IInv => StopIsNotStuck
  BY DEF IInv, StopInv, StopIsNotStuck, Blocked
<1> QED
  BY <1>1, SnapshotInductive, PTL
=============================================================================
