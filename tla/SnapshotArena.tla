--------------------------- MODULE SnapshotArena ---------------------------
(***************************************************************************)
(* The shared memory between the camera process and the policy worker:     *)
(* snapshot_shared_memory_writer.cpp writes a selected sample into one of  *)
(* two slots, snapshot_shared_memory.py reads a slot it was told of.  No   *)
(* lock: a generation is stored odd before and even after the parts of a   *)
(* sample, and the reader compares it before and after its own copy.       *)
(*                                                                         *)
(* The content of a part is the sequence number of the sample it belongs   *)
(* to.  Stores and loads take effect in program order, as they do on the   *)
(* x86 hosts of the station.  The reader may hold any descriptor the       *)
(* writer ever returned, and be as late with it as it likes.               *)
(***************************************************************************)
EXTENDS Integers

CONSTANTS
    Slots,         \* kSlotCount
    Parts,         \* the header after its generation, and the three frames
    MaxSequence    \* bound: samples committed

ASSUME ArenaAssumption ==
    /\ Slots \in Nat \ {0}
    /\ Parts \in Nat \ {0}
    /\ MaxSequence \in Nat

NoDescriptor == [slot |-> 0, generation |-> 0]

VARIABLES
    sequence,      \* sequence_: samples begun
    generation,    \* of each slot
    content,       \* of each slot: what each part holds
    writing,       \* part the writer copies next; 0: not in commit
    issued,        \* descriptors commit returned
    want,          \* descriptor the reader was called with
    reading,       \* step of the reader: 1 compares, then a part each, then
                   \* compares again; 0: not in read
    seen,          \* what the reader copied
    sample         \* what read returned last: descriptor and parts

arenaVars == <<sequence, generation, content, writing, issued, want, reading, seen, sample>>
writerVars == <<sequence, generation, content, writing, issued>>
readerVars == <<want, reading, seen, sample>>

SlotIndex == 0 .. Slots - 1
PartIndex == 1 .. Parts
Descriptor == [slot : SlotIndex, generation : Nat]
Blank == [part \in PartIndex |-> 0]

ArenaInit ==
    /\ sequence = 0
    /\ generation = [slot \in SlotIndex |-> 0]
    /\ content = [slot \in SlotIndex |-> Blank]
    /\ writing = 0
    /\ issued = {}
    /\ want = NoDescriptor
    /\ reading = 0
    /\ seen = Blank
    /\ sample = [of |-> NoDescriptor, parts |-> Blank]

-----------------------------------------------------------------------------
(* SnapshotSharedMemoryWriter.commit *)

CurrentSlot == sequence % Slots

(* Mutant: the slot keeps its old generation while it is overwritten. *)
BeginUnmarked ==
    /\ writing = 0
    /\ sequence < MaxSequence
    /\ sequence' = sequence + 1
    /\ writing' = 1
    /\ UNCHANGED <<generation, content, issued, readerVars>>

(* The next slot is marked odd before anything in it changes. *)
BeginCommit ==
    /\ writing = 0
    /\ sequence < MaxSequence
    /\ sequence' = sequence + 1
    /\ generation' = [generation EXCEPT ![sequence' % Slots] = 2 * sequence' + 1]
    /\ writing' = 1
    /\ UNCHANGED <<content, issued, readerVars>>

CopyPart ==
    /\ writing \in PartIndex
    /\ content' = [content EXCEPT ![CurrentSlot] = [@ EXCEPT ![writing] = sequence]]
    /\ writing' = writing + 1
    /\ UNCHANGED <<sequence, generation, issued, readerVars>>

(* The even generation publishes the slot. *)
Publish ==
    /\ writing = Parts + 1
    /\ generation' = [generation EXCEPT ![CurrentSlot] = 2 * sequence]
    /\ writing' = 0
    /\ issued' = issued \cup {[slot |-> CurrentSlot, generation |-> 2 * sequence]}
    /\ UNCHANGED <<sequence, content, readerVars>>

(* copy_frame refuses a frame of another size: commit is left with the slot *)
(* odd, and the source ends (the next commit would use the other slot).     *)
CopyThrows ==
    /\ writing \in PartIndex
    /\ writing' = 0
    /\ UNCHANGED <<sequence, generation, content, issued, readerVars>>

-----------------------------------------------------------------------------
(* SnapshotSharedMemoryReader.read *)

Matches == generation[want.slot] = want.generation

BeginRead(descriptor) ==
    /\ reading = 0
    /\ want' = descriptor
    /\ reading' = 1
    /\ seen' = Blank
    /\ sample' = [of |-> NoDescriptor, parts |-> Blank]
    /\ UNCHANGED writerVars

(* The generation is the first field of the header, so it is loaded first:   *)
(* a header unpacked behind another generation is not looked at.             *)
Compare ==
    /\ reading = 1
    /\ Matches
    /\ reading' = 2
    /\ UNCHANGED <<want, seen, sample, writerVars>>

ReadPart ==
    /\ reading - 1 \in PartIndex
    /\ seen' = [seen EXCEPT ![reading - 1] = content[want.slot][reading - 1]]
    /\ reading' = reading + 1
    /\ UNCHANGED <<want, sample, writerVars>>

Return ==
    /\ reading = Parts + 2
    /\ Matches
    /\ sample' = [of |-> want, parts |-> seen]
    /\ reading' = 0
    /\ UNCHANGED <<want, seen, writerVars>>

(* SnapshotArenaUnavailableError *)
Refuse ==
    /\ reading \in {1, Parts + 2}
    /\ ~Matches
    /\ reading' = 0
    /\ UNCHANGED <<want, seen, sample, writerVars>>

-----------------------------------------------------------------------------
Write == BeginCommit \/ CopyPart \/ Publish \/ CopyThrows
Read == (\E descriptor \in issued : BeginRead(descriptor)) \/ Compare \/ ReadPart \/ Return \/ Refuse

ArenaSpec == ArenaInit /\ [][Write \/ Read]_arenaVars

-----------------------------------------------------------------------------
ArenaTypeOK ==
    /\ sequence \in 0 .. MaxSequence
    /\ generation \in [SlotIndex -> Nat]
    /\ content \in [SlotIndex -> [PartIndex -> Nat]]
    /\ writing \in 0 .. Parts + 1
    /\ issued \subseteq Descriptor
    /\ want \in Descriptor
    /\ reading \in 0 .. Parts + 2
    /\ seen \in [PartIndex -> Nat]
    /\ sample \in [of : Descriptor, parts : [PartIndex -> Nat]]

(* A sample that read returned is one that commit finished, whole, and the   *)
(* one the caller asked for: snapshot_shared_memory.py:44 "Read one           *)
(* atomically committed RGB triplet".  However late the reader is, no part    *)
(* of a newer sample that reuses the slot gets in.                            *)
ReadsWhole ==
    sample.of # NoDescriptor =>
        /\ sample.of \in issued
        /\ \A part \in PartIndex : 2 * sample.parts[part] = sample.of.generation

(* What keeps ReadsWhole: a slot with an even generation holds that sample   *)
(* whole; generations only grow, and an even one is published once; so while *)
(* the generation asked for is still there, all that was copied is its own.  *)
SlotsAreWhole ==
    \A slot \in SlotIndex : \E n \in 0 .. sequence :
        \/ generation[slot] = 2 * n + 1
        \/ /\ generation[slot] = 2 * n
           /\ \A part \in PartIndex : content[slot][part] = n

WritesOddSlot ==
    writing # 0 =>
        /\ sequence # 0
        /\ generation[CurrentSlot] = 2 * sequence + 1
        /\ \A part \in PartIndex :
              part < writing => content[CurrentSlot][part] = sequence
        /\ \A descriptor \in issued : descriptor.generation < 2 * sequence

IssuedWereCommitted ==
    \A descriptor \in issued :
        /\ \E n \in 1 .. sequence : descriptor.generation = 2 * n
        /\ descriptor.generation <= generation[descriptor.slot]

ReadsItsOwn ==
    reading # 0 =>
        /\ want \in issued
        /\ Matches => \A part \in PartIndex :
                         part < reading - 1 => 2 * seen[part] = want.generation

ArenaInv ==
    /\ ArenaTypeOK
    /\ SlotsAreWhole
    /\ WritesOddSlot
    /\ IssuedWereCommitted
    /\ ReadsItsOwn
    /\ ReadsWhole
=============================================================================
