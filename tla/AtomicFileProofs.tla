--------------------------- MODULE AtomicFileProofs ---------------------------
(***************************************************************************)
(* Proofs about AtomicFile, for any number of writers, inodes and replaces *)
(* and any size: type correctness, that an acknowledged write survives,    *)
(* that nobody reads a torn content, and that AtomicFile implements        *)
(* DurableFile.                                                            *)
(***************************************************************************)
EXTENDS AtomicFile, TLAPS

\* the number of writes that have named a file
Last == Len(entries)

\* what the destination has named is whole, on disk and nobody's temporary file
EntryInv == \A k \in 1 .. Last : entries[k] # Missing =>
    /\ content[entries[k]] \in Contents
    /\ written[entries[k]] = Size /\ safe[entries[k]] = Size
    /\ \A w \in Writers : temp[w] # entries[k]

\* a temporary file has one owner, and is whole and on disk once flushed
TempInv == \A w \in Writers :
    /\ pc[w] \in {"writing", "flushed"} <=> temp[w] # Missing
    /\ temp[w] # Missing => content[temp[w]] \in Contents
    /\ pc[w] = "flushed" => written[temp[w]] = Size /\ safe[temp[w]] = Size
    /\ \A v \in Writers \ {w} : temp[w] # Missing => temp[w] # temp[v]

\* nobody acknowledges what is not the entry, or was not
AckInv == acked <= durable /\ \A w \in Writers : mine[w] <= Last

Inv == TypeOK /\ EntryInv /\ TempInv /\ AckInv

\* the ways a write ends
Ending(w) == SyncDirectory(w) \/ SkipDirectory(w) \/ Fails(w)

\* A file that is free is neither an entry nor a temporary file.
LEMMA FreeIsUnused ==
  ASSUME TypeOK, NEW i \in Free
  PROVE  /\ i \in Inodes
         /\ \A k \in 1 .. Last : entries[k] # i
         /\ \A w \in Writers : temp[w] # i
  BY DEF TypeOK, Free, Range, Last

\* Appending an entry keeps the others.
LEMMA Appended ==
  ASSUME TypeOK, Last <= MaxReplaces, NEW e \in Inodes \union {Missing},
         entries' = Append(entries, e)
  PROVE  /\ entries' \in Seq(Inodes \union {Missing})
         /\ Last' = Last + 1 /\ Last' <= MaxReplaces + 1
         /\ entries'[Last'] = e
         /\ \A k \in 1 .. Last : entries'[k] = entries[k]
  BY ConstantsAssumption DEF ConstantsAssumption, TypeOK, Last

\* Begin keeps the invariant.
LEMMA BeginStep ==
  ASSUME ConstantsAssumption, Inv, NEW w \in Writers, Begin(w)
  PROVE  Inv'
  <1> USE DEF ConstantsAssumption, Inv, TypeOK, EntryInv, TempInv, AckInv, Last
  <1>1. PICK i \in Free, c \in Contents :
            /\ temp' = [temp EXCEPT ![w] = i]
            /\ content' = [content EXCEPT ![i] = c]
            /\ written' = [written EXCEPT ![i] = 0]
            /\ safe' = [safe EXCEPT ![i] = 0]
    BY DEF Begin
  <1>2. /\ i \in Inodes /\ \A k \in 1 .. Last : entries[k] # i
        /\ \A v \in Writers : temp[v] # i
    BY FreeIsUnused
  <1>3. /\ pc' = [pc EXCEPT ![w] = "writing"] /\ pc[w] = "idle"
        /\ UNCHANGED <<mine, entries, durable, acked>>
    BY DEF Begin
  <1>4. TypeOK'
    BY <1>1, <1>2, <1>3
  <1>5. EntryInv'
    BY <1>1, <1>2, <1>3
  <1>6. TempInv'
    BY <1>1, <1>2, <1>3
  <1>7. QED
    BY <1>3, <1>4, <1>5, <1>6

\* Write and Fsync keep the invariant: the temporary file is no entry.
LEMMA FillStep ==
  ASSUME ConstantsAssumption, Inv, NEW w \in Writers, Write(w) \/ Fsync(w)
  PROVE  Inv'
  <1> USE DEF ConstantsAssumption, Inv, TypeOK, EntryInv, TempInv, AckInv, Last
  <1>1. temp[w] \in Inodes
    BY DEF Write, Fsync
  <1>2. CASE Write(w)
    <2>1. PICK n \in 1 .. Size - written[temp[w]] :
              written' = [written EXCEPT ![temp[w]] = @ + n]
      BY <1>2 DEF Write
    <2>2. QED
      BY <1>1, <1>2, <2>1 DEF Write, writers
  <1>3. CASE Fsync(w)
    BY <1>1, <1>3 DEF Fsync, Goto
  <1>4. QED
    BY <1>2, <1>3

\* Rename keeps the invariant.
LEMMA RenameStep ==
  ASSUME ConstantsAssumption, Inv, NEW w \in Writers, Rename(w)
  PROVE  Inv'
  <1> USE DEF ConstantsAssumption, Inv
  <1>1. temp[w] \in Inodes
    BY DEF Rename, TypeOK, TempInv
  <1>2. /\ entries' \in Seq(Inodes \union {Missing})
        /\ Last' = Last + 1 /\ Last' <= MaxReplaces + 1
        /\ entries'[Last'] = temp[w]
        /\ \A k \in 1 .. Last : entries'[k] = entries[k]
    BY <1>1, Appended DEF Rename, Last
  <1>3. Last \in Nat /\ durable \in 1 .. Last
    BY DEF TypeOK, Last
  <1>4. TypeOK'
    BY <1>1, <1>2, <1>3 DEF Rename, files, TypeOK, Last
  <1>5. EntryInv'
    BY <1>1, <1>2, <1>3 DEF Rename, files, TypeOK, EntryInv, TempInv
  <1>6. TempInv'
    BY <1>1 DEF Rename, files, TypeOK, TempInv
  <1>7. AckInv'
    BY <1>2, <1>3 DEF Rename, TypeOK, AckInv, Last
  <1>8. QED
    BY <1>4, <1>5, <1>6, <1>7

\* The end of a write keeps the invariant.
LEMMA EndStep ==
  ASSUME ConstantsAssumption, Inv, NEW w \in Writers, Ending(w)
  PROVE  Inv'
  <1> USE DEF ConstantsAssumption, Inv, Last
  <1>1. /\ pc' = [pc EXCEPT ![w] = "idle"] /\ temp' = [temp EXCEPT ![w] = Missing]
        /\ mine' = [mine EXCEPT ![w] = 0]
        /\ UNCHANGED <<content, written, safe, entries>>
    BY DEF Ending, SyncDirectory, SkipDirectory, Fails, Leave, files
  <1>2. /\ durable' \in {durable, Last}
        /\ acked' \in 0 .. MaxReplaces + 1 /\ acked' <= durable'
    <2>1. CASE SyncDirectory(w)
      BY <2>1 DEF SyncDirectory, TypeOK, AckInv
    <2>2. CASE SkipDirectory(w) \/ Fails(w)
      BY <2>2 DEF SkipDirectory, Fails, TypeOK, AckInv
    <2>3. QED
      BY <2>1, <2>2 DEF Ending
  <1>3. TypeOK'
    BY <1>1, <1>2 DEF TypeOK
  <1>4. EntryInv'
    BY <1>1 DEF TypeOK, EntryInv
  <1>5. TempInv'
    BY <1>1 DEF TypeOK, TempInv
  <1>6. AckInv'
    BY <1>1, <1>2 DEF TypeOK, AckInv
  <1>7. QED
    BY <1>3, <1>4, <1>5, <1>6

\* Unlink keeps the invariant.
LEMMA UnlinkStep ==
  ASSUME ConstantsAssumption, Inv, Unlink
  PROVE  Inv'
  <1> USE DEF ConstantsAssumption, Inv
  <1>1. /\ entries' \in Seq(Inodes \union {Missing})
        /\ Last' = Last + 1 /\ Last' <= MaxReplaces + 1
        /\ entries'[Last'] = Missing
        /\ \A k \in 1 .. Last : entries'[k] = entries[k]
    BY Appended DEF Unlink, Last
  <1>2. Last \in Nat
    BY DEF TypeOK, Last
  <1>3. QED
    BY <1>1, <1>2 DEF Unlink, writers, files, TypeOK, EntryInv, TempInv, AckInv, Last

\* What a power loss leaves of the entries.
LEMMA Cut ==
  ASSUME TypeOK, NEW d \in durable .. Last
  PROVE  /\ SubSeq(entries, 1, d) \in Seq(Inodes \union {Missing})
         /\ Len(SubSeq(entries, 1, d)) = d
         /\ \A k \in 1 .. d : SubSeq(entries, 1, d)[k] = entries[k]
  BY DEF TypeOK, Last

\* A power loss keeps the invariant: the entries were whole on disk.
LEMMA PowerLossStep ==
  ASSUME ConstantsAssumption, Inv, PowerLoss
  PROVE  Inv'
  <1> USE DEF ConstantsAssumption, Inv
  <1>1. /\ entries' \in Seq(Inodes \union {Missing})
        /\ Last' = durable' /\ durable' \in durable .. Last
        /\ \A k \in 1 .. Last' : entries'[k] = entries[k]
    BY Cut DEF PowerLoss, Last
  <1>2. /\ written' \in [Inodes -> 0 .. Size] /\ safe' = written'
        /\ \A i \in Inodes : written'[i] \in safe[i] .. written[i]
    BY DEF PowerLoss
  <1>3. Last \in Nat /\ durable \in 1 .. Last /\ Last <= MaxReplaces + 1
    BY DEF TypeOK, Last
  <1>4. /\ pc' = [w \in Writers |-> "idle"] /\ temp' = [w \in Writers |-> Missing]
        /\ mine' = [w \in Writers |-> 0] /\ UNCHANGED <<content, acked>>
    BY DEF PowerLoss
  <1>5. \A i \in Inodes : safe'[i] <= written'[i]
    BY <1>2
  <1>6. Last' \in Nat /\ Last' <= MaxReplaces + 1 /\ durable' \in 1 .. Last'
    BY <1>1, <1>3 DEF TypeOK
  <1>7. TypeOK'
    BY <1>1, <1>2, <1>4, <1>5, <1>6 DEF TypeOK, Last
  <1>8. EntryInv'
    <2>1. ASSUME NEW k \in 1 .. Last', entries'[k] # Missing
          PROVE  /\ entries'[k] = entries[k] /\ entries[k] \in Inodes
                 /\ content[entries[k]] \in Contents
                 /\ written'[entries[k]] = Size
      <3>1. k \in 1 .. Last /\ entries'[k] = entries[k] /\ entries[k] \in Inodes
        BY <1>1, <1>3, <2>1 DEF TypeOK, Last
      <3>2. /\ content[entries[k]] \in Contents
            /\ written[entries[k]] = Size /\ safe[entries[k]] = Size
        BY <2>1, <3>1 DEF EntryInv
      <3>3. written'[entries[k]] \in Size .. Size
        BY <1>2, <3>1, <3>2
      <3>4. QED
        BY <3>1, <3>2, <3>3
    <2>2. QED
      BY <1>2, <1>4, <2>1 DEF EntryInv
  <1>9. TempInv' /\ AckInv'
    BY <1>1, <1>3, <1>4, <1>6 DEF TypeOK, TempInv, AckInv
  <1>10. QED
    BY <1>7, <1>8, <1>9

\* Every step keeps the invariant.
LEMMA InvStep ==
  ASSUME ConstantsAssumption, Inv, [Next]_vars
  PROVE  Inv'
  <1>1. CASE UNCHANGED vars
    BY <1>1 DEF vars, writers, files, Inv, TypeOK, EntryInv, TempInv, AckInv, Last
  <1>2. QED
    BY <1>1, BeginStep, FillStep, RenameStep, EndStep, UnlinkStep, PowerLossStep
       DEF Next, Ending

\* The invariant holds in every behaviour, TypeOK with it.
THEOREM TypeCorrect == Spec => [](TypeOK /\ Inv)
  <1>1. Init => Inv
    BY ConstantsAssumption
       DEF ConstantsAssumption, Init, Inv, TypeOK, EntryInv, TempInv, AckInv, Last
  <1>2. Inv /\ [Next]_vars => Inv'
    BY InvStep, ConstantsAssumption
  <1>3. Inv => TypeOK
    BY DEF Inv
  <1>4. QED
    BY <1>1, <1>2, <1>3, PTL DEF Spec

\* A write that has returned and flushed the directory is never undone,
\* however many processes write.
THEOREM AcknowledgedDurable == Spec => []AcknowledgedSurvives
  <1>1. Inv => AcknowledgedSurvives
    BY DEF Inv, AckInv, AcknowledgedSurvives
  <1>2. QED
    BY <1>1, TypeCorrect, PTL
-----------------------------------------------------------------------------
(* The refinement. *)

\* what entry k names
Named(k) == IF entries[k] = Missing THEN Missing ELSE content[entries[k]]

\* DurableFile's two variables, and the contents named since the flush
Value == Image(entries[Len(entries)], written)
Possible == {Image(entries[k], safe) : k \in durable .. Len(entries)}
NamedSince == {Named(k) : k \in durable .. Last}

\* Readers and a restart see the contents that the entries name, whole.
Mapping ==
    /\ Last \in 1 .. MaxReplaces + 1 /\ durable \in 1 .. Last
    /\ \A k \in 1 .. Last : Named(k) \in Contents \union {Missing}
    /\ Value = Named(Last) /\ Possible = NamedSince

\* The invariant makes the two variables of DurableFile functions of the
\* entries.
LEMMA Mapped == Inv => Mapping
  <1> SUFFICES ASSUME Inv PROVE Mapping
    OBVIOUS
  <1>1. Last \in 1 .. MaxReplaces + 1 /\ durable \in 1 .. Last
    BY ConstantsAssumption DEF ConstantsAssumption, Inv, TypeOK, Last
  <1>2. \A k \in 1 .. Last :
            /\ Named(k) \in Contents \union {Missing}
            /\ Image(entries[k], written) = Named(k)
            /\ Image(entries[k], safe) = Named(k)
    BY <1>1 DEF Inv, EntryInv, Image, Named
  <1>3. \A k \in durable .. Last : k \in 1 .. Last
    BY <1>1
  <1>4. QED
    BY <1>1, <1>2, <1>3 DEF Mapping, Value, Possible, NamedSince, Last

\* Nobody ever reads a content in part, and none is what a power loss leaves,
\* whichever writes are under way, fail or are killed.
THEOREM NeverTorn ==
  Spec => [](/\ Value \in Contents \union {Missing}
             /\ Possible \subseteq Contents \union {Missing})
  <1> DEFINE Whole == /\ Value \in Contents \union {Missing}
                      /\ Possible \subseteq Contents \union {Missing}
  <1>1. Inv => Whole
    <2> SUFFICES ASSUME Inv PROVE Whole
      OBVIOUS
    <2>1. Mapping
      BY Mapped
    <2>2. Last \in 1 .. Last /\ \A k \in durable .. Last : k \in 1 .. Last
      BY <2>1 DEF Mapping
    <2>3. QED
      BY <2>1, <2>2 DEF Mapping, NamedSince
  <1>2. QED
    BY <1>1, TypeCorrect, PTL

\* So it does after a step.
LEMMA MappedNext == Inv' => Mapping'
  BY Mapped, PTL

\* A step that keeps the entries and what they name is invisible.
LEMMA Invisible ==
  ASSUME Inv, Inv', UNCHANGED <<entries, durable>>,
         \A k \in 1 .. Last : entries[k] # Missing => content'[entries[k]] = content[entries[k]]
  PROVE  UNCHANGED Register!vars
  <1>1. Mapping /\ Mapping'
    BY Mapped, MappedNext
  <1>2. Last' = Last /\ \A k \in 1 .. Last : Named(k)' = Named(k)
    BY DEF Named, Last
  <1>3. Last \in 1 .. Last /\ \A k \in durable .. Last : k \in 1 .. Last
    BY <1>1 DEF Mapping
  <1>4. Named(Last)' = Named(Last)
    BY <1>2, <1>3 DEF Named
  <1>5. NamedSince' = NamedSince
    BY <1>2, <1>3 DEF NamedSince
  <1>6. UNCHANGED <<Value, Possible>>
    BY <1>1, <1>4, <1>5 DEF Mapping
  <1>7. QED
    BY <1>6 DEF Value, Possible, Register!vars

\* A step that appends an entry replaces the value.
LEMMA Replaces ==
  ASSUME Inv, Inv', UNCHANGED <<content, durable>>, Last <= MaxReplaces,
         NEW e \in Inodes \union {Missing}, entries' = Append(entries, e)
  PROVE  Register!Replace
  <1>1. Mapping /\ Mapping'
    BY Mapped, MappedNext
  <1>2. Last' = Last + 1 /\ \A k \in 1 .. Last : entries'[k] = entries[k]
    BY Appended DEF Inv
  <1>3. \A k \in 1 .. Last : Named(k)' = Named(k)
    BY <1>2 DEF Named
  <1>4. Last \in Nat /\ durable \in 1 .. Last
    BY <1>1 DEF Mapping
  <1>5. NamedSince' = NamedSince \union {Named(Last)'}
    BY <1>2, <1>3, <1>4 DEF NamedSince
  <1>6. Value' \in Contents \union {Missing}
    BY <1>1, <1>2, <1>4 DEF Mapping
  <1>7. Possible' = Possible \union {Value'}
    BY <1>1, <1>5 DEF Mapping
  <1>8. QED
    BY <1>6, <1>7 DEF Value, Possible, Register!Replace

\* Flushing the directory settles the value.
LEMMA Settles ==
  ASSUME Inv, Inv', UNCHANGED <<content, entries>>, durable' = Last
  PROVE  Register!Settle
  <1>1. Mapping /\ Mapping' /\ Last' = Last
    BY Mapped, MappedNext DEF Last
  <1>2. Last \in 1 .. Last
    BY <1>1 DEF Mapping
  <1>3. Named(Last)' = Named(Last)
    BY <1>1 DEF Named
  <1>4. NamedSince' = {Named(Last)}
    BY <1>1, <1>2, <1>3 DEF NamedSince
  <1>5. Value' = Value /\ Possible' = {Value}
    BY <1>1, <1>3, <1>4 DEF Mapping
  <1>6. QED
    BY <1>5 DEF Value, Possible, Register!Settle

\* A power loss leaves one of the possible values.
LEMMA Loses ==
  ASSUME Inv, Inv', PowerLoss
  PROVE  Register!PowerLoss
  <1>1. Mapping /\ Mapping'
    BY Mapped, MappedNext
  <1>2. /\ durable' \in durable .. Last /\ Last' = durable'
        /\ \A k \in 1 .. Last' : entries'[k] = entries[k]
        /\ UNCHANGED content
    BY Cut DEF Inv, PowerLoss, Last
  <1>3. durable' \in 1 .. Last'
    BY <1>1 DEF Mapping
  <1>4. Named(Last)' = Named(durable')
    BY <1>2, <1>3 DEF Named
  <1>5. Named(durable') \in NamedSince /\ NamedSince' = {Named(Last)'}
    BY <1>2, <1>3 DEF NamedSince
  <1>6. Value' \in Possible /\ Possible' = {Value'}
    BY <1>1, <1>4, <1>5 DEF Mapping
  <1>7. QED
    BY <1>6 DEF Value, Possible, Register!PowerLoss

\* Readers and a restart after a power loss see one of the contents written,
\* whole, and never an older one than the last flushed, whatever fails.
THEOREM DurableRefinement == Spec => ImplementsDurableFile
  <1>1. Init => Register!Init
    BY DEF Init, Register!Init, Image
  <1>2. Inv /\ Inv' /\ [Next]_vars => [Register!Next]_Register!vars
    <2> SUFFICES ASSUME Inv, Inv', [Next]_vars PROVE [Register!Next]_Register!vars
      OBVIOUS
    <2>1. ASSUME NEW w \in Writers, Begin(w)
          PROVE  UNCHANGED Register!vars
      <3>1. PICK i \in Free, c \in Contents : content' = [content EXCEPT ![i] = c]
        BY <2>1 DEF Begin
      <3>2. \A k \in 1 .. Last : entries[k] # i /\ entries[k] \in Inodes \union {Missing}
        <4>1. TypeOK
          BY DEF Inv
        <4>2. \A k \in 1 .. Last : entries[k] # i
          BY <4>1, FreeIsUnused
        <4>3. QED
          BY <4>1, <4>2 DEF TypeOK, Last
      <3>3. content \in [Inodes -> Contents \union {Missing}]
        BY DEF Inv, TypeOK
      <3>4. \A k \in 1 .. Last : entries[k] # Missing =>
                content'[entries[k]] = content[entries[k]]
        BY <3>1, <3>2, <3>3
      <3>5. QED
        BY <2>1, <3>4, Invisible DEF Begin
    <2>2. ASSUME NEW w \in Writers, Write(w) \/ Fsync(w) \/ SkipDirectory(w) \/ Fails(w)
          PROVE  UNCHANGED Register!vars
      BY <2>2, Invisible DEF Write, Fsync, SkipDirectory, Fails, files
    <2>3. ASSUME NEW w \in Writers, Rename(w)
          PROVE  Register!Replace
      <3>1. temp[w] \in Inodes \union {Missing}
        BY DEF Inv, TypeOK
      <3>2. QED
        BY <2>3, <3>1, Replaces DEF Rename, files, Last
    <2>4. ASSUME NEW w \in Writers, SyncDirectory(w)
          PROVE  Register!Settle
      BY <2>4, Settles DEF SyncDirectory, files, Last
    <2>5. CASE Unlink
      BY <2>5, Replaces DEF Unlink, files, Last, Register!Next
    <2>6. CASE PowerLoss
      BY <2>6, Loses DEF Register!Next
    <2>7. CASE UNCHANGED vars
      BY <2>7, Invisible DEF vars, writers, files
    <2>8. QED
      BY <2>1, <2>2, <2>3, <2>4, <2>5, <2>6, <2>7 DEF Next, Register!Next
  <1>3. QED
    BY <1>1, <1>2, TypeCorrect, PTL DEF Spec, ImplementsDurableFile, Register!Spec
=============================================================================
