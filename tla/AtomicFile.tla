------------------------------ MODULE AtomicFile ------------------------------
(***************************************************************************)
(* state.atomic_write_private on one file of the state directory, down to  *)
(* the system calls: a temporary file is written in as many writes as it   *)
(* takes, flushed and renamed over the destination, and the directory is   *)
(* flushed.  Any call may fail, the process may be killed and the machine  *)
(* lose power between any two.  The files of the lifecycle have one writer *)
(* at a time (module LifecycleLock), opencode.json has several.  A         *)
(* temporary file that is left behind is never read and is not modelled.   *)
(***************************************************************************)
EXTENDS Naturals, Sequences, Functions

CONSTANTS
    Writers,         \* processes that write the file
    Contents,        \* what they write
    Inodes,          \* files the file system can hold
    Missing,         \* no file
    Torn,            \* a content nobody wrote: the prefix of one
    Size,            \* length of a content
    MaxReplaces      \* bound: changes of the directory entry

ASSUME ConstantsAssumption ==
    /\ Missing \notin Inodes /\ Missing \notin Contents
    /\ Torn \notin Contents /\ Torn # Missing
    /\ Size \in Nat \ {0} /\ MaxReplaces \in Nat

VARIABLES
    pc, temp,       \* step and temporary file of each writer
    mine,           \* index in entries of each writer's rename
    content,        \* content[i]: what is being written to file i
    written, safe,  \* bytes of it that readers see, and that are on disk
    entries,        \* what the destination has named, the last one now
    durable,        \* index of the entry known to be on disk
    acked           \* history: index of the last write reported as done

writers == <<pc, temp, mine>>
files == <<content, written, safe>>
vars == <<writers, files, entries, durable, acked>>

TypeOK ==
    /\ pc \in [Writers -> {"idle", "writing", "flushed", "replaced"}]
    /\ temp \in [Writers -> Inodes \union {Missing}]
    /\ mine \in [Writers -> 0 .. MaxReplaces + 1]
    /\ content \in [Inodes -> Contents \union {Missing}]
    /\ written \in [Inodes -> 0 .. Size]
    /\ safe \in [Inodes -> 0 .. Size]
    /\ \A i \in Inodes : safe[i] <= written[i]
    /\ entries \in Seq(Inodes \union {Missing})
    /\ Len(entries) <= MaxReplaces + 1
    /\ durable \in 1 .. Len(entries)
    /\ acked \in 0 .. MaxReplaces + 1

Init ==
    /\ pc = [w \in Writers |-> "idle"]
    /\ temp = [w \in Writers |-> Missing]
    /\ mine = [w \in Writers |-> 0]
    /\ content = [i \in Inodes |-> Missing]
    /\ written = [i \in Inodes |-> 0]
    /\ safe = [i \in Inodes |-> 0]
    /\ entries = <<Missing>> /\ durable = 1 /\ acked = 0

Goto(w, step) == pc' = [pc EXCEPT ![w] = step] /\ UNCHANGED <<temp, mine>>
Leave(w) ==
    /\ pc' = [pc EXCEPT ![w] = "idle"]
    /\ temp' = [temp EXCEPT ![w] = Missing]
    /\ mine' = [mine EXCEPT ![w] = 0]

Free == Inodes \ (Range(entries) \union Range(temp))
-----------------------------------------------------------------------------
\* mkstemp and fchmod
Begin(w) ==
    /\ pc[w] = "idle"
    /\ \E i \in Free, c \in Contents :
        /\ temp' = [temp EXCEPT ![w] = i]
        /\ content' = [content EXCEPT ![i] = c]
        /\ written' = [written EXCEPT ![i] = 0]
        /\ safe' = [safe EXCEPT ![i] = 0]
    /\ pc' = [pc EXCEPT ![w] = "writing"]
    /\ UNCHANGED <<mine, entries, durable, acked>>

\* mutated Write: the content is passed from its beginning every time
WriteAll(w) ==
    /\ pc[w] = "writing" /\ written[temp[w]] < Size
    /\ \E n \in 1 .. Size : written' = [written EXCEPT ![temp[w]] = @ + n]
    /\ UNCHANGED <<writers, content, safe, entries, durable, acked>>

\* one os.write takes a part of the rest; one that takes nothing raises
Write(w) ==
    /\ pc[w] = "writing" /\ written[temp[w]] < Size
    /\ \E n \in 1 .. Size - written[temp[w]] :
        written' = [written EXCEPT ![temp[w]] = @ + n]
    /\ UNCHANGED <<writers, content, safe, entries, durable, acked>>

\* mutated Fsync: the temporary file is closed without being flushed
CloseOnly(w) ==
    /\ pc[w] = "writing" /\ written[temp[w]] = Size
    /\ Goto(w, "flushed")
    /\ UNCHANGED <<files, entries, durable, acked>>

Fsync(w) ==
    /\ pc[w] = "writing" /\ written[temp[w]] = Size
    /\ safe' = [safe EXCEPT ![temp[w]] = written[temp[w]]]
    /\ Goto(w, "flushed")
    /\ UNCHANGED <<content, written, entries, durable, acked>>

\* os.replace
Rename(w) ==
    /\ pc[w] = "flushed" /\ Len(entries) <= MaxReplaces
    /\ entries' = Append(entries, temp[w])
    /\ mine' = [mine EXCEPT ![w] = Len(entries')]
    /\ pc' = [pc EXCEPT ![w] = "replaced"]
    /\ temp' = [temp EXCEPT ![w] = Missing]
    /\ UNCHANGED <<files, durable, acked>>

\* mutated SyncDirectory: the directory is not flushed
ReturnAtOnce(w) ==
    /\ pc[w] = "replaced"
    /\ acked' = IF mine[w] > acked THEN mine[w] ELSE acked
    /\ Leave(w)
    /\ UNCHANGED <<files, entries, durable>>

\* _fsync_directory, then a normal return
SyncDirectory(w) ==
    /\ pc[w] = "replaced"
    /\ durable' = Len(entries)
    /\ acked' = IF mine[w] > acked THEN mine[w] ELSE acked
    /\ Leave(w)
    /\ UNCHANGED <<files, entries>>

\* this file system cannot fsync a directory, which is not an error
SkipDirectory(w) ==
    /\ pc[w] = "replaced"
    /\ Leave(w)
    /\ UNCHANGED <<files, entries, durable, acked>>

\* A call fails and the writer raises, or the writer is killed: the entry is
\* the old one before os.replace, the new one after it.
Fails(w) ==
    /\ pc[w] # "idle"
    /\ Leave(w)
    /\ UNCHANGED <<files, entries, durable, acked>>

\* forget_pod_id and the like: Path.unlink, and no flush of the directory
Unlink ==
    /\ entries[Len(entries)] # Missing /\ Len(entries) <= MaxReplaces
    /\ entries' = Append(entries, Missing)
    /\ UNCHANGED <<writers, files, durable, acked>>

\* Data that was not flushed may survive in part, and the directory entry may
\* be any since the last one flushed.
PowerLoss ==
    /\ pc' = [w \in Writers |-> "idle"]
    /\ temp' = [w \in Writers |-> Missing]
    /\ mine' = [w \in Writers |-> 0]
    /\ written' \in {kept \in [Inodes -> 0 .. Size] :
                        \A i \in Inodes : kept[i] \in safe[i] .. written[i]}
    /\ safe' = written'
    /\ durable' \in durable .. Len(entries)
    /\ entries' = SubSeq(entries, 1, durable')
    /\ UNCHANGED <<content, acked>>

Next ==
    \/ \E w \in Writers : \/ Begin(w) \/ Write(w) \/ Fsync(w) \/ Rename(w)
                          \/ SyncDirectory(w) \/ SkipDirectory(w) \/ Fails(w)
    \/ Unlink
    \/ PowerLoss

Spec == Init /\ [][Next]_vars
-----------------------------------------------------------------------------
\* atomic_write_private "durable": the change of a write that has returned,
\* and could flush the directory, is never undone by a power loss.
AcknowledgedSurvives == acked <= durable

\* the content of file i, given how many bytes of it there are
Image(i, bytes) ==
    IF i = Missing THEN Missing ELSE IF bytes[i] = Size THEN content[i] ELSE Torn

Register == INSTANCE DurableFile WITH
                value <- Image(entries[Len(entries)], written),
                possible <- {Image(entries[k], safe) : k \in durable .. Len(entries)}

\* atomic_write_private "atomically replace": readers and a restart after a
\* power loss see one of the contents written, whole, and never an older one
\* than the last flushed.
ImplementsDurableFile == Register!Spec
=============================================================================
