----------------------------- MODULE FileCache -----------------------------
(***************************************************************************)
(* FileCacheDevice (internal/cache/file_cache.go): a map from keys to      *)
(* values that is kept in memory and in one file.  Set reads the file,     *)
(* changes one key and replaces the file through a temporary name; Get     *)
(* answers from memory and changes nothing.  The mutex of a device orders  *)
(* the calls of one process; nothing orders those of two processes (or two *)
(* devices) that share the file, and a process may end anywhere.           *)
(*                                                                         *)
(* A file is an inode: an open descriptor goes on writing to it whatever   *)
(* name it has by then.  Its content is a whole map, Empty after it was    *)
(* truncated, or Torn when it cannot be parsed.                            *)
(***************************************************************************)
EXTENDS FiniteSets, Integers

CONSTANTS Processes, Keys, Values,
          Absent,        \* a key without value, a name without file, no descriptor
          Empty, Torn    \* contents that are not a map

Maps      == [Keys -> Values \union {Absent}]
NoEntries == [k \in Keys |-> Absent]

\* File, temporary file, and one descriptor per process on a file of neither name.
Inodes == 1 .. Cardinality(Processes) + 2

ASSUME FileCacheAssumption ==
  /\ IsFiniteSet(Processes)
  /\ Absent \notin Values \union Inodes
  /\ Empty # Torn /\ {Empty, Torn} \intersect Maps = {}

VARIABLES
  content,   \* content[i]: of inode i
  file,      \* the inode named filePath, or Absent
  tmp,       \* the inode named filePath + ".tmp", or Absent
  pc,        \* pc[p]: down, idle, or the next step of its Set
  store,     \* store[p]: the map in memory
  fd,        \* fd[p]: the inode it has open for writing, or Absent
  sets,      \* sets[p]: the key and value of its Set
  accept,    \* accept[k]: what the file may hold for k: the last value set, and
             \* those whose Set is under way, was cut short or could not write
  behind,    \* behind[p]: keys that another process has set since p last read
  clean,     \* processes in a Set that no other Set has overlapped
  mixed      \* Sets overlapped and none has been clean since

fileVars == <<content, file, tmp, pc, store, fd, sets, accept, behind, clean, mixed>>

NoSet == [key |-> Absent, value |-> Absent]

FileInit ==
  /\ content = [i \in Inodes |-> Empty]
  /\ file = Absent /\ tmp = Absent
  /\ pc = [p \in Processes |-> "down"]
  /\ store = [p \in Processes |-> NoEntries]
  /\ fd = [p \in Processes |-> Absent]
  /\ sets = [p \in Processes |-> NoSet]
  /\ accept = [k \in Keys |-> {Absent}]
  /\ behind = [p \in Processes |-> {}]
  /\ clean = {} /\ mixed = FALSE

InSet(p) == pc[p] \in {"open", "write", "rename"}
Alone(p) == \A q \in Processes \ {p} : ~InSet(q)

Readable == file # Absent /\ content[file] \in Maps

-----------------------------------------------------------------------------
\* readFileLocked: m stays where there is no file or none that can be parsed.
ReadFileLocked(m) == IF Readable THEN content[file] ELSE m

NewFileCacheDevice(p) ==
  /\ pc[p] = "down"
  /\ pc' = [pc EXCEPT ![p] = "idle"]
  /\ store' = [store EXCEPT ![p] = ReadFileLocked(NoEntries)]
  /\ behind' = [behind EXCEPT ![p] = {}]
  /\ UNCHANGED <<content, file, tmp, fd, sets, accept, clean, mixed>>

\* A plausible slip: the file is read once, when the device is made.
SetInMemory(p, k, v) == [store[p] EXCEPT ![k] = v]

\* A plausible slip: the value is put into the map before the file is read.
SetThenRead(p, k, v) == ReadFileLocked([store[p] EXCEPT ![k] = v])

Updated(p, k, v) == [ReadFileLocked(store[p]) EXCEPT ![k] = v]

\* Set up to writeFileLocked.  A Set that overlaps another one may lose
\* whatever the other one writes.
Set(p, k, v) ==
  /\ pc[p] = "idle"
  /\ pc' = [pc EXCEPT ![p] = "open"]
  /\ store' = [store EXCEPT ![p] = Updated(p, k, v)]
  /\ sets' = [sets EXCEPT ![p] = [key |-> k, value |-> v]]
  /\ behind' = [behind EXCEPT ![p] = {}]
  /\ IF Alone(p)
     THEN /\ accept' = [accept EXCEPT ![k] = @ \union {v}]
          /\ clean' = {p} /\ UNCHANGED mixed
     ELSE /\ accept' = [j \in Keys |-> Values \union {Absent}]
          /\ clean' = {} /\ mixed' = TRUE
  /\ UNCHANGED <<content, file, tmp, fd>>

-----------------------------------------------------------------------------
Unused == CHOOSE i \in Inodes : i \notin {file, tmp} \union {fd[p] : p \in Processes}

\* A plausible slip: the file is written in place.
OpenFile(p) ==
  LET i == IF file = Absent THEN Unused ELSE file
  IN  file' = i /\ content' = [content EXCEPT ![i] = Empty]
      /\ fd' = [fd EXCEPT ![p] = i] /\ UNCHANGED tmp

\* os.WriteFile creates or truncates the temporary file ...
OpenTmp(p) ==
  LET i == IF tmp = Absent THEN Unused ELSE tmp
  IN  tmp' = i /\ content' = [content EXCEPT ![i] = Empty]
      /\ fd' = [fd EXCEPT ![p] = i] /\ UNCHANGED file

OpenForWriting(p) ==
  /\ pc[p] = "open"
  /\ pc' = [pc EXCEPT ![p] = "write"]
  /\ OpenTmp(p)
  /\ UNCHANGED <<store, sets, accept, behind, clean, mixed>>

\* ... and writes from the start of it: over an Empty one the map, over what
\* another process wrote meanwhile the map too, or a mixture if that was longer.
Write(p) ==
  LET i == fd[p]
  IN  /\ pc[p] = "write"
      /\ pc' = [pc EXCEPT ![p] = "rename"]
      /\ \E c \in {store[p]} \union (IF content[i] = Empty THEN {} ELSE {Torn}) :
           content' = [content EXCEPT ![i] = c]
      /\ fd' = [fd EXCEPT ![p] = Absent]
      /\ UNCHANGED <<file, tmp, store, sets, accept, behind, clean, mixed>>

\* Set returns.  A clean one that replaced the file leaves its value and no
\* other for its key.
Returns(p, replaced) ==
  LET k == sets[p].key
  IN  /\ pc' = [pc EXCEPT ![p] = "idle"]
      /\ sets' = [sets EXCEPT ![p] = NoSet]
      /\ fd' = [fd EXCEPT ![p] = Absent]
      /\ behind' = [q \in Processes |-> IF q = p THEN {} ELSE behind[q] \union {k}]
      /\ clean' = clean \ {p}
      /\ IF replaced /\ p \in clean
         THEN accept' = [accept EXCEPT ![k] = {sets[p].value}] /\ mixed' = FALSE
         ELSE UNCHANGED <<accept, mixed>>

\* os.Rename: the file that had the name is gone.  Without a temporary file it
\* fails and the error is ignored.
Rename(p) ==
  /\ pc[p] = "rename"
  /\ IF tmp = Absent
     THEN UNCHANGED <<content, file, tmp>>
     ELSE /\ file' = tmp /\ tmp' = Absent
          /\ content' = [i \in Inodes |-> IF i = file THEN Empty ELSE content[i]]
  /\ Returns(p, tmp # Absent)
  /\ UNCHANGED store

\* The errors of MkdirAll, WriteFile and Rename are dropped; a write that
\* fails may have got as far as a part of the map.
WriteFails(p) ==
  /\ InSet(p)
  /\ \/ UNCHANGED content
     \/ pc[p] = "write" /\ content' = [content EXCEPT ![fd[p]] = Torn]
  /\ Returns(p, FALSE)
  /\ UNCHANGED <<file, tmp, store>>

\* The process ends, in the middle of a write or anywhere else.
Crash(p) ==
  /\ pc[p] # "down"
  /\ pc' = [pc EXCEPT ![p] = "down"]
  /\ store' = [store EXCEPT ![p] = NoEntries]
  /\ fd' = [fd EXCEPT ![p] = Absent]
  /\ sets' = [sets EXCEPT ![p] = NoSet]
  /\ behind' = [behind EXCEPT ![p] = {}]
  /\ clean' = clean \ {p}
  /\ \/ UNCHANGED content
     \/ pc[p] = "write" /\ content' = [content EXCEPT ![fd[p]] = Torn]
  /\ UNCHANGED <<file, tmp, accept, mixed>>

FileNext ==
  \E p \in Processes :
    \/ NewFileCacheDevice(p)
    \/ \E k \in Keys, v \in Values : Set(p, k, v)
    \/ OpenForWriting(p)
    \/ Write(p)
    \/ Rename(p)
    \/ WriteFails(p)
    \/ Crash(p)

FileSpec == FileInit /\ [][FileNext]_fileVars

-----------------------------------------------------------------------------
(***************************************************************************)
(* writeFileLocked replaces the file as a whole: wherever a process ends   *)
(* or a write fails, the file can be parsed.  Only Sets of two processes   *)
(* at the same time may leave one that cannot, and the next Set on its own *)
(* repairs it.                                                             *)
(***************************************************************************)
FileIntact == file # Absent => Readable \/ mixed

(***************************************************************************)
(* Set changes its own key only: the file holds the last value set for     *)
(* every key, by whichever process, except for a Set that was cut short or *)
(* could not write, and except for Sets that overlapped.                   *)
(***************************************************************************)
UpdatesKept ==
  \A k \in Keys :
    /\ file = Absent => Absent \in accept[k]
    /\ Readable => content[file][k] \in accept[k]

(***************************************************************************)
(* Get answers with the last value set, as long as no other process has    *)
(* set the key since this one last read the file, also after a restart.    *)
(***************************************************************************)
GetsLatest ==
  \A p \in Processes, k \in Keys :
    pc[p] # "down" /\ k \notin behind[p] => store[p][k] \in accept[k]
=============================================================================
