---------------------------- MODULE SnapshotFile ----------------------------
(***************************************************************************)
(* write_cache_file and read_cache_file of domains/fx_provider.rs at the   *)
(* granularity of system calls: create the temporary file, write it, sync  *)
(* and close it, rename it over the cache file.  A writer is a provider:   *)
(* its single flight runs one write_cache_file at a time.  The temporary   *)
(* name holds the id of the process, so writers of one process share it.   *)
(* Names refer to inodes, because an open file keeps its inode when        *)
(* another writer truncates or renames it.                                 *)
(***************************************************************************)
EXTENDS Naturals, FiniteSets

CONSTANTS
    Writers,            \* rate providers
    Processes,          \* process ids
    ProcessOf,          \* the process of a writer
    Inodes, NoInode,
    Snapshots, NoText,  \* complete contents: a CachedRateTable as JSON
    Torn,               \* empty, partial or overlaid content, or a v1 file: does not parse
    Binary,             \* content read_to_string fails on (not UTF-8, not readable)
    Missing             \* there is no file

VARIABLES
    dir,        \* per file name: its inode or NoInode
    content,    \* per inode: what the file holds
    fd,         \* per writer: the inode of its open file or NoInode
    text        \* per writer: the JSON it is writing or NoText

fileVars == <<dir, content, fd, text>>

ASSUME FileAssumption ==
    /\ ProcessOf \in [Writers -> Processes]
    /\ NoInode \notin Inodes
    /\ NoText \notin Snapshots
    /\ {Torn, Binary, Missing} \cap Snapshots = {}
    /\ "cache" \notin Processes

Contents == Snapshots \cup {Torn, Binary}
Names    == {"cache"} \cup Processes

\* Mutant: the file is written in place.
TempInPlace(w) == "cache"
Temp(w) == ProcessOf[w]

Idle(w) == text[w] = NoText
Open(w) == ~Idle(w) /\ fd[w] # NoInode
Full(w) == ~Idle(w) /\ fd[w] = NoInode

Referenced == {dir[f] : f \in Names} \cup {fd[w] : w \in Writers}
Free       == Inodes \ Referenced

FileContent == IF dir["cache"] = NoInode THEN Missing ELSE content[dir["cache"]]

\* An earlier version, or a disk error, may have left the cache file damaged.
FileInit ==
    /\ content \in [Inodes -> Contents]
    /\ \E n \in Inodes \cup {NoInode} :
          /\ dir = [f \in Names |-> IF f = "cache" THEN n ELSE NoInode]
          /\ \A m \in Inodes \ {n} : content[m] = Torn
    /\ fd = [w \in Writers |-> NoInode]
    /\ text = [w \in Writers |-> NoText]
-----------------------------------------------------------------------------
\* The JSON is built, then File::create truncates the file of the temporary
\* name or makes a new one.  (When it fails, nothing has happened.)
Create(w, s) ==
    /\ Idle(w)
    /\ \E n \in IF dir[Temp(w)] # NoInode THEN {dir[Temp(w)]} ELSE Free :
          /\ dir' = [dir EXCEPT ![Temp(w)] = n]
          /\ content' = [content EXCEPT ![n] = Torn]
          /\ fd' = [fd EXCEPT ![w] = n]
    /\ text' = [text EXCEPT ![w] = s]

\* write_all and sync_all; the file is closed at the end of its block.  Over
\* what another writer has put into the same inode a shorter text leaves a tail.
WriteTemp(w) ==
    /\ Open(w)
    /\ \E c \in IF content[fd[w]] = Torn THEN {text[w]} ELSE {text[w], Torn} :
           content' = [content EXCEPT ![fd[w]] = c]
    /\ fd' = [fd EXCEPT ![w] = NoInode]
    /\ UNCHANGED <<dir, text>>

\* `?` on write_all: the temporary file stays behind.
\* Mutant: so does the open file.
WriteTempFailsOpen(w) ==
    /\ Open(w)
    /\ text' = [text EXCEPT ![w] = NoText]
    /\ UNCHANGED <<dir, content, fd>>
WriteTempFails(w) ==
    /\ Open(w)
    /\ fd' = [fd EXCEPT ![w] = NoInode]
    /\ text' = [text EXCEPT ![w] = NoText]
    /\ UNCHANGED <<dir, content>>

\* rename takes whatever now has the temporary name; when nothing has it, or
\* the call is refused, the temporary file is removed, if that works, and the
\* error returned.
Rename(w) ==
    /\ Full(w)
    /\ \/ /\ dir[Temp(w)] # NoInode
          /\ dir' = [dir EXCEPT !["cache"] = dir[Temp(w)], ![Temp(w)] = NoInode]
       \/ dir' \in {dir, [dir EXCEPT ![Temp(w)] = NoInode]}
    /\ text' = [text EXCEPT ![w] = NoText]
    /\ UNCHANGED <<content, fd>>

\* The process ends: its files are closed and stay where they are.
KillWriters(p) ==
    /\ fd' = [w \in Writers |-> IF ProcessOf[w] = p THEN NoInode ELSE fd[w]]
    /\ text' = [w \in Writers |-> IF ProcessOf[w] = p THEN NoText ELSE text[w]]
    /\ UNCHANGED <<dir, content>>

Proceed(w) == WriteTemp(w) \/ WriteTempFails(w) \/ Rename(w)

FileNext ==
    \/ \E w \in Writers : Proceed(w) \/ \E s \in Snapshots : Create(w, s)
    \/ \E p \in Processes : KillWriters(p)

FileSpec == FileInit /\ [][FileNext]_fileVars /\ \A w \in Writers : WF_fileVars(Proceed(w))
-----------------------------------------------------------------------------
\* Types of all variables, and only a writer at work has an open file.
FileTypeOK ==
    /\ dir \in [Names -> Inodes \cup {NoInode}]
    /\ content \in [Inodes -> Contents]
    /\ fd \in [Writers -> Inodes \cup {NoInode}]
    /\ text \in [Writers -> Snapshots \cup {NoText}]
    /\ \A w \in Writers : Idle(w) => fd[w] = NoInode

\* The comment in write_cache_file ("atomic write: temp file + rename, no
\* concurrent reader sees a torn write"): the cache file only ever changes into
\* a complete snapshot, whoever writes, fails or is killed in between.
AtomicReplace == [][FileContent' # FileContent => FileContent' \in Snapshots]_fileVars

\* No two writers have the same temporary name: one provider per process.
TempNamesDistinct == \A v, w \in Writers : v # w => Temp(v) # Temp(w)

FilePromised == INSTANCE FilePromise WITH file <- FileContent, Damaged <- {Torn, Binary, Missing}

\* The system calls implement the promise of one atomic replacement.
ImplementsFilePromise == FilePromised!Spec
=============================================================================
