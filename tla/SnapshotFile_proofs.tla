------------------------ MODULE SnapshotFile_proofs ------------------------
(***************************************************************************)
(* What TLAPS proves of SnapshotFile for any number of writers, processes, *)
(* inodes and snapshots: the types in every case, and, when no two         *)
(* providers share a temporary name, that the cache file is replaced in    *)
(* one step.                                                               *)
(***************************************************************************)
EXTENDS SnapshotFile, TLAPS

-----------------------------------------------------------------------------
(* Types                                                                   *)

\* Every system call, failure and kill keeps the types, and leaves an idle
\* writer without an open file.
LEMMA FileTypeInductive ==
    ASSUME FileTypeOK, [FileNext]_fileVars
    PROVE  FileTypeOK'
<1> USE FileAssumption DEF FileAssumption, FileTypeOK, Names, Contents, Idle, Open, Full, Temp
<1>1. ASSUME NEW w \in Writers, NEW s \in Snapshots, Create(w, s)
      PROVE  FileTypeOK'
  BY <1>1 DEF Create, Free
<1>2. ASSUME NEW w \in Writers, WriteTemp(w)
      PROVE  FileTypeOK'
  BY <1>2 DEF WriteTemp
<1>3. ASSUME NEW w \in Writers, WriteTempFails(w)
      PROVE  FileTypeOK'
  BY <1>3 DEF WriteTempFails
<1>4. ASSUME NEW w \in Writers, Rename(w)
      PROVE  FileTypeOK'
  BY <1>4 DEF Rename
<1>5. ASSUME NEW p \in Processes, KillWriters(p)
      PROVE  FileTypeOK'
  BY <1>5 DEF KillWriters
<1>6. CASE UNCHANGED fileVars
  BY <1>6 DEF fileVars
<1> QED BY <1>1, <1>2, <1>3, <1>4, <1>5, <1>6 DEF FileNext, Proceed

\* FileTypeOK holds for any assignment of providers to processes.
THEOREM FileTypeCorrect == FileSpec => []FileTypeOK
<1>1. FileInit => FileTypeOK
  BY FileAssumption DEF FileAssumption, FileInit, FileTypeOK, Names, Contents, Idle
<1> QED BY <1>1, FileTypeInductive, PTL DEF FileSpec

-----------------------------------------------------------------------------
(* Who owns what                                                           *)

\* No two names lead to one inode.
NamesApart ==
    \A f, g \in Names : dir[f] = dir[g] /\ dir[f] # NoInode => f = g

\* The temporary name of a writer at work leads to its own file: empty while
\* it is open, and holding all of its text once it is closed.
OwnsTemp ==
    /\ \A w \in Writers : Open(w) => dir[Temp(w)] = fd[w] /\ content[fd[w]] = Torn
    /\ \A w \in Writers : Full(w) => dir[Temp(w)] # NoInode /\ content[dir[Temp(w)]] = text[w]

Ownership == NamesApart /\ OwnsTemp

\* The temporary names are names, and none is that of the cache file.
LEMMA TempIsName == \A w \in Writers : Temp(w) \in Names /\ Temp(w) # "cache"
  BY FileAssumption DEF FileAssumption, Temp, Names

\* With distinct temporary names every step keeps the ownership.
LEMMA OwnershipInductive ==
    ASSUME TempNamesDistinct, FileTypeOK, FileTypeOK', Ownership, [FileNext]_fileVars
    PROVE  Ownership'
<1> USE TempIsName, FileAssumption DEF FileAssumption, Ownership
<1>c. "cache" \in Names
  BY DEF Names
<1>1. ASSUME NEW w \in Writers, NEW s \in Snapshots, Create(w, s)
      PROVE  Ownership'
  <2>1. PICK n \in IF dir[Temp(w)] # NoInode THEN {dir[Temp(w)]} ELSE Free :
              /\ dir' = [dir EXCEPT ![Temp(w)] = n]
              /\ content' = [content EXCEPT ![n] = Torn]
              /\ fd' = [fd EXCEPT ![w] = n]
    BY <1>1 DEF Create
  <2>2. /\ n \in Inodes
        /\ \A f \in Names : dir[f] = n => f = Temp(w)
    BY <2>1, FileTypeOK DEF Free, Referenced, NamesApart, FileTypeOK
  <2>3. NamesApart'
    BY <2>1, <2>2 DEF NamesApart, FileTypeOK
  <2>4. text' = [text EXCEPT ![w] = s] /\ Idle(w)
    BY <1>1 DEF Create
  <2>5. ASSUME NEW v \in Writers, v # w
        PROVE  /\ dir'[Temp(v)] = dir[Temp(v)] /\ dir[Temp(v)] # n
               /\ fd'[v] = fd[v] /\ text'[v] = text[v]
    BY <2>1, <2>2, <2>4, <2>5, TempNamesDistinct DEF TempNamesDistinct, FileTypeOK
  <2>6. Temp(w)' = Temp(w) /\ \A v \in Writers : Temp(v)' = Temp(v)
    BY DEF Temp
  <2>7. fd'[w] = n /\ dir'[Temp(w)] = n /\ content'[n] = Torn /\ n # NoInode
    BY <2>1, <2>2 DEF FileTypeOK
  <2>8. \A m \in Inodes : m # n => content'[m] = content[m]
    BY <2>1 DEF FileTypeOK
  <2>9. OwnsTemp'
    BY <2>5, <2>6, <2>7, <2>8 DEF OwnsTemp, Open, Full, Idle, FileTypeOK
  <2> QED BY <2>3, <2>9
<1>2. ASSUME NEW w \in Writers, WriteTemp(w)
      PROVE  Ownership'
  <2>1. content[fd[w]] = Torn /\ dir[Temp(w)] = fd[w] /\ fd[w] \in Inodes
    BY <1>2 DEF WriteTemp, OwnsTemp, Open, FileTypeOK
  <2>2. /\ content' = [content EXCEPT ![fd[w]] = text[w]]
        /\ fd' = [fd EXCEPT ![w] = NoInode] /\ UNCHANGED <<dir, text>>
    BY <1>2, <2>1 DEF WriteTemp
  <2>3. NamesApart'
    BY <2>2 DEF NamesApart
  <2>4. ASSUME NEW v \in Writers, v # w
        PROVE  dir[Temp(v)] # fd[w]
    BY <2>1, <2>4, TempNamesDistinct DEF TempNamesDistinct, NamesApart
  <2>5. \A v \in Writers : Temp(v)' = Temp(v)
    BY DEF Temp
  <2>6. \A m \in Inodes : m # fd[w] => content'[m] = content[m]
    BY <2>2 DEF FileTypeOK
  <2>7. content'[fd[w]] = text[w] /\ fd'[w] = NoInode /\ \A v \in Writers \ {w} : fd'[v] = fd[v]
    BY <2>1, <2>2 DEF FileTypeOK
  <2>8. OwnsTemp'
    BY <2>1, <2>2, <2>4, <2>5, <2>6, <2>7 DEF OwnsTemp, Open, Full, Idle, FileTypeOK
  <2> QED BY <2>3, <2>8
<1>3. ASSUME NEW w \in Writers, WriteTempFails(w)
      PROVE  Ownership'
  BY <1>3 DEF WriteTempFails, NamesApart, OwnsTemp, Open, Full, Idle, FileTypeOK, Temp
<1>4. ASSUME NEW w \in Writers, Rename(w)
      PROVE  Ownership'
  <2>1. \A v \in Writers : Temp(v)' = Temp(v)
    BY DEF Temp
  <2>2. /\ text' = [text EXCEPT ![w] = NoText] /\ UNCHANGED <<content, fd>> /\ Full(w)
        /\ \/ dir' = [dir EXCEPT !["cache"] = dir[Temp(w)], ![Temp(w)] = NoInode]
           \/ dir' = dir
           \/ dir' = [dir EXCEPT ![Temp(w)] = NoInode]
    BY <1>4 DEF Rename
  <2>3. NamesApart'
    BY <2>2, <1>c DEF NamesApart, FileTypeOK
  <2>4. ASSUME NEW v \in Writers, v # w
        PROVE  dir'[Temp(v)] = dir[Temp(v)] /\ text'[v] = text[v]
    BY <2>2, <2>4, TempNamesDistinct DEF TempNamesDistinct, FileTypeOK
  <2>5. text'[w] = NoText
    BY <2>2 DEF FileTypeOK
  <2>6. OwnsTemp'
    BY <2>1, <2>2, <2>4, <2>5 DEF OwnsTemp, Open, Full, Idle
  <2> QED BY <2>3, <2>6
<1>5. ASSUME NEW p \in Processes, KillWriters(p)
      PROVE  Ownership'
  BY <1>5 DEF KillWriters, NamesApart, OwnsTemp, Open, Full, Idle, FileTypeOK, Temp
<1>6. CASE UNCHANGED fileVars
  BY <1>6 DEF fileVars, NamesApart, OwnsTemp, Open, Full, Idle, Temp
<1> QED BY <1>1, <1>2, <1>3, <1>4, <1>5, <1>6 DEF FileNext, Proceed

\* The ownership is always as described.
LEMMA OwnershipCorrect == TempNamesDistinct => (FileSpec => []Ownership)
<1> SUFFICES ASSUME TempNamesDistinct PROVE FileSpec => []Ownership
  OBVIOUS
<1>1. FileInit => Ownership
  BY DEF FileInit, Ownership, NamesApart, OwnsTemp, Open, Full, Idle, Names
<1>2. FileTypeOK /\ FileTypeOK' /\ Ownership /\ [FileNext]_fileVars => Ownership'
  BY OwnershipInductive
<1> QED BY <1>1, <1>2, FileTypeCorrect, PTL DEF FileSpec

-----------------------------------------------------------------------------
(* The promise                                                             *)

\* What each step does to the cache file and to the texts of the writers.
LEMMA StepOnFile ==
    ASSUME TempNamesDistinct, FileTypeOK, Ownership, [FileNext]_fileVars
    PROVE  \/ \E w \in Writers, s \in Snapshots :
                 Idle(w) /\ FileContent' = FileContent /\ text' = [text EXCEPT ![w] = s]
           \/ \E w \in Writers :
                 /\ ~Idle(w) /\ FileContent' \in {FileContent, text[w]}
                 /\ text' = [text EXCEPT ![w] = NoText]
           \/ \E p \in Processes :
                 /\ FileContent' = FileContent
                 /\ text' = [w \in Writers |-> IF ProcessOf[w] = p THEN NoText ELSE text[w]]
           \/ FileContent' = FileContent /\ text' = text
<1> USE TempIsName, FileAssumption DEF FileAssumption, Ownership
<1>c. "cache" \in Names
  BY DEF Names
<1>1. ASSUME NEW w \in Writers, NEW s \in Snapshots, Create(w, s)
      PROVE  Idle(w) /\ FileContent' = FileContent /\ text' = [text EXCEPT ![w] = s]
  <2>1. PICK n \in IF dir[Temp(w)] # NoInode THEN {dir[Temp(w)]} ELSE Free :
              /\ dir' = [dir EXCEPT ![Temp(w)] = n]
              /\ content' = [content EXCEPT ![n] = Torn]
    BY <1>1 DEF Create
  <2>2. n # dir["cache"] /\ dir'["cache"] = dir["cache"]
    BY <2>1, <1>c DEF Free, Referenced, NamesApart, FileTypeOK
  <2> QED BY <1>1, <1>c, <2>1, <2>2 DEF Create, FileContent, FileTypeOK
<1>2. ASSUME NEW w \in Writers, WriteTemp(w)
      PROVE  FileContent' = FileContent /\ text' = text
  <2>1. dir[Temp(w)] = fd[w] /\ fd[w] # NoInode
    BY <1>2 DEF WriteTemp, OwnsTemp, Open
  <2>2. fd[w] # dir["cache"]
    BY <2>1, <1>c DEF NamesApart
  <2>3. PICK c : content' = [content EXCEPT ![fd[w]] = c]
    BY <1>2 DEF WriteTemp
  <2> QED BY <1>2, <1>c, <2>2, <2>3 DEF WriteTemp, FileContent, FileTypeOK
<1>3. ASSUME NEW w \in Writers, WriteTempFails(w)
      PROVE  ~Idle(w) /\ FileContent' = FileContent /\ text' = [text EXCEPT ![w] = NoText]
  BY <1>3 DEF WriteTempFails, FileContent, Open
<1>4. ASSUME NEW w \in Writers, Rename(w)
      PROVE  /\ ~Idle(w) /\ FileContent' \in {FileContent, text[w]}
             /\ text' = [text EXCEPT ![w] = NoText]
  <2>1. content[dir[Temp(w)]] = text[w] /\ dir[Temp(w)] # NoInode
    BY <1>4 DEF Rename, OwnsTemp
  <2>2. dir'["cache"] \in {dir["cache"], dir[Temp(w)]} /\ content' = content
    BY <1>4, <1>c DEF Rename, FileTypeOK
  <2> QED BY <1>4, <2>1, <2>2 DEF Rename, FileContent, Full
<1>5. ASSUME NEW p \in Processes, KillWriters(p)
      PROVE  /\ FileContent' = FileContent
             /\ text' = [w \in Writers |-> IF ProcessOf[w] = p THEN NoText ELSE text[w]]
  BY <1>5 DEF KillWriters, FileContent
<1>6. CASE UNCHANGED fileVars
  BY <1>6 DEF fileVars, FileContent
<1> QED BY <1>1, <1>2, <1>3, <1>4, <1>5, <1>6 DEF FileNext, Proceed

\* AtomicReplace: with one provider per process, whatever fails or is killed
\* between the system calls, the cache file only changes into a complete
\* snapshot.
THEOREM AtomicReplaceCorrect == TempNamesDistinct => (FileSpec => AtomicReplace)
<1> SUFFICES ASSUME TempNamesDistinct PROVE FileSpec => AtomicReplace
  OBVIOUS
<1>1. ASSUME FileTypeOK, Ownership, [FileNext]_fileVars
      PROVE  [FileContent' # FileContent => FileContent' \in Snapshots]_fileVars
  BY <1>1, StepOnFile DEF FileTypeOK, Idle
<1> QED BY <1>1, FileTypeCorrect, OwnershipCorrect, PTL DEF FileSpec, AtomicReplace

\* The system calls implement FilePromise (its safety part): with one provider
\* per process every step of write_cache_file is a step of the promise or
\* leaves it alone.
THEOREM RefinesFilePromise ==
    TempNamesDistinct =>
        (FileSpec => FilePromised!Init /\ [][FilePromised!Next]_(FilePromised!promiseVars))
<1> SUFFICES ASSUME TempNamesDistinct
             PROVE  FileSpec => FilePromised!Init /\ [][FilePromised!Next]_(FilePromised!promiseVars)
  OBVIOUS
<1>1. FileInit => FilePromised!Init
  BY FileAssumption DEF FileInit, FilePromised!Init, FileContent, Contents, Names, FileAssumption
<1>2. ASSUME FileTypeOK, Ownership, [FileNext]_fileVars
      PROVE  [FilePromised!Next]_(FilePromised!promiseVars)
  <2>1. ASSUME NEW w \in Writers, NEW s \in Snapshots,
               Idle(w), FileContent' = FileContent, text' = [text EXCEPT ![w] = s]
        PROVE  FilePromised!Start(w, s)
    BY <2>1 DEF FilePromised!Start, Idle
  <2>2. ASSUME NEW w \in Writers, ~Idle(w), FileContent' \in {FileContent, text[w]},
               text' = [text EXCEPT ![w] = NoText]
        PROVE  FilePromised!Finish(w)
    BY <2>2 DEF FilePromised!Finish, Idle
  <2>3. ASSUME NEW p \in Processes, FileContent' = FileContent,
               text' = [w \in Writers |-> IF ProcessOf[w] = p THEN NoText ELSE text[w]]
        PROVE  FilePromised!Kill(p)
    BY <2>3 DEF FilePromised!Kill
  <2> QED BY <1>2, <2>1, <2>2, <2>3, StepOnFile
          DEF FilePromised!Next, FilePromised!promiseVars
<1> QED BY <1>1, <1>2, FileTypeCorrect, OwnershipCorrect, PTL DEF FileSpec
=============================================================================
