---------------------------- MODULE DeploymentProofs ----------------------------
(* What the lock of FileSync is worth, and why synchronized files are whole,   *)
(* for any number of processes, files, chunks and restarts; and then any       *)
(* number of upgrades and synchronizations of the same installation: what an   *)
(* upgrade that completes may rely on, and that the lock of the model files is *)
(* worth the same behind `upgrade` as behind `syncmodels`.                     *)
EXTENDS Deployment, FiniteSetTheorems, TLAPS

Places == Ended \union {"look", "lookLock", "probe", "probed", "acquire", "fetch", "write",
                        "cleanup", "cleanupFailed", "setup"}
Locked == {"probed", "fetch", "write"}

(* The lock a process holds is the one the path of its file names, unless the  *)
(* path was removed meanwhile.                                                 *)
HoldsItsFile ==
    \A p \in Procs : mine[p] # 0 => lockPath[file[p]] = mine[p] \/ file[p] \in unlinked

(* What a process has passed is on disk, and nothing is ever removed.          *)
FilesSeen ==
    \A p \in Procs :
        /\ \A f \in FileIds : f < file[p] => content[f] # absent
        /\ pc[p] \in {"lookLock", "probe", "probed", "write", "cleanup"} => content[file[p]] # absent
        /\ pc[p] \in {"setup", "done"} => \A f \in FileIds : content[f] # absent

(* A file that is not whole has a writer that has written all it has read: the *)
(* last that opened it.                                                        *)
LastWriter ==
    \A f \in FileIds :
        \/ content[f] \in {absent, Whole}
        \/ f \in cutFiles
        \/ \E p \in Procs : pc[p] = "write" /\ file[p] = f /\ 1 .. wrote[p] \subseteq content[f]

SyncInv == SyncTypeOK /\ HoldsItsFile /\ FilesSeen /\ LastWriter

----------------------------------------------------------------------------
LEMMA InodesArePositive == Inodes \subseteq Nat /\ 0 \notin Inodes
<1>1. Cardinality(Procs) \in Nat
  BY FS_CardinalityType, FileSyncAssumption
<1>2. Cardinality(Procs) + Files + 1 \in Nat
  BY <1>1, FileSyncAssumption
<1> QED
  BY <1>2 DEF Inodes

LEMMA FilesArePositive == 1 \in FileIds /\ FileIds \subseteq Nat /\ Files \in Nat
  BY FileSyncAssumption DEF FileIds

LEMMA EmptiedIsThere == {} # absent /\ {} \in {absent} \union SUBSET Whole
  BY DEF absent

(* TakeLock and DropLock keep each held inode with its one holder.             *)
LEMMA TakeLockKeeps ==
  ASSUME SyncTypeOK, HoldsItsFile, NEW p \in Procs, TakeLock(p), mine[p] = 0
  PROVE  /\ lockPath' \in [FileIds -> {0} \union Inodes]
         /\ holder' \in [Inodes -> Procs \union {Nobody}]
         /\ mine' \in [Procs -> {0} \union Inodes]
         /\ mine'[p] # 0 /\ \A q \in Procs \ {p} : mine'[q] = mine[q]
         /\ \A q \in Procs : mine'[q] # 0 => holder'[mine'[q]] = q
         /\ lockPath'[file[p]] = mine'[p]
         /\ \A q \in Procs \ {p} :
               mine[q] # 0 => lockPath'[file[q]] = mine[q] \/ file[q] \in unlinked
<1> DEFINE i == Openable(file[p])
<1>1. /\ i \in Inodes /\ holder[i] = Nobody
      /\ holder' = [holder EXCEPT ![i] = p]
      /\ lockPath' = [lockPath EXCEPT ![file[p]] = i]
      /\ mine' = [mine EXCEPT ![p] = i]
  BY DEF TakeLock
<1>2. lockPath[file[p]] # 0 => lockPath[file[p]] = i
  BY DEF Openable
<1>3. Nobody \notin Procs
  BY FileSyncAssumption
<1> HIDE DEF i
<1>4. i # 0
  BY <1>1, InodesArePositive
<1>5. \A q \in Procs : mine[q] # 0 => mine[q] # i /\ mine[q] \in Inodes
  BY <1>1, <1>3 DEF SyncTypeOK
<1>6. /\ lockPath' \in [FileIds -> {0} \union Inodes]
      /\ holder' \in [Inodes -> Procs \union {Nobody}]
      /\ mine' \in [Procs -> {0} \union Inodes]
      /\ mine'[p] # 0 /\ \A q \in Procs \ {p} : mine'[q] = mine[q]
      /\ lockPath'[file[p]] = mine'[p]
  BY <1>1, <1>4 DEF SyncTypeOK
<1>7. ASSUME NEW q \in Procs, mine'[q] # 0
      PROVE  holder'[mine'[q]] = q
  <2>1. CASE q = p
    BY <2>1, <1>1 DEF SyncTypeOK
  <2>2. CASE q # p
    BY <2>2, <1>1, <1>5, <1>7 DEF SyncTypeOK
  <2> QED BY <2>1, <2>2
<1>8. ASSUME NEW q \in Procs \ {p}, mine[q] # 0
      PROVE  lockPath'[file[q]] = mine[q] \/ file[q] \in unlinked
  <2>1. lockPath[file[q]] = mine[q] \/ file[q] \in unlinked
    BY <1>8 DEF HoldsItsFile
  <2>2. CASE lockPath[file[q]] = mine[q] /\ file[q] = file[p]
    BY <2>2, <1>2, <1>5, <1>8
  <2>3. CASE lockPath[file[q]] = mine[q] /\ file[q] # file[p]
    BY <2>3, <1>1 DEF SyncTypeOK
  <2> QED BY <2>1, <2>2, <2>3
<1> QED
  BY <1>6, <1>7, <1>8

LEMMA DropLockKeeps ==
  ASSUME SyncTypeOK, NEW p \in Procs, DropLock(p), mine[p] # 0
  PROVE  /\ holder' \in [Inodes -> Procs \union {Nobody}]
         /\ mine' \in [Procs -> {0} \union Inodes]
         /\ mine'[p] = 0 /\ \A q \in Procs \ {p} : mine'[q] = mine[q]
         /\ \A q \in Procs : mine'[q] # 0 => holder'[mine'[q]] = q
<1>1. /\ holder' = [holder EXCEPT ![mine[p]] = Nobody]
      /\ mine' = [mine EXCEPT ![p] = 0]
  BY DEF DropLock
<1>2. mine[p] \in Inodes /\ holder[mine[p]] = p
  BY DEF SyncTypeOK
<1>3. \A q \in Procs \ {p} : mine[q] # 0 => mine[q] # mine[p]
  BY DEF SyncTypeOK
<1> QED
  BY <1>1, <1>2, <1>3 DEF SyncTypeOK

(* NextFile leads on, and behind the last file only when all were passed.      *)
LEMMA NextFileKeeps ==
  ASSUME SyncTypeOK, NEW p \in Procs, NextFile(p)
  PROVE  /\ pc' \in [Procs -> Places] /\ file' \in [Procs -> FileIds]
         /\ pc'[p] \in {"look", "setup"}
         /\ \A q \in Procs \ {p} : pc'[q] = pc[q] /\ file'[q] = file[q]
         /\ \A f \in FileIds : f < file'[p] => f < file[p] \/ f = file[p]
         /\ pc'[p] = "setup" => \A f \in FileIds : f < file[p] \/ f = file[p]
<1>1. file[p] \in 1 .. Files /\ Files \in Nat
  BY FilesArePositive DEF SyncTypeOK, FileIds
<1>2. CASE file[p] < Files
  <2>1. pc' = [pc EXCEPT ![p] = "look"] /\ file' = [file EXCEPT ![p] = @ + 1]
    BY <1>2 DEF NextFile, Go
  <2>2. file[p] + 1 \in FileIds
    BY <1>1, <1>2 DEF FileIds
  <2>3. file'[p] = file[p] + 1 /\ pc'[p] = "look"
    BY <2>1 DEF SyncTypeOK
  <2>4. \A f \in FileIds : f < file[p] + 1 => f < file[p] \/ f = file[p]
    BY <1>1 DEF FileIds
  <2> QED BY <2>1, <2>2, <2>3, <2>4 DEF SyncTypeOK, Places, Ended
<1>3. CASE ~(file[p] < Files)
  <2>1. pc' = [pc EXCEPT ![p] = "setup"] /\ file' = file
    BY <1>3 DEF NextFile, Go
  <2>2. \A f \in FileIds : f < file[p] \/ f = file[p]
    BY <1>1, <1>3 DEF FileIds
  <2> QED BY <2>1, <2>2 DEF SyncTypeOK, Places, Ended
<1> QED
  BY <1>2, <1>3

(* Each action, for the type invariant.                                        *)
LEMMA TypeStep ==
  ASSUME SyncTypeOK, HoldsItsFile, FilesSeen, NEW p \in Procs, SyncStep(p) \/ Die(p)
  PROVE  SyncTypeOK'
<1> USE DEF SyncTypeOK, At, Go, Ended
<1>1. CASE Look(p)
  BY <1>1 DEF Look
<1>2. CASE LookLock(p)
  <2>1. CASE lockPath[file[p]] = 0
    <3>1. NextFile(p) /\ pc[p] = "lookLock"
      BY <1>2, <2>1 DEF LookLock
    <3>2. UNCHANGED <<content, lockPath, holder, wrote, mine, runs>>
      BY <1>2 DEF LookLock
    <3> QED BY <3>1, <3>2, NextFileKeeps DEF Places
  <2>2. CASE lockPath[file[p]] # 0
    BY <1>2, <2>2 DEF LookLock
  <2> QED BY <2>1, <2>2
<1>3. CASE Probe(p)
  <2>0. pc[p] = "probe" /\ mine[p] = 0 /\ UNCHANGED <<content, wrote, runs>>
    BY <1>3 DEF Probe
  <2>1. CASE TakeLock(p) /\ Go(p, "probed") /\ UNCHANGED file
    BY <2>0, <2>1, TakeLockKeeps
  <2>2. CASE NextFile(p) /\ UNCHANGED <<holder, lockPath, mine>>
    BY <2>0, <2>2, NextFileKeeps DEF Places
  <2> QED BY <1>3, <2>1, <2>2 DEF Probe
<1>4. CASE Probed(p)
  <2>1. pc[p] = "probed" /\ mine[p] # 0 /\ UNCHANGED <<content, lockPath, wrote, runs>>
    BY <1>4 DEF Probed
  <2>2. DropLock(p) /\ NextFile(p)
    BY <1>4 DEF Probed
  <2> QED BY <2>1, <2>2, DropLockKeeps, NextFileKeeps DEF Places
<1>5. CASE Acquire(p)
  <2>1. pc[p] = "acquire" /\ mine[p] = 0 /\ UNCHANGED <<content, file, wrote, runs>>
    BY <1>5 DEF Acquire
  <2>2. TakeLock(p) /\ pc' = [pc EXCEPT ![p] = "fetch"]
    BY <1>5 DEF Acquire
  <2> QED BY <2>1, <2>2, TakeLockKeeps
<1>6. CASE Fetch(p)
  <2>1. 0 \in 0 .. Chunks
    BY FileSyncAssumption
  <2> QED BY <1>6, <2>1, EmptiedIsThere DEF Fetch
<1>7. CASE WriteChunk(p)
  <2>1. wrote[p] \in 0 .. Chunks /\ wrote[p] < Chunks /\ Chunks \in Nat
    BY <1>7, FileSyncAssumption DEF WriteChunk
  <2>2. wrote[p] + 1 \in Whole /\ wrote[p] + 1 \in 0 .. Chunks
    BY <2>1 DEF Whole
  <2>3. content[file[p]] \in SUBSET Whole
    BY <1>7 DEF WriteChunk, FilesSeen
  <2>4. content[file[p]] \union {wrote[p] + 1} \in {absent} \union SUBSET Whole
    BY <2>2, <2>3
  <2> QED BY <1>7, <2>2, <2>4 DEF WriteChunk
<1>8. CASE Downloaded(p)
  <2>1. pc[p] = "write" /\ mine[p] # 0 /\ UNCHANGED <<content, lockPath, file, wrote, runs>>
    BY <1>8 DEF Downloaded
  <2>2. DropLock(p) /\ pc' = [pc EXCEPT ![p] = "cleanup"]
    BY <1>8 DEF Downloaded
  <2> QED BY <2>1, <2>2, DropLockKeeps
<1>9. CASE DownloadFails(p)
  <2>1. pc[p] \in {"fetch", "write"} /\ mine[p] # 0 /\ UNCHANGED <<content, lockPath, file, wrote, runs>>
    BY <1>9 DEF DownloadFails
  <2>2. DropLock(p) /\ pc' = [pc EXCEPT ![p] = "cleanupFailed"]
    BY <1>9 DEF DownloadFails
  <2> QED BY <2>1, <2>2, DropLockKeeps
<1>10. CASE Cleanup(p)
  <2>1. pc[p] = "cleanup" /\ NextFile(p) /\ UNCHANGED <<content, holder, wrote, mine, runs>>
    BY <1>10 DEF Cleanup
  <2>2. lockPath' \in [FileIds -> {0} \union Inodes]
    BY <1>10 DEF Cleanup, Unlink
  <2> QED BY <2>1, <2>2, NextFileKeeps DEF Places
<1>11. CASE CleanupFailed(p)
  BY <1>11 DEF CleanupFailed, Unlink
<1>12. CASE Setup(p)
  BY <1>12 DEF Setup
<1>13. CASE Die(p)
  <2>1. UNCHANGED <<content, lockPath, file, wrote, runs>> /\ pc' = [pc EXCEPT ![p] = "killed"]
    BY <1>13 DEF Die
  <2>2. CASE mine[p] = 0
    BY <1>13, <2>1, <2>2 DEF Die
  <2>3. CASE mine[p] # 0
    <3>1. DropLock(p)
      BY <1>13, <2>3 DEF Die
    <3> QED BY <2>1, <2>3, <3>1, DropLockKeeps
  <2> QED BY <2>2, <2>3
<1> QED
  BY <1>1, <1>2, <1>3, <1>4, <1>5, <1>6, <1>7, <1>8, <1>9, <1>10, <1>11, <1>12, <1>13 DEF SyncStep

(* The lock of every other process stays the one its path names, or the path   *)
(* is known to have been removed.                                              *)
LEMMA HoldsStep ==
  ASSUME SyncTypeOK, HoldsItsFile, NEW p \in Procs, SyncStep(p) \/ Die(p)
  PROVE  HoldsItsFile'
<1> USE DEF At, Go
<1>1. CASE UNCHANGED <<lockPath, mine, unlinked>> /\ (UNCHANGED file \/ (mine[p] = 0 /\ NextFile(p)))
  BY <1>1, NextFileKeeps DEF HoldsItsFile, SyncTypeOK
<1>2. CASE TakeLock(p) /\ mine[p] = 0 /\ UNCHANGED <<file, unlinked>>
  BY <1>2, TakeLockKeeps DEF HoldsItsFile
<1>3. CASE /\ DropLock(p) /\ mine[p] # 0 /\ UNCHANGED <<lockPath, unlinked>>
           /\ UNCHANGED file \/ NextFile(p)
  <2>1. mine'[p] = 0 /\ \A q \in Procs \ {p} : mine'[q] = mine[q] /\ file'[q] = file[q]
    BY <1>3, DropLockKeeps, NextFileKeeps
  <2> QED BY <1>3, <2>1 DEF HoldsItsFile
<1>4. CASE /\ Unlink(file[p]) /\ mine[p] = 0 /\ UNCHANGED <<mine, holder>>
           /\ UNCHANGED file \/ NextFile(p)
  <2> SUFFICES ASSUME NEW q \in Procs, mine'[q] # 0
               PROVE  lockPath'[file'[q]] = mine'[q] \/ file'[q] \in unlinked'
    BY DEF HoldsItsFile
  <2>1. q # p /\ mine[q] # 0 /\ mine'[q] = mine[q]
    BY <1>4
  <2>2. file'[q] = file[q]
    BY <1>4, <2>1, NextFileKeeps
  <2>3. lockPath[file[q]] = mine[q] \/ file[q] \in unlinked
    BY <2>1 DEF HoldsItsFile
  <2>4. unlinked \subseteq unlinked'
    BY <1>4 DEF Unlink
  <2>5. holder[mine[q]] = q /\ q # Nobody
    BY <2>1, FileSyncAssumption DEF SyncTypeOK
  <2>6. CASE lockPath[file[q]] = mine[q] /\ file[q] = file[p]
    <3>1. lockPath[file[p]] # 0 /\ holder[lockPath[file[p]]] # Nobody
      BY <2>1, <2>5, <2>6
    <3>2. file[p] \in unlinked'
      BY <1>4, <3>1 DEF Unlink
    <3> QED BY <2>2, <2>6, <3>2
  <2>7. CASE lockPath[file[q]] = mine[q] /\ file[q] # file[p]
    <3>1. lockPath'[file[q]] = lockPath[file[q]]
      BY <1>4, <2>7 DEF Unlink, SyncTypeOK
    <3> QED BY <2>1, <2>2, <2>7, <3>1
  <2> QED BY <2>2, <2>3, <2>4, <2>6, <2>7
<1>5. CASE Look(p) \/ LookLock(p) \/ Fetch(p) \/ WriteChunk(p) \/ Setup(p)
  <2>1. UNCHANGED <<lockPath, mine, unlinked>>
    BY <1>5 DEF Look, LookLock, Fetch, WriteChunk, Setup
  <2>2. UNCHANGED file \/ (mine[p] = 0 /\ NextFile(p))
    BY <1>5 DEF Look, LookLock, Fetch, WriteChunk, Setup, SyncTypeOK
  <2> QED BY <1>1, <2>1, <2>2
<1>6. CASE Probe(p)
  <2>1. mine[p] = 0
    BY <1>6 DEF Probe, SyncTypeOK
  <2> QED BY <1>1, <1>2, <1>6, <2>1 DEF Probe
<1>7. CASE Acquire(p)
  BY <1>2, <1>7 DEF Acquire, SyncTypeOK
<1>8. CASE Probed(p) \/ Downloaded(p) \/ DownloadFails(p)
  BY <1>3, <1>8 DEF Probed, Downloaded, DownloadFails, SyncTypeOK
<1>9. CASE Cleanup(p) \/ CleanupFailed(p)
  BY <1>4, <1>9 DEF Cleanup, CleanupFailed, SyncTypeOK
<1>10. CASE Die(p)
  BY <1>1, <1>3, <1>10 DEF Die
<1> QED
  BY <1>5, <1>6, <1>7, <1>8, <1>9, <1>10 DEF SyncStep

(* A file on disk stays on disk.                                               *)
LEMMA FilesStay ==
  ASSUME SyncTypeOK, NEW p \in Procs, SyncStep(p) \/ Die(p)
  PROVE  \A f \in FileIds : content[f] # absent => content'[f] # absent
<1>1. CASE Fetch(p)
  BY <1>1, EmptiedIsThere DEF Fetch, SyncTypeOK
<1>2. CASE WriteChunk(p)
  <2>1. wrote[p] + 1 # 0 /\ 0 \notin Whole
    BY FileSyncAssumption DEF SyncTypeOK, Whole
  <2>2. content' = [content EXCEPT ![file[p]] = @ \union {wrote[p] + 1}]
    BY <1>2 DEF WriteChunk
  <2> QED BY <2>1, <2>2 DEF SyncTypeOK, absent
<1>3. CASE UNCHANGED content
  BY <1>3
<1> QED
  BY <1>1, <1>2, <1>3 DEF SyncStep, Look, LookLock, Probe, Probed, Acquire, Downloaded,
     DownloadFails, Cleanup, CleanupFailed, Setup, Die

LEMMA SeenStep ==
  ASSUME SyncTypeOK, FilesSeen, NEW p \in Procs, SyncStep(p) \/ Die(p)
  PROVE  FilesSeen'
<1> USE DEF At, Go
<1> DEFINE Seen(q) ==
      /\ \A f \in FileIds : f < file[q] => content[f] # absent
      /\ pc[q] \in {"lookLock", "probe", "probed", "write", "cleanup"} => content[file[q]] # absent
      /\ pc[q] \in {"setup", "done"} => \A f \in FileIds : content[f] # absent
<1>1. \A q \in Procs : Seen(q)
  BY DEF FilesSeen
<1>2. ASSUME NEW q \in Procs \ {p}
      PROVE  Seen(q)'
  <2>1. pc'[q] = pc[q] /\ file'[q] = file[q] /\ file[q] \in FileIds
    BY NextFileKeeps DEF SyncStep, Look, LookLock, Probe, Probed, Acquire, Fetch, WriteChunk,
       Downloaded, DownloadFails, Cleanup, CleanupFailed, Setup, Die, SyncTypeOK
  <2> QED BY <1>1, <2>1, FilesStay
<1>3. CASE NextFile(p) /\ UNCHANGED content /\ content[file[p]] # absent
  <2>1. /\ pc'[p] \in {"look", "setup"}
        /\ \A f \in FileIds : f < file'[p] => f < file[p] \/ f = file[p]
        /\ pc'[p] = "setup" => \A f \in FileIds : f < file[p] \/ f = file[p]
    BY <1>3, NextFileKeeps
  <2>2. Seen(p)'
    BY <1>1, <1>3, <2>1
  <2> QED BY <1>2, <2>2 DEF FilesSeen
<1>4. CASE /\ file' = file
           /\ pc'[p] \in {"lookLock", "probe", "probed", "write", "cleanup"} => content'[file[p]] # absent
           /\ pc'[p] \in {"setup", "done"} => pc[p] = "setup"
  <2>1. Seen(p)'
    BY <1>1, <1>4, FilesStay
  <2> QED BY <1>2, <2>1 DEF FilesSeen
<1>5. CASE Look(p)
  BY <1>4, <1>5 DEF Look, SyncTypeOK
<1>6. CASE LookLock(p) \/ Probe(p) \/ Probed(p) \/ Cleanup(p)
  <2>1. content[file[p]] # absent /\ UNCHANGED content
    BY <1>1, <1>6 DEF LookLock, Probe, Probed, Cleanup
  <2>2. NextFile(p) \/ (file' = file /\ pc'[p] \in {"probe", "probed"})
    BY <1>6 DEF LookLock, Probe, Probed, Cleanup, SyncTypeOK
  <2> QED BY <1>3, <1>4, <2>1, <2>2
<1>7. CASE Acquire(p) \/ DownloadFails(p) \/ CleanupFailed(p) \/ Die(p)
  <2>1. file' = file /\ pc'[p] \in {"fetch", "cleanupFailed", "halted", "killed"}
    BY <1>7 DEF Acquire, DownloadFails, CleanupFailed, Die, SyncTypeOK
  <2> QED BY <1>4, <2>1
<1>8. CASE Fetch(p)
  <2>1. file' = file /\ pc'[p] = "write" /\ content'[file[p]] # absent
    BY <1>8, EmptiedIsThere DEF Fetch, SyncTypeOK
  <2> QED BY <1>4, <2>1
<1>9. CASE WriteChunk(p) \/ Downloaded(p)
  <2>1. file' = file /\ pc'[p] \in {"write", "cleanup"} /\ pc[p] = "write"
    BY <1>9 DEF WriteChunk, Downloaded, SyncTypeOK
  <2>2. content'[file[p]] # absent
    BY <1>1, <2>1, FilesStay DEF SyncTypeOK
  <2> QED BY <1>4, <2>1, <2>2
<1>10. CASE Setup(p)
  <2>1. file' = file /\ pc'[p] \in {"done", "halted"} /\ pc[p] = "setup"
    BY <1>10 DEF Setup, SyncTypeOK
  <2> QED BY <1>4, <2>1
<1> QED
  BY <1>5, <1>6, <1>7, <1>8, <1>9, <1>10 DEF SyncStep

(* The last writer of a file either leaves it whole or reports it cut short.   *)
LEMMA WriterStep ==
  ASSUME SyncTypeOK, FilesSeen, LastWriter, NEW p \in Procs, SyncStep(p) \/ Die(p)
  PROVE  LastWriter'
<1> USE DEF At, Go
<1> DEFINE Writer(q, f) == pc[q] = "write" /\ file[q] = f /\ 1 .. wrote[q] \subseteq content[f]
           Good(f) == content[f] \in {absent, Whole} \/ f \in cutFiles \/ \E q \in Procs : Writer(q, f)
<1>1. \A f \in FileIds : Good(f)
  BY DEF LastWriter
<1>2. \A q \in Procs \ {p} : pc'[q] = pc[q] /\ file'[q] = file[q] /\ wrote'[q] = wrote[q]
  BY NextFileKeeps DEF SyncStep, Look, LookLock, Probe, Probed, Acquire, Fetch, WriteChunk,
     Downloaded, DownloadFails, Cleanup, CleanupFailed, Setup, Die, SyncTypeOK
<1>3. file[p] \in FileIds
  BY DEF SyncTypeOK
<1>4. CASE pc[p] # "write" /\ UNCHANGED content /\ cutFiles \subseteq cutFiles'
  <2> SUFFICES ASSUME NEW f \in FileIds PROVE Good(f)'
    BY DEF LastWriter
  <2>1. Good(f)
    BY <1>1
  <2>2. \A q \in Procs : Writer(q, f) => q # p /\ Writer(q, f)'
    BY <1>2, <1>4
  <2> QED BY <1>4, <2>1, <2>2
<1>5. CASE Fetch(p)
  <2> SUFFICES ASSUME NEW f \in FileIds PROVE Good(f)'
    BY DEF LastWriter
  <2>1. pc[p] = "fetch" /\ pc'[p] = "write" /\ wrote'[p] = 0 /\ file'[p] = file[p] /\ cutFiles' = cutFiles
    BY <1>5 DEF Fetch, SyncTypeOK
  <2>2. CASE f = file[p]
    <3>1. 1 .. wrote'[p] \subseteq content'[f]
      BY <2>1
    <3> QED BY <2>1, <2>2, <3>1
  <2>3. CASE f # file[p]
    <3>1. content'[f] = content[f]
      BY <1>5, <2>3 DEF Fetch, SyncTypeOK
    <3>2. \A q \in Procs : Writer(q, f) => q # p /\ Writer(q, f)'
      BY <1>2, <2>1, <3>1
    <3> QED BY <1>1, <2>1, <3>1, <3>2
  <2> QED BY <2>2, <2>3
<1>6. CASE WriteChunk(p)
  <2> SUFFICES ASSUME NEW f \in FileIds PROVE Good(f)'
    BY DEF LastWriter
  <2>1. /\ pc[p] = "write" /\ pc'[p] = "write" /\ file'[p] = file[p] /\ cutFiles' = cutFiles
        /\ wrote'[p] = wrote[p] + 1 /\ wrote[p] \in Nat /\ wrote[p] + 1 \in Whole
    BY <1>6, FileSyncAssumption DEF WriteChunk, SyncTypeOK, Whole
  <2>2. CASE f = file[p]
    <3>1. content'[f] = content[f] \union {wrote[p] + 1}
      BY <1>6, <2>2 DEF WriteChunk, SyncTypeOK
    <3>2. content[f] # absent
      BY <2>1, <2>2 DEF FilesSeen
    <3>3. CASE content[f] = Whole
      <4>1. content'[f] = Whole
        BY <2>1, <3>1, <3>3
      <4> QED BY <4>1
    <3>4. CASE f \in cutFiles
      BY <2>1, <3>4
    <3>5. ASSUME NEW q \in Procs, Writer(q, f)
          PROVE  Writer(q, f)'
      <4>1. CASE q = p
        <5>1. 1 .. (wrote[p] + 1) \subseteq (1 .. wrote[p]) \union {wrote[p] + 1}
          BY <2>1
        <5> QED BY <2>1, <3>1, <3>5, <4>1, <5>1
      <4>2. CASE q # p
        BY <1>2, <3>1, <3>5, <4>2
      <4> QED BY <4>1, <4>2
    <3> QED BY <1>1, <3>2, <3>3, <3>4, <3>5
  <2>3. CASE f # file[p]
    <3>1. content'[f] = content[f]
      BY <1>6, <2>3 DEF WriteChunk, SyncTypeOK
    <3>2. \A q \in Procs : Writer(q, f) => q # p /\ Writer(q, f)'
      BY <1>2, <2>3, <3>1
    <3> QED BY <1>1, <2>1, <3>1, <3>2
  <2> QED BY <2>2, <2>3
<1>7. CASE /\ pc[p] = "write" /\ wrote[p] = Chunks /\ UNCHANGED <<content, file, wrote>>
           /\ \A f \in FileIds \ {file[p]} : f \in cutFiles => f \in cutFiles'
           /\ content[file[p]] = Whole \/ cutFiles \subseteq cutFiles'
  <2> SUFFICES ASSUME NEW f \in FileIds PROVE Good(f)'
    BY DEF LastWriter
  <2>1. Writer(p, f) => content[f] = Whole
    <3>1. content[f] \in {absent} \union SUBSET Whole
      BY DEF SyncTypeOK
    <3>2. Writer(p, f) => content[f] # absent
      BY DEF FilesSeen
    <3> QED BY <1>7, <3>1, <3>2 DEF Whole
  <2>2. \A q \in Procs : Writer(q, f) /\ q # p => Writer(q, f)'
    BY <1>2, <1>7
  <2>3. f \in cutFiles => f \in cutFiles' \/ content'[f] = Whole
    <3>1. CASE f = file[p]
      BY <1>7, <3>1
    <3>2. CASE f # file[p]
      BY <1>7, <3>2
    <3> QED BY <3>1, <3>2
  <2> QED BY <1>1, <1>7, <2>1, <2>2, <2>3
<1>8. CASE pc[p] = "write" /\ UNCHANGED <<content, file, wrote>> /\ cutFiles' = cutFiles \union {file[p]}
  <2> SUFFICES ASSUME NEW f \in FileIds PROVE Good(f)'
    BY DEF LastWriter
  <2>1. CASE f = file[p]
    BY <1>8, <2>1
  <2>2. CASE f # file[p]
    <3>1. \A q \in Procs : Writer(q, f) => Writer(q, f)'
      BY <1>2, <1>8, <2>2
    <3> QED BY <1>1, <1>8, <3>1
  <2> QED BY <2>1, <2>2
<1>9. CASE Downloaded(p)
  <2>1. /\ pc[p] = "write" /\ wrote[p] = Chunks /\ UNCHANGED <<content, file, wrote>>
        /\ cutFiles' = IF content[file[p]] = Whole THEN cutFiles \ {file[p]} ELSE cutFiles
    BY <1>9 DEF Downloaded
  <2> QED BY <1>7, <2>1
<1>10. CASE DownloadFails(p)
  <2>1. CASE pc[p] = "write"
    BY <1>8, <1>10, <2>1 DEF DownloadFails
  <2>2. CASE pc[p] = "fetch"
    BY <1>4, <1>10, <2>2 DEF DownloadFails
  <2> QED BY <1>10, <2>1, <2>2 DEF DownloadFails
<1>11. CASE Die(p)
  <2>1. UNCHANGED <<content, file, wrote>>
    BY <1>11 DEF Die
  <2>2. CASE pc[p] = "write" /\ wrote[p] < Chunks
    BY <1>8, <1>11, <2>1, <2>2 DEF Die
  <2>3. CASE pc[p] = "write" /\ ~(wrote[p] < Chunks)
    <3>1. wrote[p] = Chunks
      BY <2>3, FileSyncAssumption DEF SyncTypeOK
    <3>2. cutFiles' = cutFiles
      BY <1>11, <2>3 DEF Die
    <3> QED BY <1>7, <2>1, <2>3, <3>1, <3>2
  <2>4. CASE pc[p] # "write"
    BY <1>4, <1>11, <2>1, <2>4 DEF Die
  <2> QED BY <2>2, <2>3, <2>4
<1>12. CASE Look(p) \/ LookLock(p) \/ Probe(p) \/ Probed(p) \/ Acquire(p) \/ Cleanup(p)
            \/ CleanupFailed(p) \/ Setup(p)
  <2>1. pc[p] # "write" /\ UNCHANGED <<content, cutFiles>>
    BY <1>12 DEF Look, LookLock, Probe, Probed, Acquire, Cleanup, CleanupFailed, Setup
  <2> QED BY <1>4, <2>1
<1> QED
  BY <1>5, <1>6, <1>9, <1>10, <1>11, <1>12 DEF SyncStep

----------------------------------------------------------------------------
LEMMA SyncInvInit == SyncInit => SyncInv
<1> SUFFICES ASSUME SyncInit PROVE SyncInv
  OBVIOUS
<1>1. SyncTypeOK
  <2>1. \A p \in Procs : 1 \in 1 .. MaxRuns[p]
    BY FileSyncAssumption
  <2>2. 0 \in 0 .. Chunks
    BY FileSyncAssumption
  <2> QED BY <2>1, <2>2, FilesArePositive DEF SyncInit, SyncTypeOK
<1>2. HoldsItsFile
  BY DEF SyncInit, HoldsItsFile
<1>3. FilesSeen
  BY DEF SyncInit, FilesSeen, FileIds
<1>4. LastWriter
  BY DEF SyncInit, LastWriter
<1> QED
  BY <1>1, <1>2, <1>3, <1>4 DEF SyncInv

LEMMA SyncInvStep ==
  ASSUME SyncInv, NEW p \in Procs, SyncStep(p) \/ Die(p)
  PROVE  SyncInv'
BY TypeStep, HoldsStep, SeenStep, WriterStep DEF SyncInv

(* A container is started again only when it holds no lock.                    *)
LEMMA RestartKeeps ==
  ASSUME SyncInv, NEW p \in Procs, pc[p] \notin Locked, Restarted(p)
  PROVE  SyncInv'
<1>1. /\ runs' = [runs EXCEPT ![p] = @ + 1] /\ runs[p] < MaxRuns[p]
      /\ pc' = [pc EXCEPT ![p] = "look"] /\ file' = [file EXCEPT ![p] = 1]
      /\ wrote' = [wrote EXCEPT ![p] = 0]
      /\ UNCHANGED <<content, lockPath, holder, mine, cutFiles, unlinked>>
  BY DEF Restarted, Go
<1>2. mine[p] = 0
  BY DEF SyncInv, SyncTypeOK, Locked
<1>3. SyncTypeOK'
  <2>1. runs[p] \in 1 .. MaxRuns[p] /\ runs \in [Procs -> Nat]
    BY DEF SyncInv, SyncTypeOK
  <2>2. MaxRuns[p] \in Nat /\ Chunks \in Nat
    BY FileSyncAssumption
  <2>3. runs[p] + 1 \in 1 .. MaxRuns[p] /\ 0 \in 0 .. Chunks
    BY <1>1, <2>1, <2>2
  <2>4. runs' \in [Procs -> Nat] /\ \A q \in Procs : runs'[q] \in 1 .. MaxRuns[q]
    BY <1>1, <2>1, <2>3 DEF SyncInv, SyncTypeOK
  <2> QED BY <1>1, <1>2, <2>3, <2>4, FilesArePositive DEF SyncInv, SyncTypeOK
<1>4. HoldsItsFile'
  BY <1>1, <1>2 DEF SyncInv, HoldsItsFile, SyncTypeOK
<1>5. FilesSeen'
  BY <1>1 DEF SyncInv, FilesSeen, SyncTypeOK, FileIds
<1>6. LastWriter'
  BY <1>1 DEF SyncInv, LastWriter, SyncTypeOK, Locked
<1> QED
  BY <1>3, <1>4, <1>5, <1>6 DEF SyncInv

LEMMA SyncInvStutters == SyncInv /\ UNCHANGED syncVars => SyncInv'
BY DEF SyncInv, SyncTypeOK, HoldsItsFile, FilesSeen, LastWriter, syncVars

LEMMA SyncInvInductive == SyncInv /\ [SyncNext]_syncVars => SyncInv'
<1> SUFFICES ASSUME SyncInv, [SyncNext]_syncVars PROVE SyncInv'
  OBVIOUS
<1>1. CASE UNCHANGED syncVars
  BY <1>1, SyncInvStutters
<1>2. ASSUME NEW p \in Procs, SyncStep(p) \/ Die(p) PROVE SyncInv'
  BY <1>2, SyncInvStep
<1>3. ASSUME NEW p \in Procs, RunAgain(p) PROVE SyncInv'
  BY <1>3, RestartKeeps DEF RunAgain, Ended, Locked
<1> QED
  BY <1>1, <1>2, <1>3 DEF SyncNext

----------------------------------------------------------------------------
LEMMA SyncInvSuffices == SyncInv => OneWriterUnlessUnlinked /\ SyncedFilesAreWhole
<1> SUFFICES ASSUME SyncInv PROVE OneWriterUnlessUnlinked /\ SyncedFilesAreWhole
  OBVIOUS
<1>1. ASSUME NEW f \in FileIds, f \notin unlinked
      PROVE  ~(Cardinality(Downloading(f)) > 1)
  <2>1. \A p, q \in Downloading(f) : p = q
    BY <1>1 DEF SyncInv, SyncTypeOK, HoldsItsFile, Downloading
  <2>2. CASE Downloading(f) = {}
    BY <2>2, FS_EmptySet
  <2>3. CASE Downloading(f) # {}
    <3>1. PICK p \in Downloading(f) : TRUE
      BY <2>3
    <3>2. Downloading(f) = {p}
      BY <2>1, <3>1
    <3>3. Cardinality({p}) = 1
      BY FS_Singleton
    <3> QED BY <3>2, <3>3
  <2> QED BY <2>2, <2>3
<1>2. SyncedFilesAreWhole
  BY DEF SyncInv, FilesSeen, LastWriter, SyncedFilesAreWhole, Downloading
<1> QED
  BY <1>1, <1>2 DEF OneWriterUnlessUnlinked

(* The state of every process, file and lock is of its type.                   *)
THEOREM SyncTypeCorrect == SyncSpec => []SyncTypeOK
<1>1. SyncInv => SyncTypeOK
  BY DEF SyncInv
<1> QED
  BY <1>1, SyncInvInit, SyncInvInductive, PTL DEF SyncSpec

(* The lock of file_sync.py works as long as nobody's lock file is removed.    *)
THEOREM SyncLock == SyncSpec => []OneWriterUnlessUnlinked
BY SyncInvInit, SyncInvInductive, SyncInvSuffices, PTL DEF SyncSpec

(* A file nobody writes is whole, unless a download of it was cut short.       *)
THEOREM SyncWhole == SyncSpec => []SyncedFilesAreWhole
BY SyncInvInit, SyncInvInductive, SyncInvSuffices, PTL DEF SyncSpec
----------------------------------------------------------------------------
Migrated == {"contenttypes", "superuser", "createsuperuser", "groups", "completed"}
Synced == {"static", "plan", "migrate"} \union Migrated

(* How far an upgrade has come, and what is done by then.                      *)
Progress(p) ==
    /\ stage[p] # "models" => pc[p] \notin Locked
    /\ p \notin NoSyncModels /\ stage[p] \in Synced => \A f \in FileIds : content[f] # absent
    /\ stage[p] \in Migrated => migrated = Migrations
    /\ stage[p] \in {"groups", "completed"} => "superuser" \in accounts
    /\ stage[p] = "completed" => accounts = Accounts

DeploymentInv == SyncInv /\ DeploymentTypeOK /\ \A p \in Upgraders : Progress(p)

(* Nothing an upgrade relies on is ever taken away.                            *)
Keeps ==
    /\ \A f \in FileIds : content[f] # absent => content'[f] # absent
    /\ migrated <= migrated' /\ migrated' \in 0 .. Migrations /\ migrated \in 0 .. Migrations
    /\ accounts \subseteq accounts' /\ accounts' \subseteq Accounts

----------------------------------------------------------------------------
LEMMA OtherStaysAt ==
  ASSUME DeploymentTypeOK, NEW p \in Procs, NEW q \in Procs \ {p},
         SyncStep(p) \/ Die(p) \/ Restarted(p) \/ UNCHANGED syncVars
  PROVE  pc'[q] = pc[q]
BY NextFileKeeps DEF DeploymentTypeOK, SyncTypeOK, SyncStep, Look, LookLock, Probe, Probed, Acquire,
   Fetch, WriteChunk, Downloaded, DownloadFails, Cleanup, CleanupFailed, Setup, Die, Restarted,
   syncVars, At, Go

(* The progress of the other upgrades outlives a step of one container.        *)
LEMMA OtherProgress ==
  ASSUME DeploymentTypeOK, Keeps, NEW q \in Upgraders, Progress(q),
         stage'[q] = stage[q], pc'[q] = pc[q]
  PROVE  Progress(q)'
<1>1. migrated = Migrations => migrated' = Migrations
  BY DeploymentAssumption DEF Keeps
<1>2. accounts = Accounts => accounts' = Accounts
  BY DEF Keeps
<1> QED
  BY <1>1, <1>2 DEF Progress, Keeps

(* The database only moves forward under each step of an upgrade.              *)
LEMMA DatabaseKeeps ==
  ASSUME DeploymentTypeOK, NEW p \in Upgraders, UpgradeStep(p) \/ KillContainer(p)
  PROVE  /\ migrated <= migrated' /\ migrated' \in 0 .. Migrations /\ migrated \in 0 .. Migrations
         /\ accounts \subseteq accounts' /\ accounts' \subseteq Accounts
         /\ faults' \in 0 .. MaxFaults
<1>1. faults' = faults \/ Fault => faults' \in 0 .. MaxFaults
  BY DeploymentAssumption DEF DeploymentTypeOK, Fault
<1>2. migrated \in Nat /\ Migrations \in Nat /\ planned[p] \in Nat
  BY DeploymentAssumption DEF DeploymentTypeOK
<1>3. CASE ApplyMigration(p)
  BY <1>1, <1>2, <1>3 DEF ApplyMigration, DeploymentTypeOK, Pass, Halt
<1>4. CASE CreateSuperuser(p)
  <2>1. \/ UNCHANGED <<accounts, migrated, faults>>
        \/ accounts' = accounts \union {"superuser"} /\ UNCHANGED <<migrated, faults>>
    BY <1>4 DEF CreateSuperuser, Pass
  <2>2. faults' = faults /\ migrated' = migrated
    BY <2>1
  <2>3. accounts \subseteq Accounts /\ "superuser" \in Accounts
    BY DEF DeploymentTypeOK, Accounts
  <2>4. accounts \subseteq accounts' /\ accounts' \subseteq Accounts
    BY <2>1, <2>3
  <2>5. migrated \in 0 .. Migrations
    BY DEF DeploymentTypeOK
  <2> QED BY <1>1, <1>2, <2>2, <2>4, <2>5
<1>5. CASE CreateGroups(p)
  BY <1>1, <1>2, <1>5 DEF CreateGroups, DeploymentTypeOK, Accounts
<1>6. CASE UNCHANGED <<accounts, migrated>> /\ (faults' = faults \/ Fault)
  BY <1>1, <1>2, <1>6 DEF DeploymentTypeOK
<1>7. CASE RunChecks(p) \/ RunCollectStatic(p) \/ FinishMigrate(p) \/ FindSuperuser(p)
  BY <1>6, <1>7 DEF RunChecks, RunCollectStatic, FinishMigrate, FindSuperuser, Pass, Halt
<1>8. CASE RunSyncModels(p)
  BY <1>6, <1>8 DEF RunSyncModels, FaultIfFailed
<1>9. CASE PlanMigrations(p) \/ RestartContainer(p) \/ KillContainer(p)
  BY <1>6, <1>9 DEF PlanMigrations, RestartContainer, KillContainer
<1> QED
  BY <1>3, <1>4, <1>5, <1>7, <1>8, <1>9 DEF UpgradeStep

(* What a step does to the files, under the lock.                              *)
LEMMA SyncSide ==
  ASSUME SyncInv, NEW p \in Procs,
         SyncStep(p) \/ Die(p) \/ (pc[p] \notin Locked /\ Restarted(p)) \/ UNCHANGED syncVars
  PROVE  SyncInv' /\ \A f \in FileIds : content[f] # absent => content'[f] # absent
<1>1. CASE SyncStep(p) \/ Die(p)
  BY <1>1, SyncInvStep, FilesStay DEF SyncInv
<1>2. CASE pc[p] \notin Locked /\ Restarted(p)
  BY <1>2, RestartKeeps DEF Restarted
<1>3. CASE UNCHANGED syncVars
  BY <1>3, SyncInvStutters DEF syncVars
<1> QED
  BY <1>1, <1>2, <1>3

(* The stage and the plan of one upgrade.                                      *)
LEMMA StageType ==
  ASSUME DeploymentTypeOK, NEW p \in Upgraders, UpgradeStep(p) \/ KillContainer(p)
  PROVE  /\ stage' \in [Upgraders -> Stages]
         /\ planned' \in [Upgraders -> 0 .. Migrations]
         /\ \A q \in Upgraders : planned'[q] <= migrated'
         /\ \A q \in Upgraders \ {p} : stage'[q] = stage[q]
<1>1. /\ migrated \in Nat /\ Migrations \in Nat /\ planned \in [Upgraders -> 0 .. Migrations]
      /\ \A q \in Upgraders : planned[q] <= migrated
      /\ stage \in [Upgraders -> Stages] /\ migrated <= Migrations
  BY DeploymentAssumption DEF DeploymentTypeOK
<1>2. ASSUME NEW s \in Stages, Enter(p, s)
      PROVE  stage' \in [Upgraders -> Stages] /\ \A q \in Upgraders \ {p} : stage'[q] = stage[q]
  BY <1>1, <1>2 DEF Enter
<1>3. CASE ApplyMigration(p)
  <2>1. CASE planned[p] = migrated /\ planned[p] < Migrations /\ migrated' = migrated + 1
             /\ planned' = [planned EXCEPT ![p] = @ + 1] /\ UNCHANGED stage
    <3>1. planned[p] + 1 \in 0 .. Migrations /\ migrated <= migrated + 1
      BY <1>1, <2>1
    <3>2. \A q \in Upgraders : planned'[q] <= migrated + 1
      BY <1>1, <2>1
    <3> QED BY <1>1, <2>1, <3>1, <3>2
  <2>2. CASE planned[p] < migrated /\ planned' = [planned EXCEPT ![p] = @ + 1]
             /\ UNCHANGED <<stage, migrated>>
    <3>1. planned[p] + 1 \in 0 .. Migrations /\ planned[p] + 1 <= migrated
      BY <1>1, <2>2
    <3> QED BY <1>1, <2>2, <3>1
  <2>3. CASE Enter(p, "halted") /\ UNCHANGED <<planned, migrated>>
    BY <1>1, <1>2, <2>3 DEF Stages
  <2> QED BY <1>3, <2>1, <2>2, <2>3 DEF ApplyMigration, Pass, Halt
<1>4. CASE PlanMigrations(p)
  <2>1. Enter(p, "migrate") /\ planned' = [planned EXCEPT ![p] = migrated] /\ migrated' = migrated
    BY <1>4 DEF PlanMigrations
  <2>2. migrated \in 0 .. Migrations
    BY <1>1
  <2> QED BY <1>1, <1>2, <2>1, <2>2 DEF Stages
<1>5. CASE UNCHANGED <<planned, migrated>> /\ \E s \in Stages : Enter(p, s)
  BY <1>1, <1>2, <1>5
<1>6. CASE RunChecks(p) \/ RunSyncModels(p)
  BY <1>5, <1>6 DEF RunChecks, RunSyncModels, Pass, Halt, Stages
<1>7. CASE RunCollectStatic(p) \/ FinishMigrate(p) \/ FindSuperuser(p)
  BY <1>5, <1>7 DEF RunCollectStatic, FinishMigrate, FindSuperuser, Pass, Halt, Stages
<1>8. CASE CreateSuperuser(p) \/ CreateGroups(p) \/ RestartContainer(p) \/ KillContainer(p)
  BY <1>5, <1>8 DEF CreateSuperuser, CreateGroups, RestartContainer, KillContainer, Pass, Stages
<1> QED
  BY <1>3, <1>4, <1>6, <1>7, <1>8 DEF UpgradeStep

(* What the step of a container does to the files.                             *)
LEMMA UpgradeSide ==
  ASSUME DeploymentInv, NEW p \in Upgraders, UpgradeStep(p) \/ KillContainer(p)
  PROVE  \/ stage[p] = "models" /\ (SyncStep(p) \/ Die(p))
         \/ stage[p] # "models" /\ pc[p] \notin Locked /\ Restarted(p)
         \/ stage[p] # "models" /\ UNCHANGED syncVars
<1>1. stage[p] # "models" => pc[p] \notin Locked
  BY DEF DeploymentInv, Progress
<1>2. CASE RunSyncModels(p)
  BY <1>2 DEF RunSyncModels
<1>3. CASE KillContainer(p)
  BY <1>3 DEF KillContainer
<1>4. CASE RestartContainer(p)
  BY <1>1, <1>4 DEF RestartContainer
<1>5. CASE RunChecks(p) \/ RunCollectStatic(p) \/ PlanMigrations(p) \/ ApplyMigration(p) \/ FinishMigrate(p)
  BY <1>5 DEF RunChecks, RunCollectStatic, PlanMigrations, ApplyMigration, FinishMigrate
<1>6. CASE FindSuperuser(p) \/ CreateSuperuser(p) \/ CreateGroups(p)
  BY <1>6 DEF FindSuperuser, CreateSuperuser, CreateGroups
<1> QED
  BY <1>2, <1>3, <1>4, <1>5, <1>6 DEF UpgradeStep

(* The progress of the upgrade that takes the step.                            *)
LEMMA OwnProgress ==
  ASSUME DeploymentInv, Keeps, SyncInv', NEW p \in Upgraders, UpgradeStep(p) \/ KillContainer(p)
  PROVE  Progress(p)'
<1>1. Progress(p) /\ p \in Procs /\ stage \in [Upgraders -> Stages] /\ pc \in [Procs -> Places]
  BY DeploymentAssumption DEF DeploymentInv, DeploymentTypeOK, SyncTypeOK, Places
<1>2. ASSUME NEW s, Enter(p, s) PROVE stage'[p] = s
  BY <1>1, <1>2 DEF Enter
<1>3. migrated = Migrations => migrated' = Migrations
  BY DeploymentAssumption DEF Keeps
<1>4. accounts = Accounts => accounts' = Accounts
  BY DEF Keeps
<1>5. CASE RunChecks(p)
  <2>1. UNCHANGED pc /\ pc[p] \notin Locked
    BY <1>1, <1>5 DEF RunChecks, syncVars, Progress
  <2>2. stage'[p] \in {"models", "halted"} \/ (stage'[p] = "static" /\ p \in NoSyncModels)
    BY <1>2, <1>5 DEF RunChecks, Pass, Halt
  <2> QED BY <2>1, <2>2 DEF Progress, Synced, Migrated
<1>6. CASE RunSyncModels(p)
  <2>1. stage'[p] = CASE pc'[p] = "done" -> "static" [] pc'[p] = "halted" -> "halted" [] OTHER -> "models"
    BY <1>2, <1>6 DEF RunSyncModels
  <2>2. pc'[p] = "done" => \A f \in FileIds : content'[f] # absent
    BY <1>1 DEF SyncInv, FilesSeen
  <2>3. CASE pc'[p] = "done"
    BY <2>1, <2>2, <2>3 DEF Progress, Locked, Synced, Migrated
  <2>4. CASE pc'[p] = "halted"
    BY <2>1, <2>4 DEF Progress, Locked, Synced, Migrated
  <2>5. CASE pc'[p] \notin {"done", "halted"}
    BY <2>1, <2>5 DEF Progress, Synced, Migrated
  <2> QED BY <2>3, <2>4, <2>5
<1>7. CASE /\ UNCHANGED syncVars /\ stage[p] # "models" /\ stage'[p] # "models"
           /\ stage[p] \in Synced
           /\ stage'[p] \in Migrated => migrated' = Migrations
           /\ stage'[p] \in {"groups", "completed"} => "superuser" \in accounts'
           /\ stage'[p] = "completed" => accounts' = Accounts
  BY <1>1, <1>7 DEF Progress, Keeps, syncVars
<1>8. CASE RunCollectStatic(p) \/ PlanMigrations(p)
  BY <1>2, <1>7, <1>8 DEF RunCollectStatic, PlanMigrations, Pass, Halt, Synced, Migrated
<1>9. CASE ApplyMigration(p)
  <2>1. stage'[p] \in {"migrate", "halted"}
    BY <1>2, <1>9 DEF ApplyMigration, Pass, Halt
  <2> QED BY <1>7, <1>9, <2>1 DEF ApplyMigration, Synced, Migrated
<1>10. CASE FinishMigrate(p)
  <2>1. CASE stage[p] = "migrate" /\ planned[p] = Migrations /\ Pass(p, "contenttypes")
    <3>1. migrated' = Migrations
      BY <2>1, DeploymentAssumption DEF DeploymentInv, DeploymentTypeOK, Pass
    <3>2. stage'[p] = "contenttypes"
      BY <1>2, <2>1 DEF Pass
    <3> QED BY <1>7, <1>10, <2>1, <3>1, <3>2 DEF FinishMigrate, Synced, Migrated
  <2>2. CASE stage[p] = "contenttypes" /\ (Pass(p, "superuser") \/ Halt(p))
    <3>1. stage'[p] \in {"superuser", "halted"}
      BY <1>2, <2>2 DEF Pass, Halt
    <3> QED BY <1>1, <1>3, <1>7, <1>10, <2>2, <3>1 DEF FinishMigrate, Synced, Migrated, Progress
  <2> QED BY <1>10, <2>1, <2>2 DEF FinishMigrate
<1>11. CASE FindSuperuser(p)
  <2>1. /\ stage'[p] \in {"halted", "createsuperuser"} \/ (stage'[p] = "groups" /\ "superuser" \in accounts)
        /\ accounts' = accounts
    BY <1>2, <1>11 DEF FindSuperuser, Pass, Halt
  <2> QED BY <1>1, <1>3, <1>7, <1>11, <2>1 DEF FindSuperuser, Synced, Migrated, Progress
<1>12. CASE CreateSuperuser(p)
  <2>1. stage'[p] = "halted" \/ (stage'[p] = "groups" /\ "superuser" \in accounts')
    BY <1>2, <1>12 DEF CreateSuperuser, Pass
  <2> QED BY <1>1, <1>3, <1>7, <1>12, <2>1 DEF CreateSuperuser, Synced, Migrated, Progress
<1>13. CASE CreateGroups(p)
  <2>1. stage'[p] = "completed" /\ accounts' = accounts \union {"groups"} /\ "superuser" \in accounts
    BY <1>1, <1>2, <1>13 DEF CreateGroups, Progress
  <2>2. accounts' = Accounts
    BY <2>1 DEF Keeps, Accounts
  <2> QED BY <1>1, <1>3, <1>7, <1>13, <2>1, <2>2 DEF CreateGroups, Synced, Migrated, Progress
<1>14. CASE RestartContainer(p)
  <2>1. stage'[p] = "environment"
    BY <1>2, <1>14 DEF RestartContainer
  <2>2. pc'[p] = "look"
    BY <1>1, <1>14 DEF RestartContainer, Restarted, Go
  <2> QED BY <2>1, <2>2 DEF Progress, Locked, Synced, Migrated
<1>15. CASE KillContainer(p)
  <2>1. stage'[p] = "halted"
    BY <1>2, <1>15 DEF KillContainer
  <2>2. pc'[p] \notin Locked
    <3>1. CASE stage[p] = "models"
      <4>1. pc'[p] = "killed"
        BY <1>1, <1>15, <3>1 DEF KillContainer, Die, Go
      <4> QED BY <4>1 DEF Locked
    <3>2. CASE stage[p] # "models"
      BY <1>1, <1>15, <3>2 DEF KillContainer, Progress, syncVars
    <3> QED BY <3>1, <3>2
  <2> QED BY <2>1, <2>2 DEF Progress, Synced, Migrated
<1> QED
  BY <1>5, <1>6, <1>8, <1>9, <1>10, <1>11, <1>12, <1>13, <1>14, <1>15 DEF UpgradeStep

----------------------------------------------------------------------------
LEMMA DeploymentInvInit == DeploymentInit => DeploymentInv
<1> SUFFICES ASSUME DeploymentInit PROVE DeploymentInv
  OBVIOUS
<1>1. SyncInv /\ pc = [p \in Procs |-> "look"]
  BY SyncInvInit DEF DeploymentInit, SyncInit
<1>2. DeploymentTypeOK
  <2>1. 0 \in 0 .. Migrations /\ 0 \in 0 .. MaxFaults
    BY DeploymentAssumption
  <2> QED BY <1>1, <2>1 DEF DeploymentInit, DeploymentTypeOK, SyncInv, Stages
<1>3. \A p \in Upgraders : Progress(p)
  BY <1>1, DeploymentAssumption DEF DeploymentInit, Progress, Locked, Synced, Migrated
<1> QED
  BY <1>1, <1>2, <1>3 DEF DeploymentInv

LEMMA UpgradeInvStep ==
  ASSUME DeploymentInv, NEW p \in Upgraders, UpgradeStep(p) \/ KillContainer(p)
  PROVE  DeploymentInv'
<1>1. p \in Procs /\ SyncInv /\ DeploymentTypeOK
  BY DeploymentAssumption DEF DeploymentInv
<1>2. SyncInv' /\ \A f \in FileIds : content[f] # absent => content'[f] # absent
  BY <1>1, UpgradeSide, SyncSide
<1>3. Keeps /\ faults' \in 0 .. MaxFaults
  BY <1>1, <1>2, DatabaseKeeps DEF Keeps
<1>4. DeploymentTypeOK'
  BY <1>1, <1>2, <1>3, StageType DEF DeploymentTypeOK, SyncInv, Keeps
<1>5. Progress(p)'
  BY <1>2, <1>3, OwnProgress
<1>6. ASSUME NEW q \in Upgraders \ {p} PROVE Progress(q)'
  <2>1. stage'[q] = stage[q]
    BY <1>1, StageType
  <2>2. pc'[q] = pc[q]
    BY <1>1, UpgradeSide, OtherStaysAt, DeploymentAssumption
  <2>3. Progress(q)
    BY DEF DeploymentInv
  <2> QED BY <1>1, <1>3, <2>1, <2>2, <2>3, OtherProgress
<1> QED
  BY <1>2, <1>4, <1>5, <1>6 DEF DeploymentInv

LEMMA OtherInvStep ==
  ASSUME DeploymentInv, NEW p \in Others, OtherStep(p) \/ OtherEvent(p)
  PROVE  DeploymentInv'
<1>1. p \in Procs /\ p \notin Upgraders /\ SyncInv /\ DeploymentTypeOK
  BY DEF DeploymentInv, Others
<1>2. SyncStep(p) \/ Die(p) \/ (pc[p] \notin Locked /\ Restarted(p))
  BY DEF OtherStep, OtherEvent, RunAgain, Ended, Locked
<1>3. SyncInv' /\ \A f \in FileIds : content[f] # absent => content'[f] # absent
  BY <1>1, <1>2, SyncSide
<1>4. UNCHANGED upgradeVars /\ (faults' = faults \/ Fault)
  BY DEF OtherStep, OtherEvent, FaultIfFailed
<1>5. faults' \in 0 .. MaxFaults
  BY <1>1, <1>4, DeploymentAssumption DEF DeploymentTypeOK, Fault
<1>6. Keeps
  BY <1>1, <1>3, <1>4, DeploymentAssumption DEF Keeps, DeploymentTypeOK, upgradeVars
<1>7. DeploymentTypeOK'
  BY <1>1, <1>3, <1>4, <1>5 DEF DeploymentTypeOK, SyncInv, upgradeVars
<1>8. ASSUME NEW q \in Upgraders PROVE Progress(q)'
  <2>1. pc'[q] = pc[q]
    BY <1>1, <1>2, OtherStaysAt, DeploymentAssumption
  <2>2. stage'[q] = stage[q] /\ Progress(q)
    BY <1>4 DEF upgradeVars, DeploymentInv
  <2> QED BY <1>1, <1>6, <2>1, <2>2, OtherProgress
<1> QED
  BY <1>3, <1>7, <1>8 DEF DeploymentInv

LEMMA DeploymentInvInductive ==
  DeploymentInv /\ [DeploymentNext]_deploymentVars => DeploymentInv'
<1> SUFFICES ASSUME DeploymentInv, [DeploymentNext]_deploymentVars PROVE DeploymentInv'
  OBVIOUS
<1>1. CASE UNCHANGED deploymentVars
  <2>1. SyncInv'
    BY <1>1, SyncInvStutters DEF deploymentVars, DeploymentInv
  <2> QED BY <1>1, <2>1 DEF DeploymentInv, DeploymentTypeOK, SyncInv, Progress, deploymentVars,
             upgradeVars, syncVars
<1> QED
  BY <1>1, UpgradeInvStep, OtherInvStep DEF DeploymentNext

----------------------------------------------------------------------------
(* Type correctness of the rollout.                                            *)
THEOREM DeploymentTypeCorrect == DeploymentSpec => []DeploymentTypeOK
<1>1. DeploymentInv => DeploymentTypeOK
  BY DEF DeploymentInv
<1> QED
  BY <1>1, DeploymentInvInit, DeploymentInvInductive, PTL DEF DeploymentSpec

(* However many containers upgrade at the same time, and wherever they are     *)
(* killed, one that completes serves on a migrated database, with its accounts *)
(* and the files of its models.                                                *)
THEOREM DeploymentServes == DeploymentSpec => []ServesWhatItNeeds
<1>1. DeploymentInv => ServesWhatItNeeds
  BY DEF DeploymentInv, Progress, ServesWhatItNeeds, Synced, Migrated
<1> QED
  BY <1>1, DeploymentInvInit, DeploymentInvInductive, PTL DEF DeploymentSpec

(* Behind `upgrade`, too, two processes write the same file only after a lock  *)
(* file was removed under its holder.                                          *)
THEOREM DeploymentLock == DeploymentSpec => []OneWriterUnlessUnlinked
<1>1. DeploymentInv => OneWriterUnlessUnlinked
  BY SyncInvSuffices DEF DeploymentInv
<1> QED
  BY <1>1, DeploymentInvInit, DeploymentInvInductive, PTL DEF DeploymentSpec

(* And a file nobody writes is whole, unless a download of it was cut short.   *)
THEOREM DeploymentWhole == DeploymentSpec => []SyncedFilesAreWhole
<1>1. DeploymentInv => SyncedFilesAreWhole
  BY SyncInvSuffices DEF DeploymentInv
<1> QED
  BY <1>1, DeploymentInvInit, DeploymentInvInductive, PTL DEF DeploymentSpec
================================================================================
