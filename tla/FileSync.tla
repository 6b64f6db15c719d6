------------------------------- MODULE FileSync -------------------------------
(* `syncmodels`: several containers bring the files of the face models to one  *)
(* directory.  FileDownloader.sync takes a lock file next to each file; what   *)
(* goes through the lock, and what goes past it, is the subject here.          *)
(*                                                                             *)
(* filelock is external, modelled from its use: an acquire opens the lock path *)
(* (and creates the file) and takes an exclusive lock on the file it opened; a *)
(* waiting acquire tries again from the path; the operating system releases    *)
(* the locks of a process that dies, and the file stays.                       *)
EXTENDS Integers, FiniteSets

CONSTANTS Procs,    \* containers that run syncmodels
          Forced,   \* those that run it with --force
          Files,    \* how many files there are
          Chunks,   \* chunks of a file
          MaxRuns   \* how often each container is started (a bound)

Nobody == "nobody"

ASSUME FileSyncAssumption ==
    /\ IsFiniteSet(Procs) /\ Forced \subseteq Procs
    /\ Nobody \notin Procs
    /\ Files \in Nat \ {0} /\ Chunks \in Nat \ {0}
    /\ MaxRuns \in [Procs -> Nat \ {0}]

VARIABLES
    content,        \* the chunks of each file on disk; absent: no file
    lockPath,       \* the lock file (an inode) the path of each file names, or 0
    holder,         \* who holds the lock of an inode
    pc, file,       \* where each process is, and on which file
    wrote,          \* how many chunks it has written
    mine,           \* the inode it has locked
    runs,           \* how often it has been started
    cutFiles,       \* history: files a download of which was cut short, until
                    \* one leaves the file whole
    unlinked        \* history: files whose lock file was removed under its holder

syncVars == <<content, lockPath, holder, pc, file, wrote, mine, runs, cutFiles, unlinked>>

FileIds == 1 .. Files
Inodes == 1 .. (Cardinality(Procs) + Files + 1)
absent == {0}       \* no chunk has number 0
Whole == 1 .. Chunks
Ended == {"done", "halted", "killed"}
Downloading(f) == {p \in Procs : pc[p] \in {"fetch", "write"} /\ file[p] = f}

SyncInit ==
    /\ content = [f \in FileIds |-> absent]
    /\ lockPath = [f \in FileIds |-> 0]
    /\ holder = [i \in Inodes |-> Nobody]
    /\ pc = [p \in Procs |-> "look"] /\ file = [p \in Procs |-> 1]
    /\ wrote = [p \in Procs |-> 0] /\ mine = [p \in Procs |-> 0]
    /\ runs = [p \in Procs |-> 1]
    /\ cutFiles = {} /\ unlinked = {}

At(p, place) == pc[p] = place
Go(p, place) == pc' = [pc EXCEPT ![p] = place]

(* The next item of DEEPFACE_WEIGHTS; after the last one, ofiq_setup.          *)
NextFile(p) ==
    IF file[p] < Files
    THEN Go(p, "look") /\ file' = [file EXCEPT ![p] = @ + 1]
    ELSE Go(p, "setup") /\ UNCHANGED file

(* _should_skip_download: is the file there?  With --force nothing is skipped. *)
Look(p) ==
    /\ At(p, "look")
    /\ IF p \in Forced \/ content[file[p]] = absent THEN Go(p, "acquire") ELSE Go(p, "lookLock")
    /\ UNCHANGED <<content, lockPath, holder, file, wrote, mine, runs, cutFiles, unlinked>>

(* No lock file: "File already exists locally."                                *)
LookLock(p) ==
    /\ At(p, "lookLock")
    /\ IF lockPath[file[p]] = 0 THEN NextFile(p) ELSE Go(p, "probe") /\ UNCHANGED file
    /\ UNCHANGED <<content, lockPath, holder, wrote, mine, runs, cutFiles, unlinked>>

FreshInode == CHOOSE i \in Inodes : holder[i] = Nobody /\ \A f \in FileIds : lockPath[f] # i
Openable(f) == IF lockPath[f] = 0 THEN FreshInode ELSE lockPath[f]
TakeLock(p) ==
    LET i == Openable(file[p]) IN
    /\ i \in Inodes /\ holder[i] = Nobody
    /\ holder' = [holder EXCEPT ![i] = p]
    /\ lockPath' = [lockPath EXCEPT ![file[p]] = i]
    /\ mine' = [mine EXCEPT ![p] = i]
DropLock(p) ==
    /\ holder' = [holder EXCEPT ![mine[p]] = Nobody]
    /\ mine' = [mine EXCEPT ![p] = 0]

(* acquire(timeout=0): "another process is downloading", or the lock is taken  *)
(* for an instant.                                                             *)
Probe(p) ==
    /\ At(p, "probe")
    /\ \/ TakeLock(p) /\ Go(p, "probed") /\ UNCHANGED file
       \/ /\ holder[Openable(file[p])] # Nobody
          /\ NextFile(p)
          /\ UNCHANGED <<holder, lockPath, mine>>
    /\ UNCHANGED <<content, wrote, runs, cutFiles, unlinked>>

Probed(p) ==
    /\ At(p, "probed")
    /\ DropLock(p) /\ NextFile(p)
    /\ UNCHANGED <<content, lockPath, wrote, runs, cutFiles, unlinked>>

(* A mutant: no one waits.                                                     *)
AcquireAnyway(p) ==
    /\ At(p, "acquire")
    /\ Go(p, "fetch")
    /\ LET i == Openable(file[p]) IN
       /\ holder' = [holder EXCEPT ![i] = p]
       /\ lockPath' = [lockPath EXCEPT ![file[p]] = i]
       /\ mine' = [mine EXCEPT ![p] = i]
    /\ UNCHANGED <<content, file, wrote, runs, cutFiles, unlinked>>
(* `with lock`: waits, without a timeout.                                      *)
Acquire(p) ==
    /\ At(p, "acquire")
    /\ TakeLock(p) /\ Go(p, "fetch")
    /\ UNCHANGED <<content, file, wrote, runs, cutFiles, unlinked>>
(* _execute_download: the request is answered, and the file opened for writing *)
(* in place (which empties it).                                                *)
Fetch(p) ==
    /\ At(p, "fetch")
    /\ content' = [content EXCEPT ![file[p]] = {}]
    /\ wrote' = [wrote EXCEPT ![p] = 0] /\ Go(p, "write")
    /\ UNCHANGED <<lockPath, holder, file, mine, runs, cutFiles, unlinked>>

(* The file did not have that chunk, or has the same one.                      *)
WriteChunk(p) ==
    /\ At(p, "write") /\ wrote[p] < Chunks
    /\ wrote' = [wrote EXCEPT ![p] = @ + 1]
    /\ content' = [content EXCEPT ![file[p]] = @ \union {wrote[p] + 1}]
    /\ UNCHANGED <<lockPath, holder, pc, file, mine, runs, cutFiles, unlinked>>

(* A mutant: the last chunk is not waited for.                                 *)
DownloadedShort(p) ==
    /\ At(p, "write") /\ wrote[p] = Chunks - 1
    /\ DropLock(p) /\ Go(p, "cleanup")
    /\ UNCHANGED <<content, lockPath, file, wrote, runs, cutFiles, unlinked>>
Downloaded(p) ==
    /\ At(p, "write") /\ wrote[p] = Chunks
    /\ DropLock(p) /\ Go(p, "cleanup")
    /\ cutFiles' = IF content[file[p]] = Whole THEN cutFiles \ {file[p]} ELSE cutFiles
    /\ UNCHANGED <<content, lockPath, file, wrote, runs, unlinked>>
(* The request fails, the file is empty or missing at the source (before the   *)
(* local file is opened), or the connection breaks between two chunks.  The    *)
(* lock is released, and the lock file removed on the way out.                 *)
DownloadFails(p) ==
    /\ At(p, "fetch") \/ (At(p, "write") /\ wrote[p] < Chunks)
    /\ DropLock(p) /\ Go(p, "cleanupFailed")
    /\ cutFiles' = IF At(p, "write") THEN cutFiles \union {file[p]} ELSE cutFiles
    /\ UNCHANGED <<content, lockPath, file, wrote, runs, unlinked>>

(* _cleanup_lock: the lock file is removed, whoever holds it by now.           *)
Unlink(f) ==
    /\ lockPath' = [lockPath EXCEPT ![f] = 0]
    /\ unlinked' = IF lockPath[f] # 0 /\ holder[lockPath[f]] # Nobody
                   THEN unlinked \union {f} ELSE unlinked
Cleanup(p) ==
    /\ At(p, "cleanup")
    /\ Unlink(file[p]) /\ NextFile(p)
    /\ UNCHANGED <<content, holder, wrote, mine, runs, cutFiles>>
CleanupFailed(p) ==
    /\ At(p, "cleanupFailed")
    /\ Unlink(file[p]) /\ Go(p, "halted")
    /\ UNCHANGED <<content, holder, file, wrote, mine, runs, cutFiles>>

(* ofiq_setup, which may raise; the command halts with exit code 1.            *)
Setup(p) ==
    /\ At(p, "setup")
    /\ Go(p, "done") \/ Go(p, "halted")
    /\ UNCHANGED <<content, lockPath, holder, file, wrote, mine, runs, cutFiles, unlinked>>

(* A mutant: the lock outlives its process (a lock file that only exists).     *)
DieLocked(p) ==
    /\ pc[p] \notin Ended
    /\ mine' = [mine EXCEPT ![p] = 0]
    /\ Go(p, "killed")
    /\ UNCHANGED <<content, lockPath, holder, file, wrote, runs, cutFiles, unlinked>>
(* The process dies; its locks go, its files stay.                             *)
Die(p) ==
    /\ pc[p] \notin Ended
    /\ IF mine[p] = 0 THEN UNCHANGED <<holder, mine>> ELSE DropLock(p)
    /\ cutFiles' = IF At(p, "write") /\ wrote[p] < Chunks THEN cutFiles \union {file[p]} ELSE cutFiles
    /\ Go(p, "killed")
    /\ UNCHANGED <<content, lockPath, file, wrote, runs, unlinked>>

(* restart: always                                                             *)
Restarted(p) ==
    /\ runs[p] < MaxRuns[p]
    /\ runs' = [runs EXCEPT ![p] = @ + 1]
    /\ Go(p, "look") /\ file' = [file EXCEPT ![p] = 1] /\ wrote' = [wrote EXCEPT ![p] = 0]
    /\ UNCHANGED <<content, lockPath, holder, mine, cutFiles, unlinked>>
RunAgain(p) == pc[p] \in Ended /\ Restarted(p)

SyncStep(p) ==
    \/ Look(p) \/ LookLock(p) \/ Probe(p) \/ Probed(p)
    \/ Acquire(p) \/ Fetch(p) \/ WriteChunk(p) \/ Downloaded(p) \/ DownloadFails(p)
    \/ Cleanup(p) \/ CleanupFailed(p) \/ Setup(p)

SyncNext == \E p \in Procs : SyncStep(p) \/ Die(p) \/ RunAgain(p)
SyncSpec == SyncInit /\ [][SyncNext]_syncVars /\ \A p \in Procs : WF_syncVars(SyncStep(p))

----------------------------------------------------------------------------
SyncTypeOK ==
    /\ content \in [FileIds -> {absent} \union SUBSET Whole]
    /\ lockPath \in [FileIds -> {0} \union Inodes]
    /\ holder \in [Inodes -> Procs \union {Nobody}]
    /\ pc \in [Procs -> Ended \union {"look", "lookLock", "probe", "probed", "acquire", "fetch", "write",
                                      "cleanup", "cleanupFailed", "setup"}]
    /\ file \in [Procs -> FileIds] /\ wrote \in [Procs -> 0 .. Chunks]
    /\ mine \in [Procs -> {0} \union Inodes] /\ runs \in [Procs -> Nat]
    /\ \A p \in Procs : runs[p] \in 1 .. MaxRuns[p]
    /\ \A p \in Procs : mine[p] # 0 <=> pc[p] \in {"probed", "fetch", "write"}
    /\ \A p \in Procs : mine[p] # 0 => holder[mine[p]] = p

(* Two processes write the same file only after a lock file was removed under  *)
(* its holder: the unlink after the release is the one way past the lock.      *)
OneWriterUnlessUnlinked ==
    \A f \in FileIds : Cardinality(Downloading(f)) > 1 => f \in unlinked

(* When a command has reported success every file is there; and a file nobody  *)
(* is writing is whole, however many wrote it at the same time, unless some    *)
(* download of it was cut short: such a file passes for synchronized until it  *)
(* is fetched again.                                                           *)
SyncedFilesAreWhole ==
    \A f \in FileIds :
        /\ content[f] = absent => \A p \in Procs : pc[p] # "done"
        /\ content[f] \notin {absent, Whole} => f \in cutFiles \/ Downloading(f) # {}
==============================================================================
