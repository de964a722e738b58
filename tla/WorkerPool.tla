-------------------------------- MODULE WorkerPool --------------------------------
(***************************************************************************)
(* vadpcmstats (vadpcmstats/vadpcmstats.c): main starts jobs threads that  *)
(* claim the input files one by one under a mutex, encode each and store   *)
(* its statistics, waits for them and writes a table.  With one job main   *)
(* does the work itself.  The log context of common/log.c, two pointers    *)
(* every thread writes and every message reads, is part of the model.      *)
(*                                                                         *)
(* Thread 0 is main, threads 1 .. jobs are the workers.  pc[t] names the   *)
(* step thread t takes next.                                               *)
(***************************************************************************)
EXTENDS Integers

CONSTANTS
    FileCount,      \* count, the number of input files
    JobRequests     \* values of --jobs, or of the number of processors

ASSUME PoolAssumption ==
    /\ FileCount \in Nat \ {0}
    /\ JobRequests \subseteq Nat \ {0}

Files == 0 .. FileCount - 1
Main  == 0
Null  == -1         \* a null pointer, in a word of the log context

VARIABLES
    jobs,
    pc,
    local,      \* the index of the file a thread works on
    index,      \* state.index
    mutex,      \* the holder of state.mutex, or Null
    stats,      \* state.stats: "unset", "measured" or "failed"
    i,          \* the counter of main's loops
    operation,  \* g_log_context.operation: is it set?
    path,       \* g_log_context.path: a file, or Null
    stderr,     \* the thread that holds stderr (flockfile), or Null
    heard       \* what a thread that logs has read of the operation

logVars  == <<operation, path, stderr, heard>>
poolVars == <<index, mutex>>
vars == <<jobs, pc, local, stats, poolVars, i, logVars>>

Threads == 0 .. jobs
Workers == 1 .. jobs

(* No more jobs than files. *)
JobsFor(request) == IF request > FileCount THEN FileCount ELSE request

Init ==
    /\ jobs \in {JobsFor(n) : n \in JobRequests}
    /\ pc = [t \in Threads |-> IF t = Main THEN "start" ELSE "unborn"]
    /\ local = [t \in Threads |-> 0]
    /\ index = 0
    /\ mutex = Null
    /\ stats = [f \in Files |-> "unset"]
    /\ i = 0
    /\ operation = FALSE
    /\ path = Null
    /\ stderr = Null
    /\ heard = [t \in Threads |-> FALSE]

Goto(t, from, to) ==
    /\ pc[t] = from
    /\ pc' = [pc EXCEPT ![t] = to]

(* The process is there: exit and abort end every thread. *)
Running == pc[Main] \notin {"done", "failed", "aborted"}

---------------------------------------------------------------------------------
(* collect_stats: thread t encodes file local[t]. *)

(* Where thread t goes on when collect_stats returns. *)
After(t) == IF t = Main THEN "each" ELSE "lock"

(* log_context stores two words and takes no lock. *)
SetOperation(t) ==
    /\ Goto(t, "operation", "path")
    /\ operation' = TRUE
    /\ UNCHANGED <<jobs, local, stats, poolVars, i, path, stderr, heard>>

SetPath(t) ==
    /\ Goto(t, "path", "collect")
    /\ path' = local[t]
    /\ UNCHANGED <<jobs, local, stats, poolVars, i, operation, stderr, heard>>

Measure(t) ==
    /\ Goto(t, "collect", After(t))
    /\ stats' = [stats EXCEPT ![local[t]] = "measured"]
    /\ UNCHANGED <<jobs, local, poolVars, i, logVars>>

(* The format is unknown, the file cannot be read, or encoding fails. *)
CollectError(t) ==
    /\ Goto(t, "collect", "log")
    /\ UNCHANGED <<jobs, local, stats, poolVars, i, logVars>>

(* log_msg: the message and its context go out under the lock of stderr. *)
LockStderr(t) ==
    /\ stderr = Null
    /\ Goto(t, "log", "read_operation")
    /\ stderr' = t
    /\ UNCHANGED <<jobs, local, stats, poolVars, i, operation, path, heard>>

ReadOperation(t) ==
    /\ Goto(t, "read_operation", "read_path")
    /\ heard' = [heard EXCEPT ![t] = operation]
    /\ UNCHANGED <<jobs, local, stats, poolVars, i, operation, path, stderr>>

(* The path is read, and the message is printed. *)
PrintMessage(t) ==
    /\ Goto(t, "read_path", "unlock_stderr")
    /\ UNCHANGED <<jobs, local, stats, poolVars, i, logVars>>

UnlockStderr(t) ==
    /\ Goto(t, "unlock_stderr", "fail")
    /\ stderr' = Null
    /\ UNCHANGED <<jobs, local, stats, poolVars, i, operation, path, heard>>

StoreFailure(t) ==
    /\ Goto(t, "fail", After(t))
    /\ stats' = [stats EXCEPT ![local[t]] = "failed"]
    /\ UNCHANGED <<jobs, local, poolVars, i, logVars>>

(* XMALLOC exits the process, whichever thread calls it. *)
OutOfMemory(t) ==
    /\ pc[t] = "collect"
    /\ pc' = [pc EXCEPT ![Main] = "aborted"]
    /\ UNCHANGED <<jobs, local, stats, poolVars, i, logVars>>

CollectStats(t) ==
    \/ SetOperation(t)
    \/ SetPath(t)
    \/ Measure(t)
    \/ CollectError(t)
    \/ LockStderr(t)
    \/ ReadOperation(t)
    \/ PrintMessage(t)
    \/ UnlockStderr(t)
    \/ StoreFailure(t)
    \/ OutOfMemory(t)

---------------------------------------------------------------------------------
(* collect_stats_loop: worker t claims files until there are none left. *)

(* Faulty: the claim is not protected. *)
Lock_None(t) ==
    /\ Goto(t, "lock", "check")
    /\ UNCHANGED <<jobs, local, index, mutex, stats, i, logVars>>

Lock(t) ==
    /\ mutex = Null
    /\ Goto(t, "lock", "check")
    /\ mutex' = t
    /\ UNCHANGED <<jobs, local, index, stats, i, logVars>>

(* int index = state->index++, the read ... *)
ReadIndex(t) ==
    /\ index < FileCount
    /\ Goto(t, "check", "bump")
    /\ local' = [local EXCEPT ![t] = index]
    /\ UNCHANGED <<jobs, stats, poolVars, i, logVars>>

(* ... and the write. *)
BumpIndex(t) ==
    /\ Goto(t, "bump", "unlock")
    /\ index' = local[t] + 1
    /\ UNCHANGED <<jobs, local, mutex, stats, i, logVars>>

Unlock(t) ==
    /\ Goto(t, "unlock", "operation")
    /\ mutex' = Null
    /\ UNCHANGED <<jobs, local, index, stats, i, logVars>>

(* Faulty: the thread waits for more files. *)
NoneLeft_Retries(t) ==
    /\ index >= FileCount
    /\ Goto(t, "check", "lock")
    /\ mutex' = Null
    /\ UNCHANGED <<jobs, local, index, stats, i, logVars>>

NoneLeft(t) ==
    /\ index >= FileCount
    /\ Goto(t, "check", "unlock_last")
    /\ UNCHANGED <<jobs, local, stats, poolVars, i, logVars>>

UnlockLast(t) ==
    /\ Goto(t, "unlock_last", "clear_operation")
    /\ mutex' = Null
    /\ UNCHANGED <<jobs, local, index, stats, i, logVars>>

(* log_context_clear, and the thread returns. *)
ClearOperation(t) ==
    /\ Goto(t, "clear_operation", "clear_path")
    /\ operation' = FALSE
    /\ UNCHANGED <<jobs, local, stats, poolVars, i, path, stderr, heard>>

ClearPath(t) ==
    /\ Goto(t, "clear_path", "returned")
    /\ path' = Null
    /\ UNCHANGED <<jobs, local, stats, poolVars, i, operation, stderr, heard>>

(***************************************************************************)
(* CHECK_PTHREAD aborts if the mutex is not locked or unlocked; the other  *)
(* threads go with the process, whatever they are at.  That it first waits *)
(* for stderr, to log the error, is left out.                              *)
(***************************************************************************)
MutexFails(t) ==
    /\ pc[t] \in {"lock", "unlock", "unlock_last"}
    /\ pc' = [pc EXCEPT ![Main] = "aborted"]
    /\ UNCHANGED <<jobs, local, stats, poolVars, i, logVars>>

Worker(t) ==
    \/ Lock(t)
    \/ ReadIndex(t)
    \/ BumpIndex(t)
    \/ Unlock(t)
    \/ CollectStats(t)
    \/ NoneLeft(t)
    \/ UnlockLast(t)
    \/ ClearOperation(t)
    \/ ClearPath(t)

---------------------------------------------------------------------------------
(* main *)

StartAlone ==
    /\ jobs <= 1
    /\ Goto(Main, "start", "each")
    /\ UNCHANGED <<jobs, local, stats, poolVars, i, logVars>>

(* One job: main encodes the files itself. *)
CollectNext ==
    /\ i < FileCount
    /\ Goto(Main, "each", "operation")
    /\ local' = [local EXCEPT ![Main] = i]
    /\ i' = i + 1
    /\ UNCHANGED <<jobs, stats, poolVars, logVars>>

CollectedAll ==
    /\ i = FileCount
    /\ Goto(Main, "each", "open")
    /\ UNCHANGED <<jobs, local, stats, poolVars, i, logVars>>

StartPool ==
    /\ jobs > 1
    /\ Goto(Main, "start", "create")
    /\ UNCHANGED <<jobs, local, stats, poolVars, i, logVars>>

Create ==
    /\ pc[Main] = "create"
    /\ i < jobs
    /\ pc' = [pc EXCEPT ![i + 1] = "lock"]
    /\ i' = i + 1
    /\ UNCHANGED <<jobs, local, stats, poolVars, logVars>>

(***************************************************************************)
(* XMALLOC of the statistics or of the threads exits, and CHECK_PTHREAD    *)
(* aborts if the mutex is not made, a thread is not created or joined, or  *)
(* the mutex is not destroyed; the threads there are go with the process.  *)
(***************************************************************************)
MainFails ==
    /\ pc[Main] \in {"start", "create", "join"}
    /\ pc[Main] = "create" => i < jobs
    /\ pc' = [pc EXCEPT ![Main] = "aborted"]
    /\ UNCHANGED <<jobs, local, stats, poolVars, i, logVars>>

CreatedAll ==
    /\ i = jobs
    /\ Goto(Main, "create", "join")
    /\ i' = 0
    /\ UNCHANGED <<jobs, local, stats, poolVars, logVars>>

(* Faulty: the last thread is not waited for. *)
Join_OneLess ==
    /\ pc[Main] = "join"
    /\ i < jobs
    /\ i = jobs - 1 \/ pc[i + 1] = "returned"
    /\ i' = i + 1
    /\ UNCHANGED <<jobs, pc, local, stats, poolVars, logVars>>

Join ==
    /\ pc[Main] = "join"
    /\ i < jobs
    /\ pc[i + 1] = "returned"
    /\ i' = i + 1
    /\ UNCHANGED <<jobs, pc, local, stats, poolVars, logVars>>

JoinedAll ==
    /\ i = jobs
    /\ Goto(Main, "join", "open")
    /\ UNCHANGED <<jobs, local, stats, poolVars, i, logVars>>

(* The table goes to stdout, or to a file that fopen opens. *)
Open ==
    /\ Goto(Main, "open", "write")
    /\ i' = 0
    /\ UNCHANGED <<jobs, local, stats, poolVars, logVars>>

OpenFails ==
    /\ Goto(Main, "open", "failed")
    /\ UNCHANGED <<jobs, local, stats, poolVars, i, logVars>>

WriteRow ==
    /\ pc[Main] = "write"
    /\ i < FileCount
    /\ i' = i + 1
    /\ UNCHANGED <<jobs, pc, local, stats, poolVars, logVars>>

WroteAll ==
    /\ i = FileCount
    /\ Goto(Main, "write", "done")
    /\ UNCHANGED <<jobs, local, stats, poolVars, i, logVars>>

MainStep ==
    \/ StartAlone
    \/ CollectNext
    \/ CollectStats(Main)
    \/ CollectedAll
    \/ StartPool
    \/ Create
    \/ CreatedAll
    \/ Join
    \/ JoinedAll
    \/ Open
    \/ OpenFails
    \/ WriteRow
    \/ WroteAll

(* The process has ended. *)
Terminating == ~Running /\ UNCHANGED vars

(* A call of the system fails; none has to. *)
ProcessFails == MainFails \/ \E t \in Workers : MutexFails(t)

Next ==
    \/ Running /\ MainStep
    \/ Running /\ \E t \in Workers : Worker(t)
    \/ Running /\ ProcessFails
    \/ Terminating

Spec == Init /\ [][Next]_vars

(***************************************************************************)
(* Every thread that can run does, sooner or later; a mutex that is free   *)
(* again and again may still go to the others each time.  A thread that    *)
(* waits for a lock or for another thread is not saved by a failure.       *)
(***************************************************************************)
FairSpec ==
    /\ Spec
    /\ WF_vars(Running /\ MainStep)
    /\ \A t \in 1 .. FileCount :
         WF_vars(Running /\ t \in Workers /\ Worker(t))

---------------------------------------------------------------------------------

Working == {"unlock", "operation", "path", "collect", "log", "read_operation",
            "read_path", "unlock_stderr", "fail"}
Holding == {"check", "bump", "unlock", "unlock_last"}
Cleared == {"clear_operation", "clear_path", "returned"}
MainPCs == {"start", "each", "create", "join", "open", "write", "done", "failed",
            "aborted"}

(* What each variable may hold. *)
TypeOK ==
    /\ jobs \in 1 .. FileCount
    /\ pc \in [Threads -> {"unborn", "lock"} \cup Working \cup Holding \cup Cleared
                           \cup MainPCs]
    /\ local \in [Threads -> Files]
    /\ index \in 0 .. FileCount
    /\ mutex \in Workers \cup {Null}
    /\ stats \in [Files -> {"unset", "measured", "failed"}]
    /\ i \in 0 .. FileCount
    /\ operation \in BOOLEAN
    /\ path \in Files \cup {Null}
    /\ stderr \in Threads \cup {Null}
    /\ heard \in [Threads -> BOOLEAN]

(***************************************************************************)
(* No file is encoded twice: a file being worked on has no statistics yet, *)
(* and no two threads work on the same file.  The read and the write of    *)
(* the shared index are two steps.                                         *)
(***************************************************************************)
EncodedOnce ==
    \A t \in Threads :
        pc[t] \in Working =>
            /\ stats[local[t]] = "unset"
            /\ \A u \in Threads \ {t} :
                 pc[u] \in Working => local[u] # local[t]

(***************************************************************************)
(* When main writes the table every file has its statistics, and no thread *)
(* is left that could write to them (or use the state, which is on main's  *)
(* stack, or the mutex, which main has destroyed).                         *)
(***************************************************************************)
TableComplete ==
    pc[Main] \in {"open", "write", "done"} =>
        /\ \A f \in Files : stats[f] # "unset"
        /\ \A t \in Threads \ {Main} : pc[t] \in {"unborn", "returned"}
        /\ mutex = Null

(***************************************************************************)
(* The threads that return clear the context one after the other, each     *)
(* over the others' settings, and still nothing of it is left when main    *)
(* goes on: the last writes are those of a thread on its way out.          *)
(***************************************************************************)
ContextClearedByPool ==
    jobs > 1 /\ pc[Main] \in {"open", "write", "done", "failed"} =>
        ~operation /\ path = Null /\ stderr = Null

(* vadpcmstats ends: it writes its table, or fails. *)
Termination == <>(pc[Main] \in {"done", "failed", "aborted"})

(***************************************************************************)
(* common/util.h: the context set with log_context is printed before each  *)
(* log message.  So a message about a file comes with the context of that  *)
(* file.                                                                   *)
(***************************************************************************)
MessageHasItsContext ==
    \A t \in Threads :
        pc[t] = "read_path" => heard[t] /\ path = local[t]
=================================================================================
