----------------------------- MODULE WorkerPoolProofs -----------------------------
(***************************************************************************)
(* vadpcmstats encodes every file exactly once and writes a complete table *)
(* for every number of files and of jobs.                                  *)
(***************************************************************************)
EXTENDS WorkerPool, TLAPS

Logging == {"read_operation", "read_path", "unlock_stderr"}

(* Who runs what: main collects only when it is alone. *)
Roles ==
    /\ pc[Main] \in MainPCs \cup (Working \ {"unlock"})
    /\ \A t \in Workers : pc[t] \notin MainPCs
    /\ jobs > 1 => pc[Main] \in MainPCs \ {"each"}
    /\ jobs <= 1 => /\ pc[Main] \notin {"create", "join"}
                    /\ \A t \in Workers : pc[t] = "unborn"

(* The two locks are held exactly by the threads that are between locking and *)
(* unlocking them.                                                            *)
Locks ==
    /\ \A t \in Threads : pc[t] \in Holding <=> mutex = t
    /\ \A t \in Threads : pc[t] \in Logging <=> stderr = t

(* What main's counter says of the threads. *)
Progress ==
    /\ pc[Main] = "start" =>
         /\ i = 0 /\ index = 0
         /\ \A t \in Workers : pc[t] = "unborn"
         /\ \A f \in Files : stats[f] = "unset"
    /\ pc[Main] = "create" =>
         i <= jobs /\ \A t \in Workers : pc[t] = "unborn" <=> t > i
    /\ pc[Main] = "join" =>
         i <= jobs /\ \A t \in Workers : /\ pc[t] # "unborn"
                                         /\ t <= i => pc[t] = "returned"
    /\ jobs > 1 /\ pc[Main] \in {"open", "write", "done", "failed"} =>
         \A t \in Workers : pc[t] = "returned"

(* The files below the index are encoded or being encoded, by one thread. *)
Claims ==
    /\ \A t \in Workers : pc[t] = "bump" => local[t] = index /\ index < FileCount
    /\ \A t \in Workers : pc[t] \in Working => local[t] < index
    /\ \A t \in Workers :
         pc[t] \in {"unlock_last"} \cup Cleared => index = FileCount
    /\ jobs > 1 =>
         /\ \A f \in Files : f >= index => stats[f] = "unset"
         /\ \A f \in Files : f < index /\ stats[f] = "unset" =>
              \E t \in Workers : pc[t] \in Working /\ local[t] = f

(* The same of main's counter, when it is alone. *)
ClaimsAlone ==
    jobs <= 1 /\ pc[Main] \in {"each"} \cup Working =>
        /\ pc[Main] \in Working => local[Main] = i - 1
        /\ \A f \in Files : f >= i => stats[f] = "unset"
        /\ \A f \in Files : f < i /\ stats[f] = "unset" =>
             pc[Main] \in Working /\ local[Main] = f

AllMeasured ==
    pc[Main] \in {"open", "write", "done"} => \A f \in Files : stats[f] # "unset"

(* Whoever set a word of the context has yet to clear it. *)
ContextOwned ==
    jobs > 1 =>
        /\ operation =>
             \E t \in Workers : pc[t] \notin {"unborn", "clear_path", "returned"}
        /\ path # Null => \E t \in Workers : pc[t] \notin {"unborn", "returned"}

IInv ==
    /\ TypeOK
    /\ Roles
    /\ Locks
    /\ Progress
    /\ Claims
    /\ ClaimsAlone
    /\ EncodedOnce
    /\ AllMeasured
    /\ ContextOwned

---------------------------------------------------------------------------------
(* The names of the sets of steps, and the helpers every action uses. *)
USE PoolAssumption DEF
    Files, Main, Null, Threads, Workers, Working, Holding, Cleared, Logging, MainPCs,
    Goto, After, Running, vars, logVars, poolVars

(***************************************************************************)
(* One lemma per action.  A part of the invariant that the action disturbs *)
(* in a way of its own, or that leans on other parts, is a separate step.  *)
(***************************************************************************)

LEMMA InitInv == Init => IInv
  <1> SUFFICES ASSUME Init PROVE IInv
    OBVIOUS
  <1> USE DEF Init
  <1>1. jobs \in 1 .. FileCount
    BY DEF JobsFor
  <1>2. TypeOK
    <2>1. pc \in [Threads -> {"unborn", "lock"} \cup Working \cup Holding \cup Cleared
                             \cup MainPCs]
      OBVIOUS
    <2>2. local \in [Threads -> Files] /\ heard \in [Threads -> BOOLEAN]
      OBVIOUS
    <2>3. stats \in [Files -> {"unset", "measured", "failed"}]
      OBVIOUS
    <2>4. index \in 0 .. FileCount /\ i \in 0 .. FileCount
      OBVIOUS
    <2> QED BY <1>1, <2>1, <2>2, <2>3, <2>4 DEF TypeOK
  <1>3. Roles /\ Locks /\ Progress
    BY <1>1 DEF Roles, Locks, Progress
  <1>4. Claims /\ ClaimsAlone /\ EncodedOnce /\ AllMeasured /\ ContextOwned
    BY <1>1 DEF Claims, ClaimsAlone, EncodedOnce, AllMeasured, ContextOwned
  <1> QED
    BY <1>2, <1>3, <1>4 DEF IInv

LEMMA SetOperationInv ==
  ASSUME IInv, Running, NEW t \in Threads, SetOperation(t)
  PROVE  IInv'
  <1> USE DEF IInv, SetOperation
  <1>1. (Roles /\ Locks /\ Progress /\ Claims /\ ClaimsAlone /\ EncodedOnce /\
        AllMeasured)'
    BY DEF Roles, Locks, Progress, Claims, ClaimsAlone, EncodedOnce, AllMeasured
  <1>2. TypeOK'
    BY DEF TypeOK
  <1>3. ContextOwned'
    BY DEF ContextOwned, TypeOK, Roles
  <1> QED BY <1>1, <1>2, <1>3

LEMMA SetPathInv ==
  ASSUME IInv, Running, NEW t \in Threads, SetPath(t)
  PROVE  IInv'
  <1> USE DEF IInv, SetPath
  <1>1. (Roles /\ Locks /\ Progress /\ Claims /\ ClaimsAlone /\ EncodedOnce /\
        AllMeasured)'
    BY DEF Roles, Locks, Progress, Claims, ClaimsAlone, EncodedOnce, AllMeasured
  <1>2. TypeOK'
    BY DEF TypeOK
  <1>3. ContextOwned'
    BY DEF ContextOwned, TypeOK, Roles
  <1> QED BY <1>1, <1>2, <1>3

LEMMA MeasureInv ==
  ASSUME IInv, Running, NEW t \in Threads, Measure(t)
  PROVE  IInv'
  <1> USE DEF IInv, Measure
  <1>1. (Roles /\ Locks /\ Progress /\ AllMeasured /\ ContextOwned)'
    BY DEF Roles, Locks, Progress, AllMeasured, ContextOwned
  <1>2. TypeOK'
    BY DEF TypeOK
  <1>3. Claims'
    BY DEF Claims, TypeOK, Roles
  <1>4. ClaimsAlone'
    BY DEF ClaimsAlone, TypeOK, Roles
  <1>5. EncodedOnce'
    BY DEF EncodedOnce, TypeOK
  <1> QED BY <1>1, <1>2, <1>3, <1>4, <1>5

LEMMA CollectErrorInv ==
  ASSUME IInv, Running, NEW t \in Threads, CollectError(t)
  PROVE  IInv'
  <1> USE DEF IInv, CollectError
  <1>1. (Roles /\ Locks /\ Progress /\ Claims /\ ClaimsAlone /\ EncodedOnce /\
        AllMeasured /\ ContextOwned)'
    BY DEF Roles, Locks, Progress, Claims, ClaimsAlone, EncodedOnce,
           AllMeasured, ContextOwned
  <1>2. TypeOK'
    BY DEF TypeOK
  <1> QED BY <1>1, <1>2

LEMMA LockStderrInv ==
  ASSUME IInv, Running, NEW t \in Threads, LockStderr(t)
  PROVE  IInv'
  <1> USE DEF IInv, LockStderr
  <1>1. (Roles /\ Progress /\ Claims /\ ClaimsAlone /\ EncodedOnce /\
        AllMeasured /\ ContextOwned)'
    BY DEF Roles, Progress, Claims, ClaimsAlone, EncodedOnce, AllMeasured,
           ContextOwned
  <1>2. TypeOK'
    BY DEF TypeOK
  <1>3. Locks'
    BY DEF Locks, TypeOK
  <1> QED BY <1>1, <1>2, <1>3

LEMMA ReadOperationInv ==
  ASSUME IInv, Running, NEW t \in Threads, ReadOperation(t)
  PROVE  IInv'
  <1> USE DEF IInv, ReadOperation
  <1>1. (Roles /\ Locks /\ Progress /\ Claims /\ ClaimsAlone /\ EncodedOnce /\
        AllMeasured /\ ContextOwned)'
    BY DEF Roles, Locks, Progress, Claims, ClaimsAlone, EncodedOnce,
           AllMeasured, ContextOwned
  <1>2. TypeOK'
    BY DEF TypeOK
  <1> QED BY <1>1, <1>2

LEMMA PrintMessageInv ==
  ASSUME IInv, Running, NEW t \in Threads, PrintMessage(t)
  PROVE  IInv'
  <1> USE DEF IInv, PrintMessage
  <1>1. (Roles /\ Locks /\ Progress /\ Claims /\ ClaimsAlone /\ EncodedOnce /\
        AllMeasured /\ ContextOwned)'
    BY DEF Roles, Locks, Progress, Claims, ClaimsAlone, EncodedOnce,
           AllMeasured, ContextOwned
  <1>2. TypeOK'
    BY DEF TypeOK
  <1> QED BY <1>1, <1>2

LEMMA UnlockStderrInv ==
  ASSUME IInv, Running, NEW t \in Threads, UnlockStderr(t)
  PROVE  IInv'
  <1> USE DEF IInv, UnlockStderr
  <1>1. (Roles /\ Progress /\ Claims /\ ClaimsAlone /\ EncodedOnce /\
        AllMeasured /\ ContextOwned)'
    BY DEF Roles, Progress, Claims, ClaimsAlone, EncodedOnce, AllMeasured,
           ContextOwned
  <1>2. TypeOK'
    BY DEF TypeOK
  <1>3. Locks'
    BY DEF Locks, TypeOK
  <1> QED BY <1>1, <1>2, <1>3

LEMMA StoreFailureInv ==
  ASSUME IInv, Running, NEW t \in Threads, StoreFailure(t)
  PROVE  IInv'
  <1> USE DEF IInv, StoreFailure
  <1>1. (Roles /\ Locks /\ Progress /\ AllMeasured /\ ContextOwned)'
    BY DEF Roles, Locks, Progress, AllMeasured, ContextOwned
  <1>2. TypeOK'
    BY DEF TypeOK
  <1>3. Claims'
    BY DEF Claims, TypeOK, Roles
  <1>4. ClaimsAlone'
    BY DEF ClaimsAlone, TypeOK, Roles
  <1>5. EncodedOnce'
    BY DEF EncodedOnce, TypeOK
  <1> QED BY <1>1, <1>2, <1>3, <1>4, <1>5

LEMMA OutOfMemoryInv ==
  ASSUME IInv, Running, NEW t \in Threads, OutOfMemory(t)
  PROVE  IInv'
  <1> USE DEF IInv, OutOfMemory
  <1>1. (Roles /\ Progress /\ Claims /\ ClaimsAlone /\ EncodedOnce /\
        AllMeasured /\ ContextOwned)'
    BY DEF Roles, Progress, Claims, ClaimsAlone, EncodedOnce, AllMeasured,
           ContextOwned
  <1>2. TypeOK'
    BY DEF TypeOK
  <1>3. Locks'
    BY DEF Locks, TypeOK, Roles
  <1> QED BY <1>1, <1>2, <1>3

LEMMA LockInv ==
  ASSUME IInv, Running, NEW t \in Workers, Lock(t)
  PROVE  IInv'
  <1> USE DEF IInv, Lock
  <1>1. (Roles /\ Progress /\ Claims /\ ClaimsAlone /\ EncodedOnce /\
        AllMeasured /\ ContextOwned)'
    BY DEF Roles, Progress, Claims, ClaimsAlone, EncodedOnce, AllMeasured,
           ContextOwned
  <1>2. TypeOK'
    BY DEF TypeOK
  <1>3. Locks'
    BY DEF Locks, TypeOK
  <1> QED BY <1>1, <1>2, <1>3

LEMMA ReadIndexInv ==
  ASSUME IInv, Running, NEW t \in Workers, ReadIndex(t)
  PROVE  IInv'
  <1> USE DEF IInv, ReadIndex
  <1>1. (Roles /\ Locks /\ Progress /\ ClaimsAlone /\ EncodedOnce /\ AllMeasured
        /\ ContextOwned)'
    BY DEF Roles, Locks, Progress, ClaimsAlone, EncodedOnce, AllMeasured,
           ContextOwned
  <1>2. TypeOK'
    BY DEF TypeOK
  <1>3. Claims'
    BY SMTT(60) DEF Claims, TypeOK, Roles, Locks, Progress, ClaimsAlone, EncodedOnce,
           AllMeasured, ContextOwned
  <1> QED BY <1>1, <1>2, <1>3

LEMMA BumpIndexInv ==
  ASSUME IInv, Running, NEW t \in Workers, BumpIndex(t)
  PROVE  IInv'
  <1> USE DEF IInv, BumpIndex
  <1>1. (Roles /\ Locks /\ Progress /\ ClaimsAlone /\ AllMeasured /\
        ContextOwned)'
    BY DEF Roles, Locks, Progress, ClaimsAlone, AllMeasured, ContextOwned
  <1>2. TypeOK'
    BY DEF TypeOK
  <1>3. Claims'
    BY SMTT(60) DEF Claims, TypeOK, Locks
  <1>4. EncodedOnce'
    BY SMTT(60) DEF EncodedOnce, TypeOK, Roles, Claims
  <1> QED BY <1>1, <1>2, <1>3, <1>4

LEMMA UnlockInv ==
  ASSUME IInv, Running, NEW t \in Workers, Unlock(t)
  PROVE  IInv'
  <1> USE DEF IInv, Unlock
  <1>1. (Roles /\ Progress /\ Claims /\ ClaimsAlone /\ EncodedOnce /\
        AllMeasured /\ ContextOwned)'
    BY DEF Roles, Progress, Claims, ClaimsAlone, EncodedOnce, AllMeasured,
           ContextOwned
  <1>2. TypeOK'
    BY DEF TypeOK
  <1>3. Locks'
    BY DEF Locks, TypeOK
  <1> QED BY <1>1, <1>2, <1>3

LEMMA NoneLeftInv ==
  ASSUME IInv, Running, NEW t \in Workers, NoneLeft(t)
  PROVE  IInv'
  <1> USE DEF IInv, NoneLeft
  <1>1. (Roles /\ Locks /\ Progress /\ ClaimsAlone /\ EncodedOnce /\ AllMeasured
        /\ ContextOwned)'
    BY DEF Roles, Locks, Progress, ClaimsAlone, EncodedOnce, AllMeasured,
           ContextOwned
  <1>2. TypeOK'
    BY DEF TypeOK
  <1>3. Claims'
    <2>1. index = FileCount
      BY DEF TypeOK
    <2>2. \A u \in Workers : pc'[u] = IF u = t THEN "unlock_last" ELSE pc[u]
      BY DEF TypeOK
    <2> QED BY <2>1, <2>2 DEF Claims
  <1> QED BY <1>1, <1>2, <1>3

LEMMA UnlockLastInv ==
  ASSUME IInv, Running, NEW t \in Workers, UnlockLast(t)
  PROVE  IInv'
  <1> USE DEF IInv, UnlockLast
  <1>1. (Roles /\ Progress /\ Claims /\ ClaimsAlone /\ EncodedOnce /\
        AllMeasured /\ ContextOwned)'
    BY DEF Roles, Progress, Claims, ClaimsAlone, EncodedOnce, AllMeasured,
           ContextOwned
  <1>2. TypeOK'
    BY DEF TypeOK
  <1>3. Locks'
    BY DEF Locks, TypeOK
  <1> QED BY <1>1, <1>2, <1>3

LEMMA ClearOperationInv ==
  ASSUME IInv, Running, NEW t \in Workers, ClearOperation(t)
  PROVE  IInv'
  <1> USE DEF IInv, ClearOperation
  <1>1. (Roles /\ Locks /\ Progress /\ Claims /\ ClaimsAlone /\ EncodedOnce /\
        AllMeasured)'
    BY DEF Roles, Locks, Progress, Claims, ClaimsAlone, EncodedOnce, AllMeasured
  <1>2. TypeOK'
    BY DEF TypeOK, Roles, Locks, Progress, Claims, ClaimsAlone, EncodedOnce,
           AllMeasured, ContextOwned
  <1>3. ContextOwned'
    BY DEF ContextOwned
  <1> QED BY <1>1, <1>2, <1>3

LEMMA ClearPathInv ==
  ASSUME IInv, Running, NEW t \in Workers, ClearPath(t)
  PROVE  IInv'
  <1> USE DEF IInv, ClearPath
  <1>1. (Roles /\ Locks /\ Progress /\ Claims /\ ClaimsAlone /\ EncodedOnce /\
        AllMeasured)'
    BY DEF Roles, Locks, Progress, Claims, ClaimsAlone, EncodedOnce, AllMeasured
  <1>2. TypeOK'
    BY DEF TypeOK
  <1>3. ContextOwned'
    BY DEF ContextOwned
  <1> QED BY <1>1, <1>2, <1>3

LEMMA MutexFailsInv ==
  ASSUME IInv, Running, NEW t \in Workers, MutexFails(t)
  PROVE  IInv'
  <1> USE DEF IInv, MutexFails
  <1>1. (Roles /\ Progress /\ Claims /\ ClaimsAlone /\ EncodedOnce /\
        AllMeasured /\ ContextOwned)'
    BY DEF Roles, Progress, Claims, ClaimsAlone, EncodedOnce, AllMeasured,
           ContextOwned
  <1>2. TypeOK'
    BY DEF TypeOK
  <1>3. Locks'
    BY DEF Locks, TypeOK, Roles
  <1> QED BY <1>1, <1>2, <1>3

LEMMA StartAloneInv ==
  ASSUME IInv, StartAlone
  PROVE  IInv'
  <1> USE DEF IInv, StartAlone
  <1>1. (Locks /\ Progress /\ Claims /\ EncodedOnce /\ AllMeasured /\
        ContextOwned)'
    BY DEF Locks, Progress, Claims, EncodedOnce, AllMeasured, ContextOwned
  <1>2. TypeOK'
    BY DEF TypeOK
  <1>3. Roles'
    BY DEF Roles, TypeOK
  <1>4. ClaimsAlone'
    BY DEF ClaimsAlone, TypeOK, Progress
  <1> QED BY <1>1, <1>2, <1>3, <1>4

LEMMA CollectNextInv ==
  ASSUME IInv, CollectNext
  PROVE  IInv'
  <1> USE DEF IInv, CollectNext
  <1>1. (Roles /\ Locks /\ Progress /\ Claims /\ AllMeasured /\ ContextOwned)'
    BY DEF Roles, Locks, Progress, Claims, AllMeasured, ContextOwned
  <1>2. TypeOK'
    BY DEF TypeOK
  <1>3. ClaimsAlone'
    BY DEF ClaimsAlone, TypeOK
  <1>4. EncodedOnce'
    BY DEF EncodedOnce, TypeOK, Roles, Locks, Progress, Claims, ClaimsAlone,
           AllMeasured, ContextOwned
  <1> QED BY <1>1, <1>2, <1>3, <1>4

LEMMA CollectedAllInv ==
  ASSUME IInv, CollectedAll
  PROVE  IInv'
  <1> USE DEF IInv, CollectedAll
  <1>1. (Roles /\ Locks /\ Claims /\ ClaimsAlone /\ EncodedOnce /\
        ContextOwned)'
    BY DEF Roles, Locks, Claims, ClaimsAlone, EncodedOnce, ContextOwned
  <1>2. TypeOK'
    BY DEF TypeOK
  <1>3. Progress'
    BY DEF Progress, TypeOK, Roles
  <1>4. AllMeasured'
    BY DEF AllMeasured, TypeOK, Roles, Locks, Progress, Claims, ClaimsAlone,
           EncodedOnce, ContextOwned
  <1> QED BY <1>1, <1>2, <1>3, <1>4

LEMMA StartPoolInv ==
  ASSUME IInv, StartPool
  PROVE  IInv'
  <1> USE DEF IInv, StartPool
  <1>1. (Locks /\ Claims /\ ClaimsAlone /\ EncodedOnce /\ AllMeasured /\
        ContextOwned)'
    BY DEF Locks, Claims, ClaimsAlone, EncodedOnce, AllMeasured, ContextOwned
  <1>2. TypeOK'
    BY DEF TypeOK
  <1>3. Roles'
    BY DEF Roles, TypeOK
  <1>4. Progress'
    BY DEF Progress, TypeOK
  <1> QED BY <1>1, <1>2, <1>3, <1>4

LEMMA CreateInv ==
  ASSUME IInv, Create
  PROVE  IInv'
  <1> USE DEF IInv, Create
  <1>1. (ClaimsAlone /\ EncodedOnce /\ AllMeasured /\ ContextOwned)'
    BY DEF ClaimsAlone, EncodedOnce, AllMeasured, ContextOwned
  <1>2. TypeOK'
    BY DEF TypeOK
  <1>3. Roles'
    BY DEF Roles, TypeOK
  <1>4. Locks'
    BY DEF Locks, TypeOK, Progress
  <1>5. Progress'
    BY DEF Progress, TypeOK
  <1>6. Claims'
    BY SMTT(60) DEF Claims, TypeOK, Roles, Locks, Progress
  <1> QED BY <1>1, <1>2, <1>3, <1>4, <1>5, <1>6

LEMMA MainFailsInv ==
  ASSUME IInv, MainFails
  PROVE  IInv'
  <1> USE DEF IInv, MainFails
  <1>1. (Roles /\ Locks /\ Progress /\ Claims /\ ClaimsAlone /\ EncodedOnce /\
        AllMeasured /\ ContextOwned)'
    BY DEF Roles, Locks, Progress, Claims, ClaimsAlone, EncodedOnce,
           AllMeasured, ContextOwned
  <1>2. TypeOK'
    BY DEF TypeOK
  <1> QED BY <1>1, <1>2

LEMMA CreatedAllInv ==
  ASSUME IInv, CreatedAll
  PROVE  IInv'
  <1> USE DEF IInv, CreatedAll
  <1>1. (Roles /\ Locks /\ Claims /\ ClaimsAlone /\ EncodedOnce /\ AllMeasured
        /\ ContextOwned)'
    BY DEF Roles, Locks, Claims, ClaimsAlone, EncodedOnce, AllMeasured,
           ContextOwned
  <1>2. TypeOK'
    BY DEF TypeOK
  <1>3. Progress'
    BY DEF Progress, TypeOK
  <1> QED BY <1>1, <1>2, <1>3

LEMMA JoinInv ==
  ASSUME IInv, Join
  PROVE  IInv'
  <1> USE DEF IInv, Join
  <1>1. (Roles /\ Locks /\ Claims /\ ClaimsAlone /\ EncodedOnce /\ AllMeasured
        /\ ContextOwned)'
    BY DEF Roles, Locks, Claims, ClaimsAlone, EncodedOnce, AllMeasured,
           ContextOwned
  <1>2. TypeOK'
    BY DEF TypeOK
  <1>3. Progress'
    BY DEF Progress, TypeOK
  <1> QED BY <1>1, <1>2, <1>3

LEMMA JoinedAllInv ==
  ASSUME IInv, JoinedAll
  PROVE  IInv'
  <1> USE DEF IInv, JoinedAll
  <1>1. (Roles /\ Locks /\ Progress /\ Claims /\ ClaimsAlone /\ EncodedOnce /\
        ContextOwned)'
    BY DEF Roles, Locks, Progress, Claims, ClaimsAlone, EncodedOnce,
           ContextOwned
  <1>2. TypeOK'
    BY DEF TypeOK
  <1>3. AllMeasured'
    <2>1. SUFFICES ASSUME jobs > 1, NEW f \in Files PROVE stats[f] # "unset"
      BY DEF TypeOK, AllMeasured, Roles
    <2>2. \A t \in Workers : pc[t] = "returned"
      BY DEF TypeOK, Progress
    <2>3. 1 \in Workers
      BY DEF TypeOK
    <2>4. index = FileCount
      BY <2>2, <2>3 DEF Claims
    <2> QED BY <2>1, <2>2, <2>4 DEF Claims
  <1> QED BY <1>1, <1>2, <1>3

LEMMA OpenInv ==
  ASSUME IInv, Open
  PROVE  IInv'
  <1> USE DEF IInv, Open
  <1>1. (Roles /\ Locks /\ Progress /\ Claims /\ ClaimsAlone /\ EncodedOnce /\
        AllMeasured /\ ContextOwned)'
    BY DEF Roles, Locks, Progress, Claims, ClaimsAlone, EncodedOnce,
           AllMeasured, ContextOwned
  <1>2. TypeOK'
    BY DEF TypeOK
  <1> QED BY <1>1, <1>2

LEMMA OpenFailsInv ==
  ASSUME IInv, OpenFails
  PROVE  IInv'
  <1> USE DEF IInv, OpenFails
  <1>1. (Roles /\ Locks /\ Progress /\ Claims /\ ClaimsAlone /\ EncodedOnce /\
        AllMeasured /\ ContextOwned)'
    BY DEF Roles, Locks, Progress, Claims, ClaimsAlone, EncodedOnce,
           AllMeasured, ContextOwned
  <1>2. TypeOK'
    BY DEF TypeOK
  <1> QED BY <1>1, <1>2

LEMMA WriteRowInv ==
  ASSUME IInv, WriteRow
  PROVE  IInv'
  <1> USE DEF IInv, WriteRow
  <1>1. (Roles /\ Locks /\ Progress /\ Claims /\ ClaimsAlone /\ EncodedOnce /\
        AllMeasured /\ ContextOwned)'
    BY DEF Roles, Locks, Progress, Claims, ClaimsAlone, EncodedOnce,
           AllMeasured, ContextOwned
  <1>2. TypeOK'
    BY DEF TypeOK
  <1> QED BY <1>1, <1>2

LEMMA WroteAllInv ==
  ASSUME IInv, WroteAll
  PROVE  IInv'
  <1> USE DEF IInv, WroteAll
  <1>1. (Roles /\ Locks /\ Progress /\ Claims /\ ClaimsAlone /\ EncodedOnce /\
        AllMeasured /\ ContextOwned)'
    BY DEF Roles, Locks, Progress, Claims, ClaimsAlone, EncodedOnce,
           AllMeasured, ContextOwned
  <1>2. TypeOK'
    BY DEF TypeOK
  <1> QED BY <1>1, <1>2

---------------------------------------------------------------------------------

LEMMA CollectInv ==
  ASSUME IInv, Running, NEW t \in Threads, CollectStats(t)
  PROVE  IInv'
  BY SetOperationInv, SetPathInv, MeasureInv, CollectErrorInv, LockStderrInv,
     ReadOperationInv, PrintMessageInv, UnlockStderrInv, StoreFailureInv, OutOfMemoryInv
  DEF CollectStats

LEMMA WorkerInv ==
  ASSUME IInv, Running, NEW t \in Workers, Worker(t)
  PROVE  IInv'
  <1>1. t \in Threads
    OBVIOUS
  <1> QED
    BY <1>1, CollectInv, LockInv, ReadIndexInv, BumpIndexInv, UnlockInv, NoneLeftInv,
       UnlockLastInv, ClearOperationInv, ClearPathInv
    DEF Worker

LEMMA MainInv ==
  ASSUME IInv, Running, MainStep
  PROVE  IInv'
  <1>1. Main \in Threads
    BY DEF IInv, TypeOK
  <1> QED
    BY <1>1, CollectInv, StartAloneInv, CollectNextInv, CollectedAllInv, StartPoolInv,
       CreateInv, CreatedAllInv, JoinInv, JoinedAllInv, OpenInv,
       OpenFailsInv, WriteRowInv, WroteAllInv
    DEF MainStep

LEMMA FailsInv ==
  ASSUME IInv, Running, ProcessFails
  PROVE  IInv'
  BY MainFailsInv, MutexFailsInv DEF ProcessFails

LEMMA StutterInv == IInv /\ UNCHANGED vars => IInv'
  BY DEF IInv, TypeOK, Roles, Locks, Progress, Claims, ClaimsAlone, EncodedOnce,
         AllMeasured, ContextOwned

(* vadpcmstats.c keeps the inductive invariant, whatever the interleaving of its *)
(* threads and the number of files and jobs.                                     *)
THEOREM PoolInvariant == Spec => []IInv
  <1>1. IInv /\ [Next]_vars => IInv'
    BY MainInv, WorkerInv, FailsInv, StutterInv DEF Next, Terminating
  <1> QED
    BY InitInv, <1>1, PTL DEF Spec

(* Every variable of vadpcmstats.c keeps to its type: no index beyond the files, *)
(* no lock held by a thread that does not exist.                                 *)
THEOREM PoolTypes == Spec => []TypeOK
  <1>1. IInv => TypeOK
    BY DEF IInv
  <1> QED
    BY <1>1, PoolInvariant, PTL

(* collect_stats_loop hands each file to one thread, once. *)
THEOREM PoolEncodesOnce == Spec => []EncodedOnce
  <1>1. IInv => EncodedOnce
    BY DEF IInv
  <1> QED
    BY <1>1, PoolInvariant, PTL

(* When main goes on from the joins, or from its own loop, every file has its *)
(* statistics, no thread uses the state, and the mutex is free.               *)
THEOREM PoolTableComplete == Spec => []TableComplete
  <1>1. IInv => TableComplete
    <2> SUFFICES ASSUME IInv, pc[Main] \in {"open", "write", "done"}
                 PROVE  TableComplete
      BY DEF TableComplete
    <2> USE DEF IInv
    <2>1. \A f \in Files : stats[f] # "unset"
      BY DEF AllMeasured
    <2>2. \A t \in Workers : pc[t] \in {"unborn", "returned"}
      BY DEF TypeOK, Roles, Progress
    <2>3. mutex \in Workers \cup {Null}
      BY DEF TypeOK
    <2>4. mutex = Null
      BY <2>2, <2>3 DEF Locks
    <2> QED
      BY <2>1, <2>2, <2>4 DEF TypeOK, TableComplete
  <1> QED
    BY <1>1, PoolInvariant, PTL

(* Nothing of the log context is left when the pool is through. *)
THEOREM PoolClearsContext == Spec => []ContextClearedByPool
  <1>1. IInv => ContextClearedByPool
    <2> SUFFICES ASSUME IInv, jobs > 1, pc[Main] \in {"open", "write", "done", "failed"}
                 PROVE  ContextClearedByPool
      BY DEF ContextClearedByPool
    <2> USE DEF IInv
    <2>1. \A t \in Workers : pc[t] = "returned"
      BY DEF Progress
    <2>2. ~operation /\ path = Null
      BY <2>1 DEF TypeOK, ContextOwned
    <2>3. stderr = Null
      BY SMTT(60), <2>1 DEF TypeOK, Locks
    <2> QED
      BY <2>2, <2>3 DEF ContextClearedByPool
  <1> QED
    BY <1>1, PoolInvariant, PTL
=================================================================================
