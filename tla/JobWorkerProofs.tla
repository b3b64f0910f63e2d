------------------------- MODULE JobWorkerProofs -------------------------
(* Proofs about the maintenance lock that stops the job worker: for any calls, in  *)
(* any processes, of which any may fail or die, and whenever runs of the worker    *)
(* start and end.  Proofs about the job table alone, for every caller of its       *)
(* methods, and about the polling workers over it, for any numbers of jobs,        *)
(* workers and attempts.                                                           *)
EXTENDS Maintenance, JobWorker, TLAPS

-----------------------------------------------------------------------------
(* The maintenance lock.                                                       *)
\* A living process is the host of every call that has not ended.
HostsAlive == \A c \in Call : at[c] \notin Ended => Host[c] \in alive

\* What holds while no two calls take the lock at the same time: the file names
\* the call that has the lock, nobody is about to remove it, and the worker is
\* stopped, with no run or timer left, while a task runs.
Keeping == Holding \cup {"release"}
OneAcquires ==
    \A c, d \in Call : at[c] \in Acquiring /\ at[d] \in Acquiring => c = d
FileOfKeeper ==
    \A c \in Call : at[c] \in Keeping => lock = [by |-> c, written |-> TRUE]
FileOfWriter ==
    \A c \in Call : at[c] = "write" => lock = [by |-> c, written |-> FALSE]
KeepersAreSafe ==
    \A c, d \in Call : at[c] = "unlink" => at[d] \notin Keeping
OneTurn == timers + runs <= 1 /\ (~started => timers = 0)
StoppedForTask ==
    /\ \A c \in Call : at[c] = "draining" => ~started
    /\ \A c \in Call : at[c] = "task" /\ Host[c] = Server => ~started /\ runs = 0

Serial ==
    /\ OneAcquires /\ FileOfKeeper /\ FileOfWriter /\ KeepersAreSafe
    /\ OneTurn /\ StoppedForTask

MaintenanceInv ==
    MaintenanceTypeOK /\ NoOrphanLock /\ HostsAlive /\ (~overlapped => Serial)

LEMMA Guarded == MaintenanceInv => SerialMutualExclusion /\ WorkerPaused
BY DEF MaintenanceInv, MaintenanceTypeOK, Serial, FileOfKeeper, OneTurn, StoppedForTask, Keeping,
       Holding, SerialMutualExclusion, MutualExclusion, WorkerPaused, At

LEMMA LockFacts ==
    /\ NoLock \notin Lock /\ Server \in Process
    /\ \A c \in Call : Host[c] \in Process
    /\ \A c \in Call, full \in BOOLEAN : [by |-> c, written |-> full] \in Lock \ {NoLock}
<1>1. NoLock \notin Lock /\ Server \in Process /\ \A c \in Call : Host[c] \in Process
  BY MaintenanceAssumption DEF Lock
<1>2. \A c \in Call, full \in BOOLEAN : [by |-> c, written |-> full] \in Lock
  BY DEF Lock
<1>3. QED
  BY <1>1, <1>2

LEMMA LockInit == MaintenanceInit => MaintenanceInv
<1> SUFFICES ASSUME MaintenanceInit PROVE MaintenanceInv
  OBVIOUS
<1>1. \A c \in Call : at[c] = "new"
  BY DEF MaintenanceInit
<1>2. MaintenanceTypeOK /\ NoOrphanLock
  <2>1. started \in BOOLEAN /\ timers \in Nat /\ runs \in Nat
    BY DEF MaintenanceInit
  <2>2. QED
    BY <2>1, LockFacts DEF MaintenanceInit, MaintenanceTypeOK, NoOrphanLock
<1>3. OneTurn /\ StoppedForTask
  BY <1>1 DEF MaintenanceInit, OneTurn, StoppedForTask
<1>4. Serial
  BY <1>1, <1>3 DEF Serial, OneAcquires, FileOfKeeper, FileOfWriter, KeepersAreSafe,
                    Keeping, Holding, Acquiring
<1>5. QED
  BY <1>1, <1>2, <1>4, LockFacts DEF MaintenanceInit, MaintenanceInv, HostsAlive

\* A step that moves a call between stages other than those of the lock's keeper,
\* the file as it is, keeps what holds of the file.
LEMMA StillSerial ==
    ASSUME MaintenanceInv, ~overlapped, NEW c \in Call, NEW stage,
           at' = [at EXCEPT ![c] = stage], UNCHANGED <<lock, worker>>,
           \A d \in Call \ {c} : at[d] \notin Acquiring \/ stage \notin Acquiring,
           stage \notin Keeping \cup {"write", "unlink"}
    PROVE  Serial'
<1>1. at'[c] = stage /\ \A d \in Call \ {c} : at'[d] = at[d]
  BY DEF MaintenanceInv, MaintenanceTypeOK
<1>2. OneAcquires'
  BY <1>1 DEF MaintenanceInv, Serial, OneAcquires
<1>3. FileOfKeeper' /\ FileOfWriter' /\ KeepersAreSafe'
  BY <1>1 DEF MaintenanceInv, Serial, FileOfKeeper, FileOfWriter, KeepersAreSafe
<1>4. OneTurn' /\ StoppedForTask'
  BY <1>1 DEF MaintenanceInv, Serial, OneTurn, StoppedForTask, Keeping, Holding, worker
<1>5. QED
  BY <1>2, <1>3, <1>4 DEF Serial

LEMMA InvEnter ==
    ASSUME MaintenanceInv, NEW c \in Call, Enter(c)
    PROVE  MaintenanceInv'
<1>1. /\ at[c] = "new" /\ UNCHANGED <<retry, lock, active, alive, worker, stopping>>
      /\ overlapped' \in BOOLEAN
      /\ ~overlapped' => ~overlapped /\ \A d \in Call : at[d] \notin Acquiring
  <2>1. /\ at[c] = "new" /\ UNCHANGED <<retry, lock, active, alive, worker, stopping>>
        /\ overlapped' = (overlapped \/ \E d \in Call, s \in Acquiring : At(d, s))
    BY DEF Enter, At
  <2>2. \A d \in Call : at[d] \in Acquiring => \E s \in Acquiring : At(d, s)
    BY DEF At, MaintenanceInv, HostsAlive, Acquiring, Ended
  <2>3. QED
    BY <2>1, <2>2
<1>2. PICK stage \in {"refused", "open"} : at' = [at EXCEPT ![c] = stage]
  BY DEF Enter, Goto
<1>3. MaintenanceTypeOK'
  BY <1>1, <1>2 DEF MaintenanceInv, MaintenanceTypeOK, worker, Acquiring, Ended
<1>4. NoOrphanLock'
  BY <1>1, <1>2 DEF MaintenanceInv, MaintenanceTypeOK, NoOrphanLock, MayHold, Holding, Lock
<1>5. HostsAlive'
  BY <1>1, <1>2 DEF MaintenanceInv, MaintenanceTypeOK, HostsAlive, Ended
<1>6. ~overlapped' => Serial'
  BY <1>1, <1>2, StillSerial DEF Keeping, Holding
<1>7. QED
  BY <1>3, <1>4, <1>5, <1>6 DEF MaintenanceInv
LEMMA InvOpen ==
    ASSUME MaintenanceInv, NEW c \in Call, Open(c)
    PROVE  MaintenanceInv'
<1>1. /\ at[c] = "open" /\ UNCHANGED <<retry, active, alive, worker, stopping, overlapped>>
      /\ \/ /\ lock = NoLock /\ lock' = [by |-> c, written |-> FALSE]
            /\ at' = [at EXCEPT ![c] = "write"]
         \/ lock' = lock /\ at' = [at EXCEPT ![c] = "read"]
  BY DEF Open, At, Goto, OnlyFlow
<1>2. PICK stage \in {"write", "read"} : at' = [at EXCEPT ![c] = stage]
  BY <1>1
<1>3. MaintenanceTypeOK'
  <2>1. lock' \in Lock \cup {NoLock}
    BY <1>1, LockFacts DEF MaintenanceInv, MaintenanceTypeOK
  <2>2. QED
    BY <1>1, <1>2, <2>1 DEF MaintenanceInv, MaintenanceTypeOK, worker, Acquiring
<1>4. NoOrphanLock'
  BY <1>1, <1>2 DEF MaintenanceInv, MaintenanceTypeOK, NoOrphanLock, MayHold, Holding, Lock
<1>5. HostsAlive'
  BY <1>1, <1>2 DEF MaintenanceInv, MaintenanceTypeOK, HostsAlive, Ended
<1>6. ASSUME ~overlapped PROVE Serial'
  <2>1. /\ \A d \in Call \ {c} : at'[d] = at[d]
        /\ \A d \in Call \ {c} : at[d] \notin Acquiring
    <3>1. \A d \in Call \ {c} : at'[d] = at[d]
      BY <1>2 DEF MaintenanceInv, MaintenanceTypeOK
    <3>2. at[c] \in Acquiring /\ OneAcquires
      BY <1>1, <1>6 DEF MaintenanceInv, Serial, Acquiring
    <3>3. QED
      BY <3>1, <3>2 DEF OneAcquires
  <2>2. CASE lock' = lock /\ at' = [at EXCEPT ![c] = "read"]
    BY <1>1, <1>6, <2>1, <2>2, StillSerial DEF Keeping, Holding
  <2>3. CASE /\ lock = NoLock /\ lock' = [by |-> c, written |-> FALSE]
             /\ at' = [at EXCEPT ![c] = "write"]
    <3>1. at'[c] = "write" /\ \A d \in Call : at[d] \notin Keeping
      <4>1. at'[c] = "write"
        BY <2>3 DEF MaintenanceInv, MaintenanceTypeOK
      <4>2. \A d \in Call : [by |-> d, written |-> TRUE] # NoLock
        BY LockFacts
      <4>3. QED
        BY <1>6, <2>3, <4>1, <4>2 DEF MaintenanceInv, Serial, FileOfKeeper
    <3>2. OneAcquires' /\ FileOfKeeper' /\ FileOfWriter' /\ KeepersAreSafe'
      BY <2>1, <2>3, <3>1 DEF OneAcquires, FileOfKeeper, FileOfWriter, KeepersAreSafe,
                              Acquiring, Keeping, Holding
    <3>3. OneTurn' /\ StoppedForTask'
      BY <1>1, <1>6, <2>1, <3>1 DEF MaintenanceInv, Serial, OneTurn, StoppedForTask,
                                    Keeping, Holding, worker
    <3>4. QED
      BY <3>2, <3>3 DEF Serial
  <2>4. QED
    BY <1>1, <2>2, <2>3
<1>7. QED
  BY <1>1, <1>3, <1>4, <1>5, <1>6 DEF MaintenanceInv

LEMMA InvWrite ==
    ASSUME MaintenanceInv, NEW c \in Call, Write(c)
    PROVE  MaintenanceInv'
<1>1. /\ at[c] = "write" /\ UNCHANGED <<retry, alive, stopping, overlapped>>
      /\ lock' = Recorded(c) /\ active' = [active EXCEPT ![Host[c]] = TRUE]
      /\ IF Host[c] = Server THEN Stop ELSE UNCHANGED worker
      /\ at' = [at EXCEPT ![c] = IF Host[c] = Server /\ runs > 0 THEN "draining" ELSE "task"]
  BY DEF Write, At, Goto
<1>2. PICK stage \in Holding : at' = [at EXCEPT ![c] = stage]
  BY <1>1 DEF Holding
<1>3. MaintenanceTypeOK'
  <2>1. lock' \in Lock \cup {NoLock} /\ active' \in [Process -> BOOLEAN]
    BY <1>1, LockFacts DEF MaintenanceInv, MaintenanceTypeOK, Recorded
  <2>2. started' \in BOOLEAN /\ timers' \in Nat /\ runs' \in Nat
    <3>1. started' \in BOOLEAN
      BY <1>1 DEF MaintenanceInv, MaintenanceTypeOK, Stop, worker
    <3>2. timers' \in Nat /\ runs' \in Nat
      BY <1>1 DEF MaintenanceInv, MaintenanceTypeOK, Stop, worker
    <3>3. QED
      BY <3>1, <3>2
  <2>3. QED
    BY <1>1, <1>2, <2>1, <2>2 DEF MaintenanceInv, MaintenanceTypeOK
<1>4. NoOrphanLock'
  BY <1>1, <1>2 DEF MaintenanceInv, MaintenanceTypeOK, NoOrphanLock, MayHold, Recorded, Lock
<1>5. HostsAlive'
  BY <1>1, <1>2 DEF MaintenanceInv, MaintenanceTypeOK, HostsAlive, Ended
<1>6. ASSUME ~overlapped PROVE Serial'
  <2>1. /\ \A d \in Call \ {c} : at'[d] = at[d] /\ at[d] \notin Acquiring
        /\ at'[c] \in Holding /\ lock = [by |-> c, written |-> FALSE]
    <3>1. at'[c] \in Holding /\ \A d \in Call \ {c} : at'[d] = at[d]
      BY <1>2 DEF MaintenanceInv, MaintenanceTypeOK
    <3>2. at[c] \in Acquiring /\ OneAcquires /\ FileOfWriter
      BY <1>1, <1>6 DEF MaintenanceInv, Serial, Acquiring
    <3>3. QED
      BY <1>1, <3>1, <3>2 DEF OneAcquires, FileOfWriter
  <2>2. lock' = [by |-> c, written |-> TRUE]
    <3>1. lock # NoLock /\ lock.by = c
      BY <2>1, LockFacts
    <3>2. QED
      BY <1>1, <3>1 DEF Recorded
  <2>3. \A d \in Call : at[d] \notin Keeping
    BY <1>6, <2>1 DEF MaintenanceInv, Serial, FileOfKeeper
  <2>4. OneAcquires' /\ FileOfKeeper' /\ FileOfWriter' /\ KeepersAreSafe'
    BY <2>1, <2>2, <2>3 DEF OneAcquires, FileOfKeeper, FileOfWriter, KeepersAreSafe,
                            Acquiring, Keeping, Holding
  <2>5. OneTurn' /\ StoppedForTask'
    BY <1>1, <1>6, <2>1, <2>3 DEF MaintenanceInv, MaintenanceTypeOK, Serial, OneTurn, StoppedForTask,
                                  Keeping, Holding, worker, Stop
  <2>6. QED
    BY <2>4, <2>5 DEF Serial
<1>7. QED
  BY <1>1, <1>3, <1>4, <1>5, <1>6 DEF MaintenanceInv

\* Calls whose step leaves the worker and the file alone, or releases the file.
LEMMA InvWriteFails ==
    ASSUME MaintenanceInv, NEW c \in Call, WriteFails(c)
    PROVE  MaintenanceInv'
<1>1. /\ at[c] = "write" /\ at' = [at EXCEPT ![c] = "failed"] /\ lock' \in {lock, Recorded(c)}
      /\ UNCHANGED <<retry, active, alive, worker, stopping, overlapped>>
  BY DEF WriteFails, At, Goto, OnlyFlow
<1>2. MaintenanceTypeOK'
  <2>1. lock' \in Lock \cup {NoLock}
    BY <1>1, LockFacts DEF MaintenanceInv, MaintenanceTypeOK, Recorded
  <2>2. QED
    BY <1>1, <2>1 DEF MaintenanceInv, MaintenanceTypeOK, worker, Ended
<1>3. NoOrphanLock'
  BY <1>1 DEF MaintenanceInv, MaintenanceTypeOK, NoOrphanLock, MayHold, Holding, Recorded, Lock
<1>4. HostsAlive'
  BY <1>1 DEF MaintenanceInv, MaintenanceTypeOK, HostsAlive, Ended
<1>5. ASSUME ~overlapped PROVE Serial'
  <2>1. /\ at'[c] = "failed" /\ \A d \in Call \ {c} : at'[d] = at[d]
    BY <1>1 DEF MaintenanceInv, MaintenanceTypeOK
  <2>2. /\ \A d \in Call \ {c} : at[d] \notin Acquiring
        /\ \A d \in Call : at[d] \notin Keeping
    <3>1. at[c] \in Acquiring /\ OneAcquires /\ FileOfWriter /\ FileOfKeeper
      BY <1>1, <1>5 DEF MaintenanceInv, Serial, Acquiring
    <3>2. lock = [by |-> c, written |-> FALSE]
      BY <1>1, <3>1 DEF FileOfWriter
    <3>3. QED
      BY <3>1, <3>2 DEF OneAcquires, FileOfKeeper
  <2>3. OneAcquires' /\ FileOfKeeper' /\ FileOfWriter' /\ KeepersAreSafe'
    BY <2>1, <2>2 DEF OneAcquires, FileOfKeeper, FileOfWriter, KeepersAreSafe,
                      Acquiring, Keeping, Holding
  <2>4. OneTurn' /\ StoppedForTask'
    BY <1>1, <1>5, <2>1 DEF MaintenanceInv, Serial, OneTurn, StoppedForTask, worker
  <2>5. QED
    BY <2>3, <2>4 DEF Serial
<1>6. QED
  BY <1>1, <1>2, <1>3, <1>4, <1>5 DEF MaintenanceInv

LEMMA InvRead ==
    ASSUME MaintenanceInv, NEW c \in Call, Read(c)
    PROVE  MaintenanceInv'
<1>1. /\ at[c] = "read" /\ UNCHANGED <<lock, retry, active, alive, worker, stopping, overlapped>>
      /\ \/ at' = [at EXCEPT ![c] = "refused"]
         \/ /\ at' = [at EXCEPT ![c] = "unlink"]
            /\ ~(lock # NoLock /\ lock.written /\ Host[lock.by] \in alive)
  BY DEF Read, At, Goto, OnlyFlow
<1>2. PICK stage \in {"refused", "unlink"} : at' = [at EXCEPT ![c] = stage]
  BY <1>1
<1>3. MaintenanceTypeOK'
  BY <1>1, <1>2 DEF MaintenanceInv, MaintenanceTypeOK, worker, Acquiring, Ended
<1>4. NoOrphanLock'
  BY <1>1, <1>2 DEF MaintenanceInv, MaintenanceTypeOK, NoOrphanLock, MayHold, Holding, Lock
<1>5. HostsAlive'
  BY <1>1, <1>2 DEF MaintenanceInv, MaintenanceTypeOK, HostsAlive, Ended
<1>6. ASSUME ~overlapped PROVE Serial'
  <2>1. CASE at' = [at EXCEPT ![c] = "refused"]
    <3>1. "refused" \notin Acquiring /\ "refused" \notin Keeping \cup {"write", "unlink"}
      BY DEF Keeping, Holding, Acquiring
    <3>2. QED
      BY <1>1, <1>6, <2>1, <3>1, StillSerial
  <2>2. CASE /\ at' = [at EXCEPT ![c] = "unlink"]
             /\ ~(lock # NoLock /\ lock.written /\ Host[lock.by] \in alive)
    <3>1. at'[c] = "unlink" /\ \A d \in Call \ {c} : at'[d] = at[d]
      BY <2>2 DEF MaintenanceInv, MaintenanceTypeOK
    <3>2. \A d \in Call \ {c} : at[d] \notin Acquiring
      BY <1>1, <1>6 DEF MaintenanceInv, Serial, OneAcquires, Acquiring
    <3>3. ASSUME NEW d \in Call, at[d] \in Keeping PROVE FALSE
      <4>1. lock = [by |-> d, written |-> TRUE] /\ Host[d] \in alive
        BY <1>6, <3>3 DEF MaintenanceInv, Serial, FileOfKeeper, HostsAlive, Keeping, Holding, Ended
      <4>2. lock # NoLock /\ lock.written /\ lock.by = d
        BY <4>1, LockFacts
      <4>3. QED
        BY <2>2, <4>1, <4>2
    <3>4. OneAcquires' /\ FileOfKeeper' /\ FileOfWriter' /\ KeepersAreSafe'
      BY <3>1, <3>2, <3>3 DEF OneAcquires, FileOfKeeper, FileOfWriter, KeepersAreSafe,
                              Acquiring, Keeping, Holding
    <3>5. OneTurn' /\ StoppedForTask'
      BY <1>1, <1>6, <3>1 DEF MaintenanceInv, Serial, OneTurn, StoppedForTask, worker
    <3>6. QED
      BY <3>4, <3>5 DEF Serial
  <2>3. QED
    BY <1>1, <2>1, <2>2
<1>7. QED
  BY <1>1, <1>3, <1>4, <1>5, <1>6 DEF MaintenanceInv

LEMMA InvUnlink ==
    ASSUME MaintenanceInv, NEW c \in Call, Unlink(c)
    PROVE  MaintenanceInv'
<1>1. /\ at[c] = "unlink" /\ lock' = NoLock /\ retry' = [retry EXCEPT ![c] = TRUE]
      /\ at' = [at EXCEPT ![c] = IF retry[c] THEN "refused" ELSE "open"]
      /\ UNCHANGED <<active, alive, worker, stopping, overlapped>>
  BY DEF Unlink, At, Goto, OnlyFlow
<1>2. PICK stage \in {"refused", "open"} : at' = [at EXCEPT ![c] = stage]
  BY <1>1
<1>3. MaintenanceTypeOK'
  BY <1>1, <1>2 DEF MaintenanceInv, MaintenanceTypeOK, worker, Acquiring, Ended
<1>4. NoOrphanLock'
  BY <1>1 DEF NoOrphanLock
<1>5. HostsAlive'
  BY <1>1, <1>2 DEF MaintenanceInv, MaintenanceTypeOK, HostsAlive, Ended
<1>6. ASSUME ~overlapped PROVE Serial'
  <2>1. /\ at'[c] \in {"refused", "open"} /\ \A d \in Call \ {c} : at'[d] = at[d]
    BY <1>2 DEF MaintenanceInv, MaintenanceTypeOK
  <2>2. /\ \A d \in Call \ {c} : at[d] \notin Acquiring
        /\ \A d \in Call : at[d] \notin Keeping
    BY <1>1, <1>6 DEF MaintenanceInv, Serial, OneAcquires, KeepersAreSafe, Acquiring
  <2>3. OneAcquires' /\ FileOfKeeper' /\ FileOfWriter' /\ KeepersAreSafe'
    BY <2>1, <2>2 DEF OneAcquires, FileOfKeeper, FileOfWriter, KeepersAreSafe,
                      Acquiring, Keeping, Holding
  <2>4. OneTurn' /\ StoppedForTask'
    BY <1>1, <1>6, <2>1 DEF MaintenanceInv, Serial, OneTurn, StoppedForTask, worker
  <2>5. QED
    BY <2>3, <2>4 DEF Serial
<1>7. QED
  BY <1>1, <1>3, <1>4, <1>5, <1>6 DEF MaintenanceInv

LEMMA InvTaskEnds ==
    ASSUME MaintenanceInv, NEW c \in Call, NEW ok \in BOOLEAN, TaskEnds(c, ok)
    PROVE  MaintenanceInv'
<1>1. /\ at[c] = "task" /\ at' = [at EXCEPT ![c] = "release"]
      /\ active' = [active EXCEPT ![Host[c]] = FALSE]
      /\ IF Host[c] = Server /\ ~stopping THEN Start ELSE UNCHANGED worker
      /\ UNCHANGED <<retry, lock, alive, stopping, overlapped>>
  BY DEF TaskEnds, At, Goto
<1>2. MaintenanceTypeOK'
  <2>1. active' \in [Process -> BOOLEAN]
    BY <1>1 DEF MaintenanceInv, MaintenanceTypeOK
  <2>2. started' \in BOOLEAN
    BY <1>1 DEF MaintenanceInv, MaintenanceTypeOK, Start, worker
  <2>3. timers' \in Nat /\ runs' \in Nat
    BY <1>1 DEF MaintenanceInv, MaintenanceTypeOK, Start, worker
  <2>4. QED
    BY <1>1, <2>1, <2>2, <2>3 DEF MaintenanceInv, MaintenanceTypeOK
<1>3. NoOrphanLock'
  BY <1>1 DEF MaintenanceInv, MaintenanceTypeOK, NoOrphanLock, MayHold, Holding, Lock
<1>4. HostsAlive'
  BY <1>1 DEF MaintenanceInv, MaintenanceTypeOK, HostsAlive, Ended
<1>5. ASSUME ~overlapped PROVE Serial'
  <2>1. at'[c] = "release" /\ \A d \in Call \ {c} : at'[d] = at[d]
    BY <1>1 DEF MaintenanceInv, MaintenanceTypeOK
  <2>2. Serial /\ c \in Call /\ at[c] \in Keeping
    BY <1>1, <1>5 DEF MaintenanceInv, Keeping, Holding
  <2>3. OneAcquires' /\ FileOfWriter'
    BY <1>1, <2>1, <2>2 DEF Serial, OneAcquires, FileOfWriter, Acquiring
  <2>4. FileOfKeeper' /\ KeepersAreSafe'
    BY <1>1, <2>1, <2>2 DEF Serial, FileOfKeeper, KeepersAreSafe
  <2>5. \A d \in Call \ {c} : at[d] \notin Keeping
    BY <2>2 DEF Serial, FileOfKeeper
  <2>6. StoppedForTask'
    BY <2>1, <2>5 DEF StoppedForTask, Keeping, Holding
  <2>7. ASSUME Host[c] = Server PROVE OneTurn'
    BY <1>1, <2>2, <2>7 DEF MaintenanceInv, MaintenanceTypeOK, Serial, OneTurn, StoppedForTask, Start, worker
  <2>8. ASSUME Host[c] # Server PROVE OneTurn'
    BY <1>1, <2>2, <2>8 DEF Serial, OneTurn, worker
  <2>9. QED
    BY <2>3, <2>4, <2>6, <2>7, <2>8 DEF Serial
<1>6. QED
  BY <1>1, <1>2, <1>3, <1>4, <1>5 DEF MaintenanceInv

LEMMA InvRelease ==
    ASSUME MaintenanceInv, NEW c \in Call, Release(c)
    PROVE  MaintenanceInv'
<1>1. /\ at[c] = "release" /\ UNCHANGED <<retry, active, alive, worker, stopping, overlapped>>
      /\ \/ lock' = NoLock /\ at' = [at EXCEPT ![c] = "done"]
         \/ lock' = lock /\ at' = [at EXCEPT ![c] = "failed"]
  BY DEF Release, At, Goto, OnlyFlow
<1>2. PICK stage \in {"done", "failed"} : at' = [at EXCEPT ![c] = stage]
  BY <1>1
<1>3. MaintenanceTypeOK'
  BY <1>1, <1>2 DEF MaintenanceInv, MaintenanceTypeOK, worker, Ended
<1>4. NoOrphanLock'
  BY <1>1 DEF MaintenanceInv, MaintenanceTypeOK, NoOrphanLock, MayHold, Holding, Lock
<1>5. HostsAlive'
  BY <1>1, <1>2 DEF MaintenanceInv, MaintenanceTypeOK, HostsAlive, Ended
<1>6. ASSUME ~overlapped PROVE Serial'
  <2>1. at'[c] \in {"done", "failed"} /\ \A d \in Call \ {c} : at'[d] = at[d]
    BY <1>2 DEF MaintenanceInv, MaintenanceTypeOK
  <2>2. Serial /\ lock = [by |-> c, written |-> TRUE]
    BY <1>1, <1>6 DEF MaintenanceInv, Serial, FileOfKeeper, Keeping
  <2>3. \A d \in Call \ {c} : at[d] \notin Keeping \cup {"write"}
    BY <2>2 DEF Serial, FileOfKeeper, FileOfWriter
  <2>4. OneAcquires' /\ FileOfKeeper' /\ FileOfWriter' /\ KeepersAreSafe'
    BY <2>1, <2>2, <2>3 DEF Serial, OneAcquires, FileOfKeeper, FileOfWriter, KeepersAreSafe,
                            Acquiring, Keeping, Holding
  <2>5. OneTurn' /\ StoppedForTask'
    BY <1>1, <2>1, <2>2 DEF Serial, OneTurn, StoppedForTask, worker
  <2>6. QED
    BY <2>4, <2>5 DEF Serial
<1>7. QED
  BY <1>1, <1>3, <1>4, <1>5, <1>6 DEF MaintenanceInv

\* The steps of the worker and of the processes.
LEMMA InvRunStarts ==
    ASSUME MaintenanceInv, RunStarts
    PROVE  MaintenanceInv'
<1>1. /\ timers > 0 /\ timers' = timers - 1 /\ runs' = runs + 1
      /\ UNCHANGED <<started, at, retry, lock, active, alive, stopping, overlapped>>
  BY DEF RunStarts
<1>2. MaintenanceTypeOK' /\ NoOrphanLock' /\ HostsAlive'
  BY <1>1 DEF MaintenanceInv, MaintenanceTypeOK, NoOrphanLock, MayHold, HostsAlive
<1>3. ASSUME ~overlapped PROVE Serial'
  <2>1. started /\ OneTurn'
    BY <1>1, <1>3 DEF MaintenanceInv, MaintenanceTypeOK, Serial, OneTurn
  <2>2. OneAcquires' /\ FileOfKeeper' /\ FileOfWriter' /\ KeepersAreSafe' /\ StoppedForTask'
    BY <1>1, <1>3, <2>1 DEF MaintenanceInv, Serial, OneAcquires, FileOfKeeper, FileOfWriter,
                            KeepersAreSafe, StoppedForTask
  <2>3. QED
    BY <2>1, <2>2 DEF Serial
<1>4. QED
  BY <1>1, <1>2, <1>3 DEF MaintenanceInv

LEMMA InvRunEnds ==
    ASSUME MaintenanceInv, RunEnds
    PROVE  MaintenanceInv'
<1>1. /\ runs > 0 /\ runs' = runs - 1 /\ timers' = IF started THEN timers + 1 ELSE timers
      /\ at' = [c \in Call |-> IF at[c] = "draining" THEN "task" ELSE at[c]]
      /\ UNCHANGED <<started, retry, lock, active, alive, stopping, overlapped>>
  BY DEF RunEnds
<1>2. MaintenanceTypeOK'
  <2>1. timers' \in Nat /\ runs' \in Nat
    BY <1>1 DEF MaintenanceInv, MaintenanceTypeOK
  <2>2. QED
    BY <1>1, <2>1 DEF MaintenanceInv, MaintenanceTypeOK, Holding
<1>3. NoOrphanLock'
  BY <1>1 DEF MaintenanceInv, MaintenanceTypeOK, NoOrphanLock, MayHold, Holding, Lock
<1>4. HostsAlive'
  BY <1>1 DEF MaintenanceInv, MaintenanceTypeOK, HostsAlive, Ended
<1>5. ASSUME ~overlapped PROVE Serial'
  <2>1. \A c \in Call : at'[c] = at[c] \/ (at[c] = "draining" /\ at'[c] = "task")
    BY <1>1
  <2>2. Serial
    BY <1>5 DEF MaintenanceInv
  <2>3. OneAcquires' /\ FileOfKeeper' /\ FileOfWriter' /\ KeepersAreSafe'
    BY <1>1, <2>1, <2>2 DEF Serial, OneAcquires, FileOfKeeper, FileOfWriter, KeepersAreSafe,
                            Acquiring, Keeping, Holding
  <2>4. OneTurn'
    BY <1>1, <2>2 DEF MaintenanceInv, MaintenanceTypeOK, Serial, OneTurn
  <2>5. runs' = 0
    BY <1>1, <2>2 DEF MaintenanceInv, MaintenanceTypeOK, Serial, OneTurn
  <2>6. StoppedForTask'
    BY <1>1, <2>1, <2>2, <2>5 DEF Serial, StoppedForTask
  <2>7. QED
    BY <2>3, <2>4, <2>6 DEF Serial
<1>6. QED
  BY <1>1, <1>2, <1>3, <1>4, <1>5 DEF MaintenanceInv

LEMMA InvShutdown ==
    ASSUME MaintenanceInv, Shutdown
    PROVE  MaintenanceInv'
<1>1. /\ Stop /\ stopping' = TRUE
      /\ UNCHANGED <<at, retry, lock, active, alive, overlapped>>
  BY DEF Shutdown
<1>2. MaintenanceTypeOK'
  <2>1. started' \in BOOLEAN
    BY <1>1 DEF Stop
  <2>2. timers' \in Nat /\ runs' \in Nat
    BY <1>1 DEF MaintenanceInv, MaintenanceTypeOK, Stop
  <2>3. QED
    BY <1>1, <2>1, <2>2 DEF MaintenanceInv, MaintenanceTypeOK
<1>3. NoOrphanLock' /\ HostsAlive'
  BY <1>1 DEF MaintenanceInv, NoOrphanLock, MayHold, HostsAlive
<1>4. ASSUME ~overlapped PROVE Serial'
  <2>1. Serial
    BY <1>4 DEF MaintenanceInv
  <2>2. OneTurn'
    BY <1>1, <2>1 DEF MaintenanceInv, MaintenanceTypeOK, Serial, OneTurn, Stop
  <2>3. OneAcquires' /\ FileOfKeeper' /\ FileOfWriter' /\ KeepersAreSafe' /\ StoppedForTask'
    BY <1>1, <2>1 DEF Serial, OneAcquires, FileOfKeeper, FileOfWriter, KeepersAreSafe,
                      StoppedForTask, Stop
  <2>4. QED
    BY <2>2, <2>3 DEF Serial
<1>5. QED
  BY <1>1, <1>2, <1>3, <1>4 DEF MaintenanceInv

LEMMA InvDie ==
    ASSUME MaintenanceInv, NEW p \in Process, ProcessDies(p)
    PROVE  MaintenanceInv'
<1>1. /\ alive' = alive \ {p}
      /\ at' = [c \in Call |-> IF Host[c] = p /\ at[c] \notin Ended THEN "killed" ELSE at[c]]
      /\ UNCHANGED <<retry, lock, active, worker, stopping, overlapped>>
  BY DEF ProcessDies
<1>2. MaintenanceTypeOK'
  BY <1>1 DEF MaintenanceInv, MaintenanceTypeOK, worker, Ended
<1>3. NoOrphanLock'
  BY <1>1 DEF MaintenanceInv, MaintenanceTypeOK, NoOrphanLock, MayHold, Holding, Lock
<1>4. HostsAlive'
  BY <1>1 DEF MaintenanceInv, MaintenanceTypeOK, HostsAlive, Ended
<1>5. ASSUME ~overlapped PROVE Serial'
  <2>1. \A c \in Call : at'[c] \in {at[c], "killed"}
    BY <1>1
  <2>2. Serial
    BY <1>5 DEF MaintenanceInv
  <2>3. OneAcquires' /\ FileOfKeeper' /\ FileOfWriter' /\ KeepersAreSafe'
    BY <1>1, <2>1, <2>2 DEF Serial, OneAcquires, FileOfKeeper, FileOfWriter, KeepersAreSafe,
                            Acquiring, Keeping, Holding
  <2>4. OneTurn' /\ StoppedForTask'
    BY <1>1, <2>1, <2>2 DEF Serial, OneTurn, StoppedForTask, worker
  <2>5. QED
    BY <2>3, <2>4 DEF Serial
<1>6. QED
  BY <1>1, <1>2, <1>3, <1>4, <1>5 DEF MaintenanceInv

\* Maintenance: the invariant of the coordinator, its lock file and the worker.
THEOREM MaintenanceInvariant == MaintenanceSpec => []MaintenanceInv
<1>1. MaintenanceInv /\ [MaintenanceNext]_maintenanceVars => MaintenanceInv'
  <2> SUFFICES ASSUME MaintenanceInv, [MaintenanceNext]_maintenanceVars PROVE MaintenanceInv'
    OBVIOUS
  <2>1. CASE UNCHANGED maintenanceVars
    BY <2>1 DEF maintenanceVars, worker, MaintenanceInv, MaintenanceTypeOK, NoOrphanLock, MayHold, HostsAlive,
                Serial, OneAcquires, FileOfKeeper, FileOfWriter, KeepersAreSafe, OneTurn,
                StoppedForTask
  <2>2. ASSUME NEW c \in Call, Step(c) PROVE MaintenanceInv'
    BY <2>2, InvEnter, InvOpen, InvWrite, InvWriteFails, InvRead, InvUnlink, InvTaskEnds,
       InvRelease DEF Step
  <2>3. QED
    BY <2>1, <2>2, InvRunStarts, InvRunEnds, InvShutdown, InvDie DEF MaintenanceNext
<1>2. QED
  BY LockInit, <1>1, PTL DEF MaintenanceSpec

\* run of the coordinator: two tasks never run at once as long as no two calls
\* take the lock file at the same time, whatever fails or dies.
THEOREM SerialCallsExclude == MaintenanceSpec => []SerialMutualExclusion
BY MaintenanceInvariant, Guarded, PTL

\* The guard of index.ts: no job runs, and none can start, while the task of such
\* a call of the server does.
THEOREM TasksRunAlone == MaintenanceSpec => []WorkerPaused
BY MaintenanceInvariant, Guarded, PTL

\* A lock file that names a living process is one its call will still remove, or
\* failed to, whichever calls overlapped.
THEOREM LocksAreReleased == MaintenanceSpec => []NoOrphanLock
BY MaintenanceInvariant, PTL DEF MaintenanceInv

-----------------------------------------------------------------------------
USE JobQueueAssumption, JobWorkerAssumption DEF Status, Active, Terminal

-----------------------------------------------------------------------------
(* The job table alone.                                                        *)
LEMMA NoRowType == NoRow \in Row
BY DEF NoRow, NewRow, Row

LEMMA NewRowType ==
    ASSUME NEW t \in JobType, NEW k \in Key
    PROVE  NewRow(t, k, "queued") \in Row
BY DEF NewRow, Row

\* The three ways a row is updated keep its columns typed.
LEMMA RequeuedType ==
    ASSUME NEW row \in Row, NEW delay \in -Horizon..MaxRetryDelay
    PROVE  Requeued(row, delay) \in Row
BY DEF Requeued, Updated, Row

LEMMA FinishedType ==
    ASSUME NEW row \in Row, NEW outcome \in Terminal
    PROVE  Finished(row, outcome) \in Row
BY DEF Finished, Updated, Row

LEMMA ClaimedType ==
    ASSUME NEW row \in Row, NEW w \in WorkerId, row.attempts < MaxAttempts
    PROVE  Claimed(row, w) \in Row
BY DEF Claimed, Updated, Row

LEMMA RecoveredType ==
    ASSUME NEW row \in Row
    PROVE  Recovered(row) \in Row
<1>1. 0 \in -Horizon..MaxRetryDelay
  OBVIOUS
<1>2. "failed" \in Terminal
  BY DEF Terminal
<1>3. QED
  BY <1>1, <1>2, RequeuedType, FinishedType DEF Recovered

LEMMA RetryDelayType ==
    ASSUME NEW attempt
    PROVE  RetryDelay(attempt) \in -Horizon..MaxRetryDelay
BY DEF RetryDelay

LEMMA LaterType ==
    ASSUME NEW row \in Row
    PROVE  Later(row) \in Row
<1>1. CASE row.status = "queued" /\ row.availableIn > -Horizon
  BY <1>1 DEF Later, Row
<1>2. CASE row.status = "running" /\ row.leaseLeft > 0
  BY <1>2 DEF Later, Row
<1>3. CASE ~(row.status = "queued" /\ row.availableIn > -Horizon)
           /\ ~(row.status = "running" /\ row.leaseLeft > 0)
  BY <1>3 DEF Later
<1>4. QED
  BY <1>1, <1>2, <1>3
-----------------------------------------------------------------------------
(* One row at a time: what each operation makes of a row it may touch. *)

RowOK(row) ==
    /\ row \in Row
    /\ (row.status = "running") <=> (row.owner # NoWorker)
    /\ row.status = "queued" => row.attempts < MaxAttempts
    /\ row.status = "running" => row.attempts > 0

\* new is an update of old that does not bring a job to life.
NoNewJob(old, new) ==
    /\ new.type = old.type
    /\ new.status \in Active => old.status \in Active

LEMMA RowInvIsRowOK == RowInv <=> jobs \in [Job -> Row] /\ \A j \in Job : RowOK(jobs[j])
BY DEF RowInv, JobsTypeOK, LeaseIffRunning, QueuedHasAttemptLeft, RowOK

LEMMA RowInvIsRowOKNext ==
    ASSUME jobs' \in [Job -> Row], \A j \in Job : RowOK(jobs'[j])
    PROVE  RowInv'
BY DEF RowInv, JobsTypeOK, LeaseIffRunning, QueuedHasAttemptLeft, RowOK

LEMMA RequeuedOK ==
    ASSUME NEW row, RowOK(row), row.attempts < MaxAttempts, row.status = "running",
           NEW delay \in -Horizon..MaxRetryDelay
    PROVE  RowOK(Requeued(row, delay)) /\ NoNewJob(row, Requeued(row, delay))
BY RequeuedType DEF RowOK, NoNewJob, Requeued, Updated, Row

LEMMA FinishedOK ==
    ASSUME NEW row, RowOK(row), NEW outcome \in Terminal
    PROVE  RowOK(Finished(row, outcome)) /\ NoNewJob(row, Finished(row, outcome))
BY FinishedType DEF RowOK, NoNewJob, Finished, Updated, Row

LEMMA RecoveredOK ==
    ASSUME NEW row, RowOK(row), row.status = "running"
    PROVE  RowOK(Recovered(row)) /\ NoNewJob(row, Recovered(row))
<1>1. 0 \in -Horizon..MaxRetryDelay
  OBVIOUS
<1>2. QED
  BY <1>1, RequeuedOK, FinishedOK DEF Recovered

LEMMA ClaimedOK ==
    ASSUME NEW row, RowOK(row), row.status = "queued", NEW w \in WorkerId
    PROVE  RowOK(Claimed(row, w)) /\ NoNewJob(row, Claimed(row, w))
<1>1. row \in Row /\ row.attempts < MaxAttempts
  BY DEF RowOK
<1>2. Claimed(row, w) \in Row
  BY <1>1, ClaimedType
<1>3. QED
  BY <1>1, <1>2 DEF RowOK, NoNewJob, Claimed, Updated, Row

LEMMA LaterOK ==
    ASSUME NEW row, RowOK(row)
    PROVE  RowOK(Later(row)) /\ NoNewJob(row, Later(row))
<1>1. row \in Row /\ Later(row) \in Row
  BY LaterType DEF RowOK
<1>2. CASE row.status = "queued" /\ row.availableIn > -Horizon
  BY <1>1, <1>2 DEF Later, RowOK, NoNewJob, Row
<1>3. CASE row.status = "running" /\ row.leaseLeft > 0
  BY <1>1, <1>3 DEF Later, RowOK, NoNewJob, Row
<1>4. CASE ~(row.status = "queued" /\ row.availableIn > -Horizon)
           /\ ~(row.status = "running" /\ row.leaseLeft > 0)
  BY <1>4 DEF Later, RowOK, NoNewJob
<1>5. QED
  BY <1>2, <1>3, <1>4

\* No operation but an insertion can break the exclusiveness of a type.
LEMMA NoNewJobKeepsExclusive ==
    ASSUME OneActivePerExclusiveType,
           \A j \in Job : NoNewJob(jobs[j], jobs'[j])
    PROVE  OneActivePerExclusiveType'
BY DEF OneActivePerExclusiveType, NoNewJob, IsActive

\* An operation that rewrites rows acceptably keeps the invariant...
LEMMA RowsUpdated ==
    ASSUME QueueInv, jobs' \in [Job -> Row],
           \A j \in Job : RowOK(jobs'[j]) /\ NoNewJob(jobs[j], jobs'[j])
    PROVE  QueueInv'
BY RowInvIsRowOKNext, NoNewJobKeepsExclusive DEF QueueInv

\* ...in particular one that rewrites a single row.
LEMMA OneRowUpdated ==
    ASSUME QueueInv, NEW j \in Job, NEW row, RowOK(row), NoNewJob(jobs[j], row),
           jobs' = [jobs EXCEPT ![j] = row]
    PROVE  QueueInv'
<1>1. jobs \in [Job -> Row] /\ \A i \in Job : RowOK(jobs[i])
  BY RowInvIsRowOK DEF QueueInv
<1>2. row \in Row
  BY DEF RowOK
<1>3. jobs' \in [Job -> Row] /\ \A i \in Job : RowOK(jobs'[i])
  BY <1>1, <1>2
<1>4. \A i \in Job : NoNewJob(jobs[i], jobs'[i])
  BY <1>1 DEF NoNewJob
<1>5. QED
  BY <1>3, <1>4, RowsUpdated

-----------------------------------------------------------------------------
(* Every operation keeps the invariant. *)

LEMMA EnqueueKeepsRows ==
    ASSUME QueueInv, NEW j \in Job, NEW t \in JobType, NEW k \in Key, Enqueue(j, t, k)
    PROVE  RowInv' /\ jobs' = [jobs EXCEPT ![j] = NewRow(t, k, "queued")]
<1>1. jobs \in [Job -> Row] /\ \A i \in Job : RowOK(jobs[i])
  BY RowInvIsRowOK DEF QueueInv
<1>2. RowOK(NewRow(t, k, "queued"))
  BY NewRowType DEF RowOK, NewRow
<1>3. jobs' = [jobs EXCEPT ![j] = NewRow(t, k, "queued")]
  BY DEF Enqueue
<1>4. jobs' \in [Job -> Row] /\ \A i \in Job : RowOK(jobs'[i])
  BY <1>1, <1>2, <1>3 DEF RowOK
<1>5. QED
  BY <1>3, <1>4, RowInvIsRowOKNext

LEMMA EnqueueStep ==
    ASSUME QueueInv, NEW j \in Job, NEW t \in JobType, NEW k \in Key, Enqueue(j, t, k),
           t \in ExclusiveType => NoneActive(t)
    PROVE  QueueInv'
<1>1. RowInv' /\ jobs' = [jobs EXCEPT ![j] = NewRow(t, k, "queued")]
  BY EnqueueKeepsRows
<1>2. jobs \in [Job -> Row]
  BY RowInvIsRowOK DEF QueueInv
<1>3. OneActivePerExclusiveType'
  BY <1>1, <1>2 DEF QueueInv, OneActivePerExclusiveType, NoneActive, IsActive, NewRow
<1>4. QED
  BY <1>1, <1>3 DEF QueueInv

LEMMA CancelStep ==
    ASSUME QueueInv, NEW j \in Job, Cancel(j)
    PROVE  QueueInv'
<1>1. RowOK(jobs[j])
  BY RowInvIsRowOK DEF QueueInv
<1>2. jobs' = [jobs EXCEPT ![j] = Finished(jobs[j], "cancelled")]
  BY DEF Cancel
<1>3. QED
  BY <1>1, <1>2, FinishedOK, OneRowUpdated

LEMMA RecoverStep ==
    ASSUME QueueInv, RecoverAbandoned
    PROVE  QueueInv'
<1>1. jobs \in [Job -> Row] /\ \A j \in Job : RowOK(jobs[j])
  BY RowInvIsRowOK DEF QueueInv
<1>2. ASSUME NEW j \in Job
      PROVE  jobs'[j] \in Row /\ RowOK(jobs'[j]) /\ NoNewJob(jobs[j], jobs'[j])
  <2>1. CASE LeaseExpired(j)
    <3>1. jobs'[j] = Recovered(jobs[j])
      BY <2>1 DEF RecoverAbandoned
    <3>2. QED
      BY <1>1, <2>1, <3>1, RecoveredOK DEF LeaseExpired, RowOK
  <2>2. CASE ~LeaseExpired(j)
    BY <1>1, <2>2 DEF RecoverAbandoned, NoNewJob, RowOK
  <2>3. QED
    BY <2>1, <2>2
<1>3. jobs' \in [Job -> Row]
  BY <1>2 DEF RecoverAbandoned
<1>4. QED
  BY <1>2, <1>3, RowsUpdated

LEMMA TimeStep ==
    ASSUME QueueInv, TimePasses
    PROVE  QueueInv'
<1>1. \A j \in Job : RowOK(jobs[j])
  BY RowInvIsRowOK DEF QueueInv
<1>2. \A j \in Job : jobs'[j] = Later(jobs[j])
  BY DEF TimePasses
<1>3. \A j \in Job : RowOK(jobs'[j]) /\ NoNewJob(jobs[j], jobs'[j])
  BY <1>1, <1>2, LaterOK
<1>4. jobs' \in [Job -> Row]
  BY <1>3 DEF TimePasses, RowOK
<1>5. QED
  BY <1>3, <1>4, RowsUpdated

LEMMA ClaimStep ==
    ASSUME QueueInv, NEW j \in Job, NEW w \in WorkerId, Claim(j, w)
    PROVE  QueueInv'
<1>1. RowOK(jobs[j]) /\ jobs[j].status = "queued"
  BY RowInvIsRowOK DEF QueueInv, Claim, NextToClaim, Claimable
<1>2. jobs' = [jobs EXCEPT ![j] = Claimed(jobs[j], w)]
  BY DEF Claim
<1>3. QED
  BY <1>1, <1>2, ClaimedOK, OneRowUpdated

LEMMA HeartbeatStep ==
    ASSUME QueueInv, NEW j \in Job, NEW w \in WorkerId, Heartbeat(j, w)
    PROVE  QueueInv'
<1> DEFINE row == [jobs[j] EXCEPT !.leaseLeft = LeaseDuration]
<1>1. jobs \in [Job -> Row] /\ RowOK(jobs[j])
  BY RowInvIsRowOK DEF QueueInv
<1>2. jobs' = [jobs EXCEPT ![j] = row]
  BY DEF Heartbeat
<1>3. RowOK(row) /\ NoNewJob(jobs[j], row)
  BY <1>1 DEF RowOK, NoNewJob, Row
<1>4. QED
  BY <1>2, <1>3, OneRowUpdated

LEMMA CompleteStep ==
    ASSUME QueueInv, NEW j \in Job, NEW w \in WorkerId, Complete(j, w)
    PROVE  QueueInv'
<1>1. RowOK(jobs[j])
  BY RowInvIsRowOK DEF QueueInv
<1>2. jobs' = [jobs EXCEPT ![j] = Finished(jobs[j], "succeeded")]
  BY DEF Complete
<1>3. QED
  BY <1>1, <1>2, FinishedOK, OneRowUpdated

LEMMA FailStep ==
    ASSUME QueueInv, NEW j \in Job, NEW w \in WorkerId, NEW retryable \in BOOLEAN,
           Fail(j, w, retryable)
    PROVE  QueueInv'
<1>1. RowOK(jobs[j]) /\ jobs[j].status = "running"
  BY RowInvIsRowOK DEF QueueInv, Fail, HoldsLease
<1>2. CASE retryable /\ jobs[j].attempts < MaxAttempts
  <2>1. jobs' = [jobs EXCEPT ![j] = Requeued(jobs[j], RetryDelay(jobs[j].attempts))]
    BY <1>2 DEF Fail
  <2>2. QED
    BY <1>1, <1>2, <2>1, RequeuedOK, RetryDelayType, OneRowUpdated
<1>3. CASE ~(retryable /\ jobs[j].attempts < MaxAttempts)
  <2>1. jobs' = [jobs EXCEPT ![j] = Finished(jobs[j], "failed")]
    BY <1>3 DEF Fail
  <2>2. QED
    BY <1>1, <2>1, FinishedOK, OneRowUpdated
<1>4. QED
  BY <1>2, <1>3

LEMMA QueueInit_Inv == QueueInit => QueueInv
<1> SUFFICES ASSUME QueueInit PROVE QueueInv
  OBVIOUS
<1>1. \A j \in Job : jobs[j] = NoRow
  BY DEF QueueInit
<1>2. RowInv
  BY <1>1, NoRowType DEF QueueInit, RowInv, JobsTypeOK, LeaseIffRunning,
                         QueuedHasAttemptLeft, NoRow, NewRow
<1>3. OneActivePerExclusiveType
  <2>1. NoRow.status = "absent"
    BY DEF NoRow, NewRow
  <2>2. \A j \in Job : ~IsActive(j)
    BY <1>1, <2>1 DEF IsActive
  <2>3. QED
    BY <2>2 DEF OneActivePerExclusiveType
<1>4. QED
  BY <1>2, <1>3 DEF QueueInv

LEMMA QueueNext_Inv ==
    ASSUME QueueInv, [QueueNext]_jobs
    PROVE  QueueInv'
<1>1. CASE Request
  BY <1>1, EnqueueStep, CancelStep DEF Request, EnqueueExclusive
<1>2. CASE RecoverAbandoned
  BY <1>2, RecoverStep
<1>3. CASE TimePasses
  BY <1>3, TimeStep
<1>4. ASSUME NEW j \in Job, NEW w \in WorkerId,
             \/ Claim(j, w) \/ Heartbeat(j, w) \/ Complete(j, w)
             \/ \E retryable \in BOOLEAN : Fail(j, w, retryable)
      PROVE  QueueInv'
  BY <1>4, ClaimStep, HeartbeatStep, CompleteStep, FailStep
<1>5. CASE UNCHANGED jobs
  BY <1>5 DEF QueueInv, RowInv, JobsTypeOK, LeaseIffRunning, QueuedHasAttemptLeft,
              OneActivePerExclusiveType, IsActive
<1>6. QED
  BY <1>1, <1>2, <1>3, <1>4, <1>5 DEF QueueNext

\* Whatever callers do with the queue's methods, and in whatever order, the table
\* keeps its types, leases belong to running jobs, waiting jobs have an attempt
\* left, and exclusive types have one active job.
THEOREM QueueInvariant == QueueSpec => []QueueInv
<1>1. QueueInit => QueueInv
  BY QueueInit_Inv
<1>2. QueueInv /\ [QueueNext]_jobs => QueueInv'
  BY QueueNext_Inv
<1>3. QED
  BY <1>1, <1>2, PTL DEF QueueSpec
-----------------------------------------------------------------------------
(* Each operation moves a row only along the abstract lifecycle. *)

\* The lifecycle's step on one job, on rows.
RowStep(old, new) ==
    \/ /\ old.status = "absent" /\ new.status = "queued" /\ new.attempts = 0
    \/ /\ old.status = "queued" /\ old.attempts < MaxAttempts
       /\ new.status = "running" /\ new.attempts = old.attempts + 1
    \/ /\ old.status = "running" /\ old.attempts < MaxAttempts
       /\ new.status = "queued" /\ new.attempts = old.attempts
    \/ /\ old.status = "running" /\ new.status \in Terminal
       /\ new.attempts = old.attempts
    \/ /\ old.status = "queued" /\ new.status = "cancelled"
       /\ new.attempts = old.attempts
    \/ /\ old.status \in Active
       /\ new.status = old.status /\ new.attempts = old.attempts
    \/ new = old

LEMMA LaterRowStep ==
    ASSUME NEW row \in Row
    PROVE  RowStep(row, Later(row))
<1>1. CASE row.status = "queued" /\ row.availableIn > -Horizon
  BY <1>1 DEF Later, Row, RowStep
<1>2. CASE row.status = "running" /\ row.leaseLeft > 0
  BY <1>2 DEF Later, Row, RowStep
<1>3. CASE ~(row.status = "queued" /\ row.availableIn > -Horizon)
           /\ ~(row.status = "running" /\ row.leaseLeft > 0)
  BY <1>3 DEF Later, RowStep
<1>4. QED
  BY <1>1, <1>2, <1>3

LEMMA OneRowStep ==
    ASSUME jobs \in [Job -> Row], NEW j \in Job, NEW row, RowStep(jobs[j], row),
           jobs' = [jobs EXCEPT ![j] = row]
    PROVE  \A i \in Job : RowStep(jobs[i], jobs'[i])
<1> TAKE i \in Job
<1>1. CASE i = j
  BY <1>1
<1>2. CASE i # j
  BY <1>2 DEF RowStep
<1>3. QED
  BY <1>1, <1>2

LEMMA NextRowStep ==
    ASSUME QueueInv, [QueueNext]_jobs
    PROVE  \A i \in Job : RowStep(jobs[i], jobs'[i])
<1>1. jobs \in [Job -> Row] /\ \A j \in Job : RowOK(jobs[j])
  BY RowInvIsRowOK DEF QueueInv
<1>2. ASSUME NEW j \in Job, NEW t \in JobType, NEW k \in Key, Enqueue(j, t, k)
      PROVE  \A i \in Job : RowStep(jobs[i], jobs'[i])
  <2>1. RowStep(jobs[j], NewRow(t, k, "queued"))
    BY <1>2 DEF Enqueue, RowStep, NewRow
  <2>2. QED
    BY <1>1, <1>2, <2>1, OneRowStep DEF Enqueue
<1>3. ASSUME NEW j \in Job, Cancel(j)
      PROVE  \A i \in Job : RowStep(jobs[i], jobs'[i])
  <2>1. RowStep(jobs[j], Finished(jobs[j], "cancelled"))
    BY <1>3 DEF Cancel, IsActive, RowStep, Finished, Updated
  <2>2. QED
    BY <1>1, <1>3, <2>1, OneRowStep DEF Cancel
<1>4. CASE RecoverAbandoned
  <2> TAKE i \in Job
  <2>1. CASE LeaseExpired(i)
    <3>1. jobs'[i] = Recovered(jobs[i])
      BY <1>4, <2>1 DEF RecoverAbandoned
    <3>2. QED
      BY <1>1, <2>1, <3>1 DEF LeaseExpired, Recovered, Requeued, Finished, Updated, RowStep
  <2>2. CASE ~LeaseExpired(i)
    BY <1>4, <2>2 DEF RecoverAbandoned, RowStep
  <2>3. QED
    BY <2>1, <2>2
<1>5. CASE TimePasses
  <2>1. \A i \in Job : jobs'[i] = Later(jobs[i])
    BY <1>5 DEF TimePasses
  <2>2. QED
    BY <1>1, <2>1, LaterRowStep
<1>6. ASSUME NEW j \in Job, NEW w \in WorkerId, Claim(j, w)
      PROVE  \A i \in Job : RowStep(jobs[i], jobs'[i])
  <2>1. RowStep(jobs[j], Claimed(jobs[j], w))
    BY <1>6 DEF Claim, NextToClaim, Claimable, RowStep, Claimed, Updated
  <2>2. QED
    BY <1>1, <1>6, <2>1, OneRowStep DEF Claim
<1>7. ASSUME NEW j \in Job, NEW w \in WorkerId, Heartbeat(j, w)
      PROVE  \A i \in Job : RowStep(jobs[i], jobs'[i])
  <2> DEFINE row == [jobs[j] EXCEPT !.leaseLeft = LeaseDuration]
  <2>1. RowStep(jobs[j], row)
    BY <1>1, <1>7 DEF Heartbeat, HoldsLease, RowStep, Row
  <2>2. jobs' = [jobs EXCEPT ![j] = row]
    BY <1>7 DEF Heartbeat
  <2>3. QED
    BY <1>1, <2>1, <2>2, OneRowStep
<1>8. ASSUME NEW j \in Job, NEW w \in WorkerId, Complete(j, w)
      PROVE  \A i \in Job : RowStep(jobs[i], jobs'[i])
  <2>1. RowStep(jobs[j], Finished(jobs[j], "succeeded"))
    BY <1>8 DEF Complete, HoldsLease, RowStep, Finished, Updated
  <2>2. QED
    BY <1>1, <1>8, <2>1, OneRowStep DEF Complete
<1>9. ASSUME NEW j \in Job, NEW w \in WorkerId, NEW retryable \in BOOLEAN,
             Fail(j, w, retryable)
      PROVE  \A i \in Job : RowStep(jobs[i], jobs'[i])
  <2>1. CASE retryable /\ jobs[j].attempts < MaxAttempts
    <3>1. RowStep(jobs[j], Requeued(jobs[j], RetryDelay(jobs[j].attempts)))
      BY <1>9, <2>1 DEF Fail, HoldsLease, RowStep, Requeued, Updated
    <3>2. QED
      BY <1>1, <1>9, <2>1, <3>1, OneRowStep DEF Fail
  <2>2. CASE ~(retryable /\ jobs[j].attempts < MaxAttempts)
    <3>1. RowStep(jobs[j], Finished(jobs[j], "failed"))
      BY <1>9 DEF Fail, HoldsLease, RowStep, Finished, Updated
    <3>2. QED
      BY <1>1, <1>9, <2>2, <3>1, OneRowStep DEF Fail
  <2>3. QED
    BY <2>1, <2>2
<1>10. CASE UNCHANGED jobs
  BY <1>10 DEF RowStep
<1>11. QED
  BY <1>2, <1>3, <1>4, <1>5, <1>6, <1>7, <1>8, <1>9, <1>10
     DEF QueueNext, Request, EnqueueExclusive

\* A job that has succeeded, failed or been cancelled is never touched again.
THEOREM TerminalRowsAreFinal == QueueSpec => TerminalIsFinal
<1>1. QueueInv /\ [QueueNext]_jobs =>
        [\A j \in Job : IsTerminal(j) => jobs'[j] = jobs[j]]_jobs
  BY NextRowStep DEF IsTerminal, RowStep
<1>2. QED
  BY <1>1, QueueInvariant, PTL DEF QueueSpec, TerminalIsFinal

\* The table with its leases, owners and retry times implements the lifecycle:
\* bounded tries, and outcomes that are final.
THEOREM QueueImplementsLifecycle == QueueSpec => ImplementsLifecycle
<1>1. QueueInit => Lifecycle!Init
  <2> SUFFICES ASSUME QueueInit PROVE Lifecycle!Init
    OBVIOUS
  <2>1. \A j \in Job : jobs[j] = NoRow
    BY DEF QueueInit
  <2>2. NoRow.status = "absent" /\ NoRow.attempts = 0
    BY DEF NoRow, NewRow
  <2>3. QED
    BY <2>1, <2>2 DEF Lifecycle!Init
<1>2. QueueInv /\ QueueInv' /\ [QueueNext]_jobs => [Lifecycle!Next]_(Lifecycle!vars)
  <2> SUFFICES ASSUME QueueInv, QueueInv', [QueueNext]_jobs PROVE Lifecycle!Next
    OBVIOUS
  <2>1. jobs' \in [Job -> Row]
    BY DEF QueueInv, RowInv, JobsTypeOK
  <2>2. /\ [j \in Job |-> jobs[j].status]' \in
             [Job -> {"absent", "queued", "running"} \cup Lifecycle!Outcome]
        /\ [j \in Job |-> jobs[j].attempts]' \in [Job -> 0..MaxAttempts]
    BY <2>1 DEF Row, Lifecycle!Outcome
  <2>3. ASSUME NEW j \in Job
        PROVE  \/ Lifecycle!Submit(j) \/ Lifecycle!Start(j) \/ Lifecycle!GiveBack(j)
               \/ Lifecycle!End(j) \/ Lifecycle!Keep(j)
    <3>1. RowStep(jobs[j], jobs'[j])
      BY NextRowStep
    <3>2. QED
      BY <3>1 DEF RowStep, Lifecycle!Submit, Lifecycle!Start, Lifecycle!GiveBack,
                  Lifecycle!End, Lifecycle!Keep, Lifecycle!Outcome
  <2>4. QED
    BY <2>2, <2>3 DEF Lifecycle!Next
<1>3. QED
  BY <1>1, <1>2, QueueInvariant, PTL DEF QueueSpec, ImplementsLifecycle, Lifecycle!Spec

-----------------------------------------------------------------------------
(* The workers over the table.                                                 *)
RunInv == run \in [WorkerId -> Run] /\ RunHasJob

LEMMA WorkingHasJob ==
    ASSUME RunInv, NEW w \in WorkerId, run[w].step \in {"claimed", "handling"}
    PROVE  run[w].job \in Job
BY DEF RunInv, RunHasJob, Run

\* A use of the queue that does not claim, or none.
OtherUse ==
    \/ Request
    \/ RecoverAbandoned
    \/ TimePasses
    \/ \E j \in Job, w \in WorkerId :
          \/ Heartbeat(j, w)
          \/ Complete(j, w)
          \/ \E retryable \in BOOLEAN : Fail(j, w, retryable)
    \/ UNCHANGED jobs

\* Every step of the composed system is a claim or such a use of the queue.
LEMMA NextIsUse ==
    ASSUME RunInv, [Next]_vars, \A w \in WorkerId : ~ClaimNext(w)
    PROVE  OtherUse
<1>1. CASE Api
  BY <1>1 DEF Api, OtherUse
<1>2. CASE Tick
  BY <1>2 DEF Tick, OtherUse
<1>3. ASSUME NEW w \in WorkerId, WorkerStep(w) PROVE OtherUse
  <2>1. CASE Recover(w)
    BY <2>1 DEF Recover, OtherUse
  <2>2. CASE ClaimNext(w)
    BY <2>2
  <2>3. CASE HandlerMissing(w)
    <3>1. run[w].job \in Job
      BY <2>3, WorkingHasJob DEF HandlerMissing
    <3>2. QED
      BY <2>3, <3>1 DEF HandlerMissing, OrLost, OtherUse
  <2>4. CASE HeartbeatTimer(w) \/ HandlerHeartbeat(w)
    <3>1. run[w].job \in Job
      BY <2>4, WorkingHasJob DEF HeartbeatTimer, HandlerHeartbeat, Handling
    <3>2. QED
      BY <2>4, <3>1 DEF HeartbeatTimer, HandlerHeartbeat, OtherUse
  <2>5. CASE HandlerReturns(w) \/ HandlerThrows(w)
    <3>1. run[w].job \in Job
      BY <2>5, WorkingHasJob DEF HandlerReturns, HandlerThrows, Handling
    <3>2. QED
      BY <2>5, <3>1 DEF HandlerReturns, HandlerThrows, OrLost, OtherUse
  <2>6. CASE NothingToClaim(w) \/ StartHandler(w) \/ CheckpointLost(w) \/ Die(w)
    BY <2>6 DEF NothingToClaim, StartHandler, CheckpointLost, Die, OtherUse
  <2>7. QED
    BY <1>3, <2>1, <2>2, <2>3, <2>4, <2>5, <2>6 DEF WorkerStep
<1>4. CASE UNCHANGED vars
  BY <1>4 DEF vars, OtherUse
<1>5. QED
  BY <1>1, <1>2, <1>3, <1>4 DEF Next

LEMMA NextUsesQueue ==
    ASSUME RunInv, [Next]_vars
    PROVE  [QueueNext]_jobs
<1>1. CASE \A w \in WorkerId : ~ClaimNext(w)
  BY <1>1, NextIsUse DEF OtherUse, QueueNext
<1>2. CASE \E w \in WorkerId : ClaimNext(w)
  BY <1>2 DEF ClaimNext, QueueNext
<1>3. QED
  BY <1>1, <1>2

LEMMA IdleType == Idle \in Run
BY DEF Idle, Run

\* The local state of the workers stays well formed.
LEMMA RunStep ==
    ASSUME QueueInv, RunInv, [Next]_vars
    PROVE  RunInv'
<1>1. CASE Api \/ UNCHANGED vars
  BY <1>1 DEF Api, vars, RunInv, RunHasJob
<1>2. CASE Tick
  BY <1>2 DEF Tick, Aged, Punctual, RunInv, RunHasJob, Run
<1>3. ASSUME NEW w \in WorkerId, WorkerStep(w) PROVE RunInv'
  <2>1. CASE run' = [run EXCEPT ![w] = Idle]
    BY <2>1, IdleType DEF RunInv, RunHasJob, Idle
  <2>2. CASE Recover(w)
    <3>1. run' = [run EXCEPT ![w] = [run[w] EXCEPT !.step = "recovered"]] /\ run[w].job = NoJob
      BY <2>2 DEF Recover, RunInv, Idle
    <3>2. [run[w] EXCEPT !.step = "recovered"] \in Run
      BY DEF RunInv, Run
    <3>3. QED
      BY <3>1, <3>2 DEF RunInv, RunHasJob
  <2>3. CASE ClaimNext(w)
    <3>1. PICK j \in Job :
            /\ Claim(j, w)
            /\ run' = [run EXCEPT ![w] = Begun(j)]
      BY <2>3 DEF ClaimNext
    <3>2. jobs[j].attempts + 1 \in 0..MaxAttempts
      BY <3>1 DEF Claim, NextToClaim, Claimable, QueueInv, RowInv, JobsTypeOK, Row
    <3>3. QED
      BY <3>1, <3>2 DEF Begun, RunInv, RunHasJob, Run
  <2>4. CASE StartHandler(w)
    BY <2>4 DEF StartHandler, RunInv, RunHasJob, Run
  <2>5. CASE HeartbeatTimer(w)
    BY <2>5 DEF HeartbeatTimer, Handling, RunInv, RunHasJob, Run
  <2>6. CASE HandlerHeartbeat(w)
    BY <2>6 DEF HandlerHeartbeat, RunInv, RunHasJob
  <2>7. QED
    BY <1>3, <2>1, <2>2, <2>3, <2>4, <2>5, <2>6
       DEF WorkerStep, NothingToClaim, HandlerMissing, CheckpointLost, HandlerReturns,
           HandlerThrows, Die
<1>4. QED
  BY <1>1, <1>2, <1>3 DEF Next

\* Only a claim gives a worker a job; every other step keeps the run's job and
\* attempt or ends the run.
LEMMA RunKeptOrIdle ==
    ASSUME RunInv, [Next]_vars, \A v \in WorkerId : ~ClaimNext(v),
           NEW w \in WorkerId, run'[w].job # NoJob
    PROVE  run'[w].job = run[w].job /\ run'[w].attempt = run[w].attempt
<1>1. CASE Api \/ UNCHANGED vars
  BY <1>1 DEF Api, vars
<1>2. CASE Tick
  BY <1>2 DEF Tick, Aged, RunInv, Run
<1>3. ASSUME NEW v \in WorkerId, WorkerStep(v)
      PROVE  run'[w].job = run[w].job /\ run'[w].attempt = run[w].attempt
  <2>1. CASE run' = [run EXCEPT ![v] = Idle]
    BY <2>1 DEF RunInv, Idle
  <2>2. CASE Recover(v)
    BY <2>2 DEF Recover, RunInv, Run
  <2>3. CASE StartHandler(v)
    BY <2>3 DEF StartHandler, RunInv, Run
  <2>4. CASE HeartbeatTimer(v)
    BY <2>4 DEF HeartbeatTimer, RunInv, Run
  <2>5. CASE HandlerHeartbeat(v)
    BY <2>5 DEF HandlerHeartbeat
  <2>6. QED
    BY <1>3, <2>1, <2>2, <2>3, <2>4, <2>5
       DEF WorkerStep, NothingToClaim, HandlerMissing, CheckpointLost, HandlerReturns,
           HandlerThrows, Die
<1>4. QED
  BY <1>1, <1>2, <1>3 DEF Next

-----------------------------------------------------------------------------
(* The fence: a run that holds its lease is the latest attempt of its job. *)

\* Unless a job is claimed, whoever holds its lease after a step held it before,
\* with the same count of attempts.
Leased(row, w) == row.status = "running" /\ row.owner = w /\ row.leaseLeft > 0

Kept(j, w) ==
    Leased(jobs'[j], w) => Leased(jobs[j], w) /\ jobs'[j].attempts = jobs[j].attempts

LEMMA OtherUseKeeps ==
    ASSUME QueueInv, NEW j \in Job, NEW w \in WorkerId, OtherUse
    PROVE  Kept(j, w)
<1>1. jobs \in [Job -> Row] /\ \A i \in Job : RowOK(jobs[i])
  BY RowInvIsRowOK DEF QueueInv
<1>2. CASE Request
  <2>1. ASSUME NEW i \in Job, NEW t \in JobType, NEW k \in Key, Enqueue(i, t, k)
        PROVE  Kept(j, w)
    BY <1>1, <2>1 DEF Enqueue, NewRow, Kept, Leased, HoldsLease
  <2>2. ASSUME NEW i \in Job, Cancel(i) PROVE Kept(j, w)
    BY <1>1, <2>2 DEF Cancel, Finished, Updated, Kept, Leased, HoldsLease
  <2>3. QED
    BY <1>2, <2>1, <2>2 DEF Request, EnqueueExclusive
<1>3. CASE RecoverAbandoned
  <2>1. CASE LeaseExpired(j)
    <3>1. jobs'[j] = Recovered(jobs[j])
      BY <1>3, <2>1 DEF RecoverAbandoned
    <3>2. QED
      BY <3>1 DEF Recovered, Requeued, Finished, Updated, Kept, Leased, HoldsLease
  <2>2. CASE ~LeaseExpired(j)
    BY <1>3, <2>2 DEF RecoverAbandoned, Kept, Leased, HoldsLease
  <2>3. QED
    BY <2>1, <2>2
<1>4. CASE TimePasses
  <2>1. jobs'[j] = Later(jobs[j])
    BY <1>4 DEF TimePasses
  <2>2. CASE jobs[j].status = "queued" /\ jobs[j].availableIn > -Horizon
    BY <1>1, <2>1, <2>2 DEF Later, Kept, Leased, HoldsLease, Row
  <2>3. CASE jobs[j].status = "running" /\ jobs[j].leaseLeft > 0
    BY <1>1, <2>1, <2>3 DEF Later, Kept, Leased, HoldsLease, Row
  <2>4. CASE ~(jobs[j].status = "queued" /\ jobs[j].availableIn > -Horizon)
             /\ ~(jobs[j].status = "running" /\ jobs[j].leaseLeft > 0)
    BY <2>1, <2>4 DEF Later, Kept, Leased, HoldsLease
  <2>5. QED
    BY <2>2, <2>3, <2>4
<1>5. ASSUME NEW i \in Job, NEW v \in WorkerId, Heartbeat(i, v) PROVE Kept(j, w)
  BY <1>1, <1>5 DEF Heartbeat, Kept, Leased, HoldsLease, Row
<1>6. ASSUME NEW i \in Job, NEW v \in WorkerId,
             Complete(i, v) \/ \E retryable \in BOOLEAN : Fail(i, v, retryable)
      PROVE  Kept(j, w)
  <2>1. CASE Complete(i, v)
    BY <1>1, <2>1 DEF Complete, Finished, Updated, Kept, Leased
  <2>2. ASSUME NEW retryable \in BOOLEAN, Fail(i, v, retryable)
        PROVE  Kept(j, w)
    <3>1. CASE retryable /\ jobs[i].attempts < MaxAttempts
      BY <1>1, <2>2, <3>1 DEF Fail, Requeued, Updated, Kept, Leased
    <3>2. CASE ~(retryable /\ jobs[i].attempts < MaxAttempts)
      BY <1>1, <2>2, <3>2 DEF Fail, Finished, Updated, Kept, Leased
    <3>3. QED
      BY <3>1, <3>2
  <2>3. QED
    BY <1>6, <2>1, <2>2
<1>7. CASE UNCHANGED jobs
  BY <1>7 DEF Kept, Leased, HoldsLease
<1>8. QED
  BY <1>2, <1>3, <1>4, <1>5, <1>6, <1>7 DEF OtherUse

LEMMA FenceStep ==
    ASSUME QueueInv, RunInv, LeaseFencesAttempt, [Next]_vars
    PROVE  LeaseFencesAttempt'
<1>1. RunInv' /\ jobs \in [Job -> Row]
  BY RunStep DEF QueueInv, RowInv, JobsTypeOK
<1> SUFFICES ASSUME NEW w \in WorkerId, run'[w].job # NoJob,
                    Leased(jobs'[run'[w].job], w)
             PROVE  jobs'[run'[w].job].attempts = run'[w].attempt
  BY DEF LeaseFencesAttempt, OwnsItsJob, HoldsLease, Leased
<1> DEFINE j == run'[w].job
<1>2. j \in Job
  BY <1>1 DEF RunInv, Run
<1>3. ASSUME run[w].job = j, run[w].attempt = run'[w].attempt, Kept(j, w)
      PROVE  jobs'[j].attempts = run'[w].attempt
  <2>1. Leased(jobs[j], w) /\ jobs'[j].attempts = jobs[j].attempts
    BY <1>3 DEF Kept
  <2>2. jobs[run[w].job].attempts = run[w].attempt
    BY <1>2, <1>3, <2>1 DEF LeaseFencesAttempt, OwnsItsJob, HoldsLease, Leased,
                            RunInv, Run
  <2>3. QED
    BY <1>3, <2>1, <2>2
<1>4. CASE \A v \in WorkerId : ~ClaimNext(v)
  <2>1. run[w].job = j /\ run[w].attempt = run'[w].attempt
    BY <1>1, <1>4, RunKeptOrIdle DEF Idle
  <2>2. OtherUse
    BY <1>4, NextIsUse
  <2>3. Kept(j, w)
    BY <1>2, <2>2, OtherUseKeeps
  <2>4. QED
    BY <1>3, <2>1, <2>3
<1>5. ASSUME NEW v \in WorkerId, ClaimNext(v)
      PROVE  jobs'[j].attempts = run'[w].attempt
  <2>1. PICK i \in Job :
          /\ Claim(i, v)
          /\ run' = [run EXCEPT ![v] = Begun(i)]
    BY <1>5 DEF ClaimNext
  <2>2. jobs' = [jobs EXCEPT ![i] = Claimed(jobs[i], v)]
    BY <2>1 DEF Claim
  <2>3. CASE w = v
    BY <1>1, <2>1, <2>2, <2>3 DEF Begun, Claimed, Updated, RunInv
  <2>4. CASE w # v
    <3>1. run[w].job = j /\ run[w].attempt = run'[w].attempt
      BY <2>1, <2>4 DEF RunInv
    <3>2. i # j
      BY <1>1, <1>2, <2>2, <2>4 DEF Claimed, Updated, Leased
    <3>3. Kept(j, w)
      BY <1>1, <1>2, <2>2, <3>2 DEF Kept
    <3>4. QED
      BY <1>3, <3>1, <3>3
  <2>5. QED
    BY <2>3, <2>4
<1>6. QED
  BY <1>4, <1>5

LEMMA InitHolds == Init => WorkerInv
<1> SUFFICES ASSUME Init PROVE WorkerInv
  OBVIOUS
<1>1. QueueInv
  BY QueueInit_Inv DEF Init
<1>2. run = [w \in WorkerId |-> Idle] /\ Idle \in Run
  BY IdleType DEF Init
<1>3. QED
  BY <1>1, <1>2 DEF WorkerInv, TypeOK, QueueInv, RowInv, RunHasJob, LeaseFencesAttempt, Idle

LEMMA NextHolds ==
    ASSUME WorkerInv, [Next]_vars
    PROVE  WorkerInv'
<1>1. QueueInv /\ RunInv /\ LeaseFencesAttempt
  BY DEF WorkerInv, TypeOK, RunInv
<1>2. QueueInv'
  BY <1>1, NextUsesQueue, QueueNext_Inv
<1>3. RunInv' /\ LeaseFencesAttempt'
  BY <1>1, RunStep, FenceStep
<1>4. QED
  BY <1>2, <1>3 DEF WorkerInv, TypeOK, RunInv, QueueInv, RowInv

\* The inductive invariant of the workers and the table together.
THEOREM WorkerInvariant == Spec => []WorkerInv
<1>1. WorkerInv /\ [Next]_vars => WorkerInv'
  BY NextHolds
<1>2. QED
  BY <1>1, InitHolds, PTL DEF Spec

\* Rows, runs and lease timers have their types in every reachable state.
THEOREM TypeCorrect == Spec => []TypeOK
<1>1. WorkerInv => TypeOK
  BY DEF WorkerInv
<1>2. QED
  BY <1>1, WorkerInvariant, PTL

\* No reachable table holds a queued job without an attempt left.
THEOREM QueuedJobsCanBeClaimed == Spec => []QueuedHasAttemptLeft
<1>1. WorkerInv => QueuedHasAttemptLeft
  BY DEF WorkerInv, QueueInv, RowInv
<1>2. QED
  BY <1>1, WorkerInvariant, PTL

\* An exclusively enqueued type never has two active jobs, for any number of
\* workers, retries, crashes and recoveries.
THEOREM ExclusiveTypesAreExclusive == Spec => []OneActivePerExclusiveType
<1>1. WorkerInv => OneActivePerExclusiveType
  BY DEF WorkerInv, QueueInv
<1>2. QED
  BY <1>1, WorkerInvariant, PTL

\* The workers use the table only through the queue, so they inherit the
\* lifecycle it implements.
THEOREM WorkersImplementLifecycle == Spec => ImplementsLifecycle
<1>1. Init => QueueInit
  BY DEF Init
<1>2. WorkerInv /\ [Next]_vars => [QueueNext]_jobs
  BY NextUsesQueue DEF WorkerInv, TypeOK, RunInv
<1>3. Spec => QueueSpec
  BY <1>1, <1>2, WorkerInvariant, PTL DEF Spec, QueueSpec
<1>4. QED
  BY <1>3, QueueImplementsLifecycle, PTL

-----------------------------------------------------------------------------
(* Action properties. *)

BecomesSucceeded(j) == jobs[j].status # "succeeded" /\ jobs'[j].status = "succeeded"

\* Of the uses of the queue only complete writes the status succeeded.
LEMMA OthersDoNotSucceed ==
    ASSUME QueueInv, NEW j \in Job,
           \/ Request \/ RecoverAbandoned \/ TimePasses \/ UNCHANGED jobs
           \/ \E i \in Job, w \in WorkerId :
                 \/ Claim(i, w) \/ Heartbeat(i, w)
                 \/ \E retryable \in BOOLEAN : Fail(i, w, retryable)
    PROVE  ~BecomesSucceeded(j)
<1> SUFFICES ASSUME BecomesSucceeded(j) PROVE FALSE
  OBVIOUS
<1>1. jobs \in [Job -> Row] /\ \A i \in Job : RowOK(jobs[i])
  BY RowInvIsRowOK DEF QueueInv
<1>2. CASE Request
  BY <1>1, <1>2 DEF Request, EnqueueExclusive, Enqueue, NewRow, Cancel, Finished, Updated,
                    BecomesSucceeded
<1>3. CASE RecoverAbandoned
  <2>1. CASE LeaseExpired(j)
    BY <1>3, <2>1 DEF RecoverAbandoned, Recovered, Requeued, Finished, Updated,
                      BecomesSucceeded
  <2>2. CASE ~LeaseExpired(j)
    BY <1>3, <2>2 DEF RecoverAbandoned, BecomesSucceeded
  <2>3. QED
    BY <2>1, <2>2
<1>4. CASE TimePasses
  <2>1. jobs'[j] = Later(jobs[j])
    BY <1>4 DEF TimePasses
  <2>2. jobs'[j].status = jobs[j].status
    BY <1>1, <2>1 DEF Later, Row
  <2>3. QED
    BY <2>2 DEF BecomesSucceeded
<1>5. ASSUME NEW i \in Job, NEW w \in WorkerId, Claim(i, w) \/ Heartbeat(i, w)
      PROVE  FALSE
  BY <1>1, <1>5 DEF Claim, Claimed, Updated, Heartbeat, Row, BecomesSucceeded
<1>6. ASSUME NEW i \in Job, NEW w \in WorkerId, NEW retryable \in BOOLEAN,
             Fail(i, w, retryable)
      PROVE  FALSE
  <2>1. CASE retryable /\ jobs[i].attempts < MaxAttempts
    BY <1>1, <1>6, <2>1 DEF Fail, Requeued, Updated, BecomesSucceeded
  <2>2. CASE ~(retryable /\ jobs[i].attempts < MaxAttempts)
    BY <1>1, <1>6, <2>2 DEF Fail, Finished, Updated, BecomesSucceeded
  <2>3. QED
    BY <2>1, <2>2
<1>7. CASE UNCHANGED jobs
  BY <1>7 DEF BecomesSucceeded
<1>8. QED
  BY <1>2, <1>3, <1>4, <1>5, <1>6, <1>7

\* The run that makes j succeed.
SucceedsThrough(j, w) ==
    /\ run[w].step = "handling" /\ run[w].job = j
    /\ run[w].attempt = jobs[j].attempts
    /\ HoldsLease(j, w)

LEMMA SuccessStep ==
    ASSUME WorkerInv, [Next]_vars, NEW j \in Job, BecomesSucceeded(j)
    PROVE  \E w \in WorkerId : SucceedsThrough(j, w)
<1>1. QueueInv /\ RunInv /\ LeaseFencesAttempt /\ jobs \in [Job -> Row]
  BY DEF WorkerInv, TypeOK, RunInv, QueueInv, RowInv, JobsTypeOK
<1>2. CASE Api \/ UNCHANGED vars
  BY <1>1, <1>2, OthersDoNotSucceed DEF Api, vars
<1>3. CASE Tick
  BY <1>1, <1>3, OthersDoNotSucceed DEF Tick
<1>4. ASSUME NEW w \in WorkerId, WorkerStep(w)
      PROVE  SucceedsThrough(j, w)
  <2>1. ~Recover(w)
    BY <1>1, OthersDoNotSucceed DEF Recover
  <2>2. ~ClaimNext(w)
    BY <1>1, OthersDoNotSucceed DEF ClaimNext
  <2>3. ~(NothingToClaim(w) \/ StartHandler(w) \/ CheckpointLost(w) \/ Die(w))
    BY <1>1, OthersDoNotSucceed DEF NothingToClaim, StartHandler, CheckpointLost, Die
  <2>4. ~HandlerMissing(w)
    BY <1>1, OthersDoNotSucceed, WorkingHasJob DEF HandlerMissing, OrLost
  <2>5. ~(HeartbeatTimer(w) \/ HandlerHeartbeat(w))
    BY <1>1, OthersDoNotSucceed, WorkingHasJob DEF HeartbeatTimer, HandlerHeartbeat, Handling
  <2>6. ~HandlerThrows(w)
    BY <1>1, OthersDoNotSucceed, WorkingHasJob DEF HandlerThrows, Handling, OrLost
  <2>7. CASE HandlerReturns(w)
    <3>1. run[w].job \in Job /\ run[w].step = "handling"
      BY <1>1, <2>7, WorkingHasJob DEF HandlerReturns, Handling
    <3>2. Complete(run[w].job, w)
      BY <1>1, <2>7, OthersDoNotSucceed DEF HandlerReturns, OrLost
    <3>3. run[w].job = j
      BY <1>1, <3>1, <3>2 DEF Complete, BecomesSucceeded
    <3>4. HoldsLease(j, w)
      BY <3>2, <3>3 DEF Complete
    <3>5. jobs[j].attempts = run[w].attempt
      BY <1>1, <3>3, <3>4, JobWorkerAssumption DEF LeaseFencesAttempt, OwnsItsJob
    <3>6. QED
      BY <3>1, <3>3, <3>4, <3>5 DEF SucceedsThrough
  <2>8. QED
    BY <1>4, <2>1, <2>2, <2>3, <2>4, <2>5, <2>6, <2>7 DEF WorkerStep
<1>5. QED
  BY <1>2, <1>3, <1>4 DEF Next

\* Only the latest attempt of a job can make it succeed, and only while it holds
\* the lease: a slow or revived worker cannot.
THEOREM LateAnswersAreDropped == Spec => OnlyCurrentAttemptSucceeds
<1>1. WorkerInv /\ [Next]_vars =>
        [\A j \in Job :
           jobs[j].status # "succeeded" /\ jobs'[j].status = "succeeded" =>
               \E w \in WorkerId :
                   /\ run[w].step = "handling" /\ run[w].job = j
                   /\ run[w].attempt = jobs[j].attempts
                   /\ HoldsLease(j, w)]_vars
  BY SuccessStep DEF BecomesSucceeded, SucceedsThrough
<1>2. QED
  BY <1>1, WorkerInvariant, PTL DEF Spec, OnlyCurrentAttemptSucceeds

\* What the queue does to a row whose lease has expired: nothing that leaves it
\* running revives the lease.
LEMMA ExpiredStaysExpired ==
    ASSUME QueueInv, [QueueNext]_jobs, NEW j \in Job, LeaseExpired(j),
           jobs'[j].status = "running"
    PROVE  jobs'[j].leaseLeft = 0
<1>1. jobs \in [Job -> Row]
  BY DEF QueueInv, RowInv, JobsTypeOK
<1>2. CASE Request
  BY <1>1, <1>2 DEF Request, EnqueueExclusive, Enqueue, NewRow, Cancel, Finished, Updated,
                    LeaseExpired
<1>3. CASE RecoverAbandoned
  BY <1>3 DEF RecoverAbandoned, Recovered, Requeued, Finished, Updated, LeaseExpired
<1>4. CASE TimePasses
  BY <1>1, <1>4 DEF TimePasses, Later, LeaseExpired, Row
<1>5. ASSUME NEW i \in Job, NEW w \in WorkerId,
             \/ Claim(i, w) \/ Heartbeat(i, w) \/ Complete(i, w)
             \/ \E retryable \in BOOLEAN : Fail(i, w, retryable)
      PROVE  jobs'[j] = jobs[j]
  <2>1. i # j
    BY <1>5 DEF Claim, NextToClaim, Claimable, Heartbeat, Complete, Fail, HoldsLease,
                LeaseExpired
  <2>2. \E row : jobs' = [jobs EXCEPT ![i] = row]
    <3>1. CASE Claim(i, w) \/ Heartbeat(i, w) \/ Complete(i, w)
      BY <3>1 DEF Claim, Heartbeat, Complete
    <3>2. CASE \E retryable \in BOOLEAN : Fail(i, w, retryable)
      BY <3>2 DEF Fail
    <3>3. QED
      BY <1>5, <3>1, <3>2
  <2>3. QED
    BY <2>1, <2>2
<1>6. CASE UNCHANGED jobs
  BY <1>6 DEF LeaseExpired
<1>7. QED
  BY <1>2, <1>3, <1>4, <1>5, <1>6 DEF QueueNext, LeaseExpired

\* A worker whose lease has expired never gets it back.
THEOREM LeasesAreNotRevived == Spec => NoLeaseRevival
<1>1. WorkerInv /\ [Next]_vars =>
        [\A j \in Job :
           LeaseExpired(j) /\ jobs'[j].status = "running" => LeaseExpired(j)']_vars
  BY NextUsesQueue, ExpiredStaysExpired
     DEF WorkerInv, TypeOK, RunInv, LeaseExpired
<1>2. QED
  BY <1>1, WorkerInvariant, PTL DEF Spec, NoLeaseRevival

-----------------------------------------------------------------------------
(* A handler that serves its timers in time keeps its job. *)

\* The lease outlasts the heartbeat that is due next, from the claim on.
Held(row, r, w) ==
    \/ row.status = "cancelled"
    \/ /\ Leased(row, w)
       /\ r.step = "claimed" => row.leaseLeft = LeaseDuration
       /\ r.step = "handling" => r.beatIn \in 0..(row.leaseLeft - 1)

ServedInv == \A w \in WorkerId : run[w].job # NoJob /\ ~run[w].late =>
                                     Held(jobs[run[w].job], run[w], w)

\* What is not of worker w leaves the row of its lease alone, or cancels the job.
LEMMA HeldByOthers ==
    ASSUME QueueInv, NEW j \in Job, NEW w \in WorkerId, Leased(jobs[j], w),
           \/ Request \/ RecoverAbandoned \/ UNCHANGED jobs
           \/ \E i \in Job : Claim(i, w)
           \/ \E i \in Job, v \in WorkerId \ {w} :
                 \/ Claim(i, v) \/ Heartbeat(i, v) \/ Complete(i, v)
                 \/ \E retryable \in BOOLEAN : Fail(i, v, retryable)
    PROVE  jobs'[j] = jobs[j] \/ jobs'[j].status = "cancelled"
<1>1. jobs \in [Job -> Row]
  BY DEF QueueInv, RowInv, JobsTypeOK
<1>2. CASE Request
  <2>1. ASSUME NEW i \in Job, NEW t \in JobType, NEW k \in Key, Enqueue(i, t, k)
        PROVE  jobs'[j] = jobs[j]
    BY <1>1, <2>1 DEF Enqueue, Leased
  <2>2. ASSUME NEW i \in Job, Cancel(i)
        PROVE  jobs'[j] = jobs[j] \/ jobs'[j].status = "cancelled"
    BY <1>1, <2>2 DEF Cancel, Finished, Updated
  <2>3. QED
    BY <1>2, <2>1, <2>2 DEF Request, EnqueueExclusive
<1>3. CASE RecoverAbandoned \/ UNCHANGED jobs
  BY <1>1, <1>3 DEF RecoverAbandoned, LeaseExpired, Leased, Row
<1>4. ASSUME NEW i \in Job, NEW v \in WorkerId,
             \/ Claim(i, v)
             \/ v # w /\ \/ Heartbeat(i, v) \/ Complete(i, v)
                         \/ \E retryable \in BOOLEAN : Fail(i, v, retryable)
      PROVE  jobs'[j] = jobs[j]
  <2>1. i # j
    BY <1>4 DEF Claim, NextToClaim, Claimable, Heartbeat, Complete, Fail, HoldsLease, Leased
  <2>2. \E row : jobs' = [jobs EXCEPT ![i] = row]
    <3>1. CASE Claim(i, v) \/ Heartbeat(i, v) \/ Complete(i, v)
      BY <3>1 DEF Claim, Heartbeat, Complete
    <3>2. CASE \E retryable \in BOOLEAN : Fail(i, v, retryable)
      BY <3>2 DEF Fail
    <3>3. QED
      BY <1>4, <3>1, <3>2
  <2>3. QED
    BY <2>1, <2>2
<1>5. QED
  BY <1>2, <1>3, <1>4

LEMMA CancelledStays ==
    ASSUME QueueInv, [QueueNext]_jobs, NEW j \in Job, jobs[j].status = "cancelled"
    PROVE  jobs'[j] = jobs[j]
BY NextRowStep DEF RowStep

\* A worker that a step is not of, or whose step keeps its run, stays served.
LEMMA HeldOn ==
    ASSUME QueueInv, RunInv, ServedInv, [Next]_vars, NEW w \in WorkerId, run'[w] = run[w],
           \/ Request \/ RecoverAbandoned \/ UNCHANGED jobs
           \/ \E i \in Job, v \in WorkerId \ {w} :
                 \/ Claim(i, v) \/ Heartbeat(i, v) \/ Complete(i, v)
                 \/ \E retryable \in BOOLEAN : Fail(i, v, retryable),
           run[w].job # NoJob, ~run[w].late
    PROVE  Held(jobs'[run'[w].job], run'[w], w)
<1> DEFINE j == run[w].job
<1>1. j \in Job
  BY DEF RunInv, Run
<1>2. Held(jobs[j], run[w], w)
  BY DEF ServedInv
<1>3. CASE jobs[j].status = "cancelled"
  BY <1>1, <1>3, NextUsesQueue, CancelledStays DEF Held
<1>4. CASE jobs[j].status # "cancelled"
  <2>1. Leased(jobs[j], w)
    BY <1>2, <1>4 DEF Held
  <2>2. jobs'[j] = jobs[j] \/ jobs'[j].status = "cancelled"
    BY <1>1, <2>1, HeldByOthers
  <2>3. QED
    BY <1>2, <2>2 DEF Held
<1>5. QED
  BY <1>3, <1>4

LEMMA HeldOverTime ==
    ASSUME QueueInv, RunInv, ServedInv, Tick, NEW w \in WorkerId,
           run'[w].job # NoJob, ~run'[w].late
    PROVE  Held(jobs'[run'[w].job], run'[w], w)
<1> DEFINE j == run[w].job
<1>1. run'[w] = Aged(run[w]) /\ run[w] \in Run /\ jobs \in [Job -> Row]
  BY DEF Tick, RunInv, QueueInv, RowInv, JobsTypeOK
<1>2. /\ run'[w].job = j /\ run'[w].step = run[w].step /\ j # NoJob /\ ~run[w].late
      /\ run[w].beatIn # 0 /\ run[w].step \in {"idle", "handling"}
      /\ run'[w].beatIn = IF run[w].beatIn > 0 THEN run[w].beatIn - 1 ELSE run[w].beatIn
  <2>1. /\ run'[w].job = j /\ run'[w].step = run[w].step
        /\ run'[w].beatIn = IF run[w].beatIn > 0 THEN run[w].beatIn - 1 ELSE run[w].beatIn
        /\ run'[w].late = (run[w].late \/ (j # NoJob /\ ~Punctual(run[w])))
    BY <1>1 DEF Aged
  <2>2. j # NoJob /\ ~run[w].late /\ Punctual(run[w])
    BY <2>1
  <2>3. QED
    BY <2>1, <2>2 DEF Punctual
<1>3. j \in Job /\ run[w].step = "handling" /\ jobs'[j] = Later(jobs[j])
  BY <1>1, <1>2 DEF RunInv, RunHasJob, Run, Tick, TimePasses
<1>4. Held(jobs[j], run[w], w)
  BY <1>2 DEF ServedInv
<1>5. CASE jobs[j].status = "cancelled"
  BY <1>2, <1>3, <1>5 DEF Later, Held
<1>6. CASE jobs[j].status # "cancelled"
  <2>1. /\ jobs[j].status = "running" /\ jobs[j].owner = w /\ jobs[j].leaseLeft > 0
        /\ run[w].beatIn \in 0..(jobs[j].leaseLeft - 1)
    BY <1>3, <1>4, <1>6 DEF Held, Leased
  <2>2. jobs[j].leaseLeft \in Nat /\ run[w].beatIn \in Int
    BY <1>1, <1>3 DEF Row, Run
  <2>3. /\ jobs'[j].status = "running" /\ jobs'[j].owner = w
        /\ jobs'[j].leaseLeft = jobs[j].leaseLeft - 1
    BY <1>1, <1>3, <2>1 DEF Later, Row
  <2>4. run'[w].beatIn = run[w].beatIn - 1 /\ run[w].beatIn > 0
    BY <1>2, <2>1, <2>2
  <2>5. QED
    BY <1>2, <1>3, <2>1, <2>2, <2>3, <2>4 DEF Held, Leased
<1>7. QED
  BY <1>5, <1>6

LEMMA ServedByWorker ==
    ASSUME QueueInv, RunInv, ServedInv, NEW v \in WorkerId, WorkerStep(v),
           NEW w \in WorkerId, run'[w].job # NoJob, ~run'[w].late
    PROVE  Held(jobs'[run'[w].job], run'[w], w)
<1>1. [Next]_vars /\ jobs \in [Job -> Row]
  BY DEF Next, QueueInv, RowInv, JobsTypeOK
<1>2. CASE w # v
  <2>1. run'[w] = run[w]
    BY <1>2 DEF WorkerStep, Recover, ClaimNext, NothingToClaim, StartHandler, HandlerMissing,
                HeartbeatTimer, CheckpointLost, HandlerHeartbeat, HandlerReturns, HandlerThrows,
                Die, RunInv
  <2>2. run[v].step \in {"claimed", "handling"} => run[v].job \in Job
    BY WorkingHasJob
  <2>3. \/ RecoverAbandoned \/ UNCHANGED jobs
        \/ \E i \in Job : \/ Claim(i, v) \/ Heartbeat(i, v) \/ Complete(i, v)
                          \/ \E retryable \in BOOLEAN : Fail(i, v, retryable)
    BY <2>2 DEF WorkerStep, Recover, ClaimNext, NothingToClaim, StartHandler, HandlerMissing,
                HeartbeatTimer, CheckpointLost, HandlerHeartbeat, HandlerReturns, HandlerThrows,
                Die, OrLost, Handling
  <2>4. QED
    BY <1>1, <1>2, <2>1, <2>3, HeldOn
<1>3. CASE w = v
  <2>1. CASE run' = [run EXCEPT ![v] = Idle]
    BY <1>3, <2>1 DEF RunInv, Idle
  <2>2. CASE Recover(v)
    BY <1>3, <2>2 DEF Recover, RunInv, Run, Idle
  <2>3. CASE ClaimNext(v)
    <3>1. PICK i \in Job : Claim(i, v) /\ run' = [run EXCEPT ![v] = Begun(i)]
      BY <2>3 DEF ClaimNext
    <3>2. run'[w] = Begun(i) /\ jobs'[i] = Claimed(jobs[i], v)
      BY <1>1, <1>3, <3>1 DEF Claim, RunInv
    <3>3. QED
      BY <1>3, <3>2 DEF Begun, Claimed, Updated, Held, Leased
  <2>4. CASE StartHandler(v)
    <3>1. /\ run[v].job \in Job /\ run'[w].job = run[v].job /\ run'[w].step = "handling"
          /\ run'[w].beatIn = HeartbeatInterval /\ ~run[v].late /\ run[v].step = "claimed"
          /\ UNCHANGED jobs
      BY <1>3, <2>4, WorkingHasJob DEF StartHandler, RunInv
    <3>2. Held(jobs[run[v].job], run[v], v)
      BY <3>1, JobWorkerAssumption DEF ServedInv
    <3>3. HeartbeatInterval \in 0..(LeaseDuration - 1)
      OBVIOUS
    <3>4. QED
      BY <1>3, <3>1, <3>2, <3>3 DEF Held
  <2>5. CASE HeartbeatTimer(v)
    <3>1. run[v].job \in Job /\ run[v].step = "handling" /\ run[v].beatIn = 0
      BY <2>5, WorkingHasJob DEF HeartbeatTimer, Handling
    <3>2. run'[w].job = run[v].job /\ run'[w].step = "handling" /\ run'[w].late = run[v].late
      BY <1>3, <2>5, <3>1 DEF HeartbeatTimer, RunInv, Run
    <3>3. Held(jobs[run[v].job], run[v], v)
      BY <1>3, <3>1, <3>2, JobWorkerAssumption DEF ServedInv
    <3>4. CASE Heartbeat(run[v].job, v) /\ run' = [run EXCEPT ![v].beatIn = HeartbeatInterval]
      <4>1. run'[w].beatIn = HeartbeatInterval
        BY <1>3, <3>4 DEF RunInv, Run
      <4>2. /\ jobs'[run[v].job].status = "running" /\ jobs'[run[v].job].owner = v
            /\ jobs'[run[v].job].leaseLeft = LeaseDuration
        BY <1>1, <3>1, <3>4 DEF Heartbeat, HoldsLease, Row
      <4>3. QED
        BY <1>3, <3>2, <4>1, <4>2 DEF Held, Leased
    <3>5. CASE ~OwnsItsJob(v) /\ UNCHANGED jobs
      BY <1>3, <3>2, <3>3, <3>5 DEF Held, Leased, OwnsItsJob, HoldsLease
    <3>6. run' # [run EXCEPT ![v].beatIn = -1, ![v].late = TRUE]
      BY <1>3 DEF RunInv, Run
    <3>7. QED
      BY <2>5, <3>4, <3>5, <3>6 DEF HeartbeatTimer
  <2>6. CASE HandlerHeartbeat(v)
    <3>1. run[v].job \in Job /\ run[v].step = "handling" /\ run' = run /\ Heartbeat(run[v].job, v)
      BY <2>6, WorkingHasJob DEF HandlerHeartbeat, Handling
    <3>2. Held(jobs[run[v].job], run[v], v)
      BY <1>3, <3>1, JobWorkerAssumption DEF ServedInv
    <3>3. /\ jobs[run[v].job].status = "running" /\ jobs[run[v].job].leaseLeft \in 0..LeaseDuration
          /\ jobs'[run[v].job].status = "running" /\ jobs'[run[v].job].owner = v
          /\ jobs'[run[v].job].leaseLeft = LeaseDuration
      BY <1>1, <3>1 DEF Heartbeat, HoldsLease, Row
    <3>4. run[v].beatIn \in 0..(LeaseDuration - 1)
      BY <3>1, <3>2, <3>3 DEF Held
    <3>5. QED
      BY <1>3, <3>1, <3>3, <3>4 DEF Held, Leased
  <2>7. QED
    BY <2>1, <2>2, <2>3, <2>4, <2>5, <2>6
       DEF WorkerStep, NothingToClaim, HandlerMissing, CheckpointLost, HandlerReturns,
           HandlerThrows, Die
<1>4. QED
  BY <1>2, <1>3

LEMMA ServedStep ==
    ASSUME QueueInv, RunInv, ServedInv, [Next]_vars
    PROVE  ServedInv'
<1> SUFFICES ASSUME NEW w \in WorkerId, run'[w].job # NoJob, ~run'[w].late
             PROVE  Held(jobs'[run'[w].job], run'[w], w)
  BY DEF ServedInv
<1>1. CASE Api \/ UNCHANGED vars
  BY <1>1, HeldOn DEF Api, vars
<1>2. CASE Tick
  BY <1>2, HeldOverTime
<1>3. CASE \E v \in WorkerId : WorkerStep(v)
  BY <1>3, ServedByWorker
<1>4. QED
  BY <1>1, <1>2, <1>3 DEF Next

\* A handler whose timers are served keeps its lease until its job is cancelled: the
\* heartbeat always comes before the lease runs out, whatever the other workers,
\* recoveries and requests do.
THEOREM ServedHandlersKeepTheirJobs == Spec => []ServedHandlerKeepsJob
<1>1. Init => ServedInv
  BY DEF Init, ServedInv, Idle
<1>2. WorkerInv /\ ServedInv /\ [Next]_vars => ServedInv'
  BY ServedStep DEF WorkerInv, TypeOK, RunInv
<1>3. WorkerInv /\ ServedInv => ServedHandlerKeepsJob
  <2>1. \A w \in WorkerId : WorkerInv /\ Handling(w) => run[w].job # NoJob
    BY DEF WorkerInv, RunHasJob, Handling
  <2>2. QED
    BY <2>1 DEF ServedInv, ServedHandlerKeepsJob, Held, Leased, OwnsItsJob, HoldsLease
<1>4. QED
  BY <1>1, <1>2, <1>3, WorkerInvariant, PTL DEF Spec
=============================================================================
