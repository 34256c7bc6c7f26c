------------------------- MODULE RouterStartupProofs -------------------------
(* Proofs about RouterStartup, for any processes, inodes and mishaps         *)
EXTENDS RouterStartup, TLAPS

(* What a process has open, bound and decided in each phase                  *)
Unbound == {"off", "write", "bind", "lstat", "probe", "lstat2", "probe2", "lstat3", "remove",
            "stopped", "unlinkOwn"} \cup Waiting
Releasing == {"close", "mine", "unlinkMine"}
Phase(r) ==
    /\ r.lock # None <=> r.pc \in Starting
    /\ r.pc \in Unbound => r.sock = None
    /\ r.pc = "listen" => r.sock # None
    /\ r.pc \in {"chmod", "identify", "serve"} => r.up
    /\ r.pc \in Releasing => (r.quits <=> r.sock = None)
    /\ r.quits => r.pc \in Releasing
    /\ r.up => r.sock # None
    /\ r.sock # None /\ ~r.up => r.pc = "listen"
Phases == \A p \in Proc : Phase(router[p])

(* Open files have inodes of their own                                       *)
OwnInodes ==
    \A p, q \in Proc :
        /\ router[p].lock # None /\ router[p].lock = router[q].lock => p = q
        /\ router[p].sock # None /\ router[p].sock = router[q].sock => p = q

(* A process that holds the lock has it at the path, with its pid or none    *)
HeldAtPath ==
    \A p \in Proc : Holds(p) =>
        /\ ~overlapped => lockFile # None /\ lockFile.ino = router[p].lock
        /\ lockFile # None /\ lockFile.ino = router[p].lock => lockFile.pid \in {p, "empty"}

(* What a process that would remove a lock file still knows of it            *)
Judged ==
    \A p \in Proc : router[p].same =>
        /\ lockFile # None
        /\ router[p].pc \in {"judge", "check", "unlink"} =>
             /\ lockFile.ino = router[p].seen
             /\ router[p].why = "dead" => lockFile.pid = "dead"
        /\ router[p].pc \in {"mine", "unlinkMine"} /\ ~overlapped => \A q \in Proc : ~Holds(q)
Verdicts == \A p \in Proc : router[p].pc \in {"check", "unlink"} => router[p].why # "none"

(* Every bound socket is the one at the path                                 *)
BoundAtPath ==
    ~overlapped /\ ~evicted => \A p \in Proc : router[p].sock # None =>
        socketFile # None /\ socketFile.ino = router[p].sock

(* While an orphan is being removed no socket is bound                       *)
Orphaned ==
    ~overlapped /\ ~evicted => \A p, q \in Proc :
        router[p].pc \in {"lstat2", "probe2", "lstat3", "remove"} => router[q].sock = None

IInv ==
    TypeOK /\ Phases /\ OwnInodes /\ HeldAtPath /\ Judged /\ Verdicts /\ BoundAtPath /\ Orphaned

-----------------------------------------------------------------------------
USE InodeAssumption, NoneAssumption, ProcAssumption

Removing == {"lstat2", "probe2", "lstat3", "remove"}
(* What a process may claim to know of the lock file                         *)
Knows(p, r) ==
    r.same =>
        /\ lockFile # None
        /\ r.pc \in {"judge", "check", "unlink"} =>
             /\ lockFile.ino = r.seen
             /\ r.why = "dead" => lockFile.pid = "dead"
        /\ r.pc \in {"mine", "unlinkMine"} /\ ~overlapped => \A q \in Proc \ {p} : ~Holds(q)

(* A step of one process that leaves the files alone and opens nothing       *)
LEMMA Turns ==
    ASSUME IInv, NEW p \in Proc, NEW r \in Router,
           router' = [router EXCEPT ![p] = r],
           UNCHANGED <<lockFile, socketFile, overlapped, evicted>>, mishaps' \in 0..Mishaps,
           Phase(r), r.lock \in {None, router[p].lock}, r.sock \in {None, router[p].sock},
           Knows(p, r), r.pc \in {"check", "unlink"} => r.why # "none",
           ~overlapped /\ ~evicted /\ r.pc \in Removing => \A q \in Proc : router[q].sock = None
    PROVE  IInv'
<1> USE DEF IInv, TypeOK
<1>0. \A q \in Proc : router'[q] = IF q = p THEN r ELSE router[q]
  OBVIOUS
<1>1. TypeOK'
  OBVIOUS
<1>2. Phases'
  BY <1>0 DEF Phases
<1>3. OwnInodes'
  BY <1>0 DEF OwnInodes
<1>4. HeldAtPath'
  BY <1>0 DEF HeldAtPath, Holds
<1>5. Judged'
  BY <1>0 DEF Judged, Knows, Holds, Phase, Starting
<1>6. Verdicts'
  BY <1>0 DEF Verdicts
<1>7. BoundAtPath'
  BY <1>0 DEF BoundAtPath
<1>8. Orphaned'
  BY <1>0 DEF Orphaned, Removing
<1> QED
  BY <1>1, <1>2, <1>3, <1>4, <1>5, <1>6, <1>7, <1>8

LEMMA OffIsRouter == Off \in Router /\ Phase(Off)
BY DEF Off, Router, Phase, Starting, Unbound, Releasing, Waiting

(* The end of a process, alone or with the removal of the socket             *)
LEMMA EndsStep ==
    ASSUME IInv, NEW p \in Proc, Ends(p, lockFile),
           UNCHANGED overlapped, mishaps' \in 0..Mishaps,
           \/ UNCHANGED <<socketFile, evicted>>
           \/ socketFile' = None /\ evicted' = (evicted \/ socketFile # None)
    PROVE  IInv'
<1> USE DEF IInv, TypeOK
<1>1. /\ \A q \in Proc : router'[q] = IF q = p THEN Off ELSE router[q]
      /\ Phase(Off) /\ Off \in Router
  BY OffIsRouter DEF Ends
<1>2. /\ lockFile' \in LockFile \cup {None} /\ (lockFile' = None <=> lockFile = None)
      /\ lockFile # None => /\ lockFile'.ino = lockFile.ino
                            /\ lockFile'.pid = lockFile.pid \/ lockFile.pid = p
                            /\ lockFile.pid = "dead" => lockFile'.pid = "dead"
  <2>1. CASE lockFile' = lockFile
    BY <2>1
  <2>2. CASE lockFile' # lockFile
    <3>1. PICK pid \in {"dead", "recycled"} : lockFile' = [lockFile EXCEPT !.pid = pid]
      BY <2>2 DEF Ends
    <3>2. lockFile # None /\ lockFile.pid = p
      BY <2>2 DEF Ends
    <3>3. lockFile \in LockFile /\ lockFile' \in LockFile
      BY <3>1, <3>2 DEF LockFile, Pid
    <3>4. lockFile'.ino = lockFile.ino /\ lockFile'.pid = pid
      BY <3>1, <3>3 DEF LockFile
    <3> QED
      BY <3>2, <3>3, <3>4
  <2> QED
    BY <2>1, <2>2
<1>3. TypeOK'
  BY <1>1, <1>2 DEF Ends
<1>4. Phases' /\ OwnInodes'
  BY <1>1 DEF Phases, OwnInodes, Off
<1>5. HeldAtPath'
  BY <1>1, <1>2 DEF HeldAtPath, Holds, Off
<1>6. Judged' /\ Verdicts'
  BY <1>1, <1>2 DEF Judged, Verdicts, Holds, Off
<1>a. ~evicted' => ~evicted /\ socketFile' = socketFile
  OBVIOUS
<1>7. BoundAtPath'
  BY <1>1, <1>a DEF BoundAtPath, Off
<1>8. Orphaned'
  BY <1>1, <1>a DEF Orphaned, Off
<1> QED
  BY <1>3, <1>4, <1>5, <1>6, <1>7, <1>8

-----------------------------------------------------------------------------
(* The steps that turn one process *)

LEMMA Shapes ==
    ASSUME IInv, NEW p \in Proc
    PROVE  router[p] \in Router /\ Phase(router[p])
BY DEF IInv, TypeOK, Phases

LEMMA Counted == ASSUME TypeOK, Mishap PROVE mishaps' \in 0..Mishaps
BY DEF TypeOK, Mishap

LEMMA SpawnStep == ASSUME IInv, NEW p \in Proc, Spawn(p) PROVE IInv'
<1> DEFINE r == [router[p] EXCEPT !.pc = "open"]
<1>1. router[p] \in Router /\ Phase(router[p])
  BY Shapes
<1>2. r \in Router
  BY <1>1 DEF Spawn, At, Router, Waiting, Starting, Leaving, IInv, TypeOK, LockFile, SocketFile
<1>3. Phase(r)
  BY <1>1 DEF Spawn, At, Router, Phase, Starting, Unbound, Releasing, Waiting
<1>4. Knows(p, r)
  BY <1>1 DEF Spawn, At, Router, Knows, IInv, TypeOK, Judged
<1>5. r.lock \in {None, router[p].lock} /\ r.sock \in {None, router[p].sock}
  BY <1>1 DEF Spawn, Router
<1>6. r.pc \notin {"check", "unlink"}
  BY <1>1 DEF Spawn, Router
<1>7. r.pc \notin Removing
  BY <1>1 DEF Spawn, Router, Removing
<1>8. /\ router' = [router EXCEPT ![p] = r] /\ mishaps' \in 0..Mishaps
      /\ UNCHANGED <<lockFile, socketFile, overlapped, evicted>>
  BY <1>1 DEF Spawn, Goto, Files, History, IInv, TypeOK
<1> HIDE DEF r
<1> QED
  BY <1>2, <1>3, <1>4, <1>5, <1>6, <1>7, <1>8, Turns

LEMMA WriteFailsStep == ASSUME IInv, NEW p \in Proc, WriteFails(p) PROVE IInv'
<1> DEFINE r == [router[p] EXCEPT !.pc = "close", !.quits = TRUE]
<1>1. router[p] \in Router /\ Phase(router[p])
  BY Shapes
<1>2. r \in Router
  BY <1>1 DEF WriteFails, At, Router, Waiting, Starting, Leaving, IInv, TypeOK, LockFile, SocketFile
<1>3. Phase(r)
  BY <1>1 DEF WriteFails, At, Router, Phase, Starting, Unbound, Releasing, Waiting
<1>4. Knows(p, r)
  BY <1>1 DEF WriteFails, At, Router, Knows, IInv, TypeOK, Judged
<1>5. r.lock \in {None, router[p].lock} /\ r.sock \in {None, router[p].sock}
  BY <1>1 DEF WriteFails, Router
<1>6. r.pc \notin {"check", "unlink"}
  BY <1>1 DEF WriteFails, Router
<1>7. r.pc \notin Removing
  BY <1>1 DEF WriteFails, Router, Removing
<1>8. /\ router' = [router EXCEPT ![p] = r] /\ mishaps' \in 0..Mishaps
      /\ UNCHANGED <<lockFile, socketFile, overlapped, evicted>>
  BY Counted, <1>1 DEF WriteFails, Goto, Files, History, IInv, TypeOK
<1> HIDE DEF r
<1> QED
  BY <1>2, <1>3, <1>4, <1>5, <1>6, <1>7, <1>8, Turns

LEMMA ListenStep == ASSUME IInv, NEW p \in Proc, Listen(p) PROVE IInv'
<1> DEFINE r == [router[p] EXCEPT !.pc = "chmod", !.up = TRUE]
<1>1. router[p] \in Router /\ Phase(router[p])
  BY Shapes
<1>2. r \in Router
  BY <1>1 DEF Listen, At, Router, Waiting, Starting, Leaving, IInv, TypeOK, LockFile, SocketFile
<1>3. Phase(r)
  BY <1>1 DEF Listen, At, Router, Phase, Starting, Unbound, Releasing, Waiting
<1>4. Knows(p, r)
  BY <1>1 DEF Listen, At, Router, Knows, IInv, TypeOK, Judged
<1>5. r.lock \in {None, router[p].lock} /\ r.sock \in {None, router[p].sock}
  BY <1>1 DEF Listen, Router
<1>6. r.pc \notin {"check", "unlink"}
  BY <1>1 DEF Listen, Router
<1>7. r.pc \notin Removing
  BY <1>1 DEF Listen, Router, Removing
<1>8. /\ router' = [router EXCEPT ![p] = r] /\ mishaps' \in 0..Mishaps
      /\ UNCHANGED <<lockFile, socketFile, overlapped, evicted>>
  BY <1>1 DEF Listen, Goto, Files, History, IInv, TypeOK
<1> HIDE DEF r
<1> QED
  BY <1>2, <1>3, <1>4, <1>5, <1>6, <1>7, <1>8, Turns

LEMMA CloseLockStep == ASSUME IInv, NEW p \in Proc, CloseLock(p) PROVE IInv'
<1> DEFINE r == [router[p] EXCEPT !.pc = "mine", !.seen = router[p].lock, !.lock = None,
                        !.same = lockFile # None /\ lockFile.ino = router[p].lock]
<1>1. router[p] \in Router /\ Phase(router[p])
  BY Shapes
<1>2. r \in Router
  BY <1>1 DEF CloseLock, At, Router, Waiting, Starting, Leaving, IInv, TypeOK, LockFile, SocketFile
<1>3. Phase(r)
  BY <1>1 DEF CloseLock, At, Router, Phase, Starting, Unbound, Releasing, Waiting
<1>4. Knows(p, r)
  BY <1>1 DEF CloseLock, At, Router, Knows, IInv, TypeOK, Judged, HeldAtPath, OwnInodes, Holds
<1>5. r.lock \in {None, router[p].lock} /\ r.sock \in {None, router[p].sock}
  BY <1>1 DEF CloseLock, Router
<1>6. r.pc \notin {"check", "unlink"}
  BY <1>1 DEF CloseLock, Router
<1>7. r.pc \notin Removing
  BY <1>1 DEF CloseLock, Router, Removing
<1>8. /\ router' = [router EXCEPT ![p] = r] /\ mishaps' \in 0..Mishaps
      /\ UNCHANGED <<lockFile, socketFile, overlapped, evicted>>
  BY <1>1 DEF CloseLock, Goto, Files, History, IInv, TypeOK
<1> HIDE DEF r
<1> QED
  BY <1>2, <1>3, <1>4, <1>5, <1>6, <1>7, <1>8, Turns

LEMMA StatLockStep == ASSUME IInv, NEW p \in Proc, StatLock(p) PROVE IInv'
<1>1. CASE lockFile = None
  BY <1>1, EndsStep DEF StatLock, Files, History, IInv, TypeOK
<1>2. CASE lockFile # None
  <2> DEFINE r == [router[p] EXCEPT !.pc = "judge", !.seen = lockFile.ino,
                                    !.why = IF lockFile.old THEN "old" ELSE "none", !.same = TRUE]
  <2>1. router[p] \in Router /\ Phase(router[p])
    BY Shapes
  <2>2. r \in Router
    BY <1>2, <2>1 DEF StatLock, At, Router, Waiting, Starting, Leaving, IInv, TypeOK, LockFile, SocketFile
  <2>3. Phase(r)
    BY <1>2, <2>1 DEF StatLock, At, Router, Phase, Starting, Unbound, Releasing, Waiting
  <2>4. Knows(p, r)
    BY <1>2, <2>1 DEF StatLock, At, Router, Knows, IInv, TypeOK, Judged
  <2>5. r.lock \in {None, router[p].lock} /\ r.sock \in {None, router[p].sock}
    BY <1>2, <2>1 DEF StatLock, Router
  <2>6. r.pc \notin {"check", "unlink"}
    BY <1>2, <2>1 DEF StatLock, Router
  <2>7. r.pc \notin Removing
    BY <1>2, <2>1 DEF StatLock, Router, Removing
  <2>8. /\ router' = [router EXCEPT ![p] = r] /\ mishaps' \in 0..Mishaps
        /\ UNCHANGED <<lockFile, socketFile, overlapped, evicted>>
    BY <1>2, <2>1 DEF StatLock, Goto, Files, History, IInv, TypeOK
  <2> HIDE DEF r
  <2> QED
    BY <2>2, <2>3, <2>4, <2>5, <2>6, <2>7, <2>8, Turns
<1> QED
  BY <1>1, <1>2 DEF StatLock

LEMMA JudgeLockStep == ASSUME IInv, NEW p \in Proc, JudgeLock(p) PROVE IInv'
<1>1. CASE (Aged(p) \/ DeadPid) /\ ~Ends(p, lockFile) /\ ~TurnsTo(p, "open")
  <2> DEFINE r == [router[p] EXCEPT !.pc = "check", !.why = IF Aged(p) THEN "old" ELSE "dead"]
  <2>1. router[p] \in Router /\ Phase(router[p])
    BY Shapes
  <2>2. r \in Router
    BY <1>1, <2>1 DEF JudgeLock, At, Router, Waiting, Starting, Leaving, IInv, TypeOK, LockFile, SocketFile
  <2>3. Phase(r)
    BY <1>1, <2>1 DEF JudgeLock, At, Router, Phase, Starting, Unbound, Releasing, Waiting
  <2>4. Knows(p, r)
    BY <1>1, <2>1 DEF JudgeLock, At, Router, Knows, IInv, TypeOK, Judged, DeadPid, Aged
  <2>5. r.lock \in {None, router[p].lock} /\ r.sock \in {None, router[p].sock}
    BY <1>1, <2>1 DEF JudgeLock, Router
  <2>6. r.pc \in {"check", "unlink"} => r.why # "none"
    BY <1>1, <2>1 DEF JudgeLock, At, Router, IInv, Verdicts, Phase, Starting, Unbound, Releasing, Waiting
  <2>7. r.pc \notin Removing
    BY <1>1, <2>1 DEF JudgeLock, Router, Removing
  <2>8. /\ router' = [router EXCEPT ![p] = r] /\ mishaps' \in 0..Mishaps
        /\ UNCHANGED <<lockFile, socketFile, overlapped, evicted>>
    BY <1>1, <2>1 DEF JudgeLock, Goto, Files, History, IInv, TypeOK
  <2> HIDE DEF r
  <2> QED
    BY <2>2, <2>3, <2>4, <2>5, <2>6, <2>7, <2>8, Turns
<1>2. CASE TurnsTo(p, "open") /\ UNCHANGED lockFile
  <2> DEFINE r == [Forgets(router[p]) EXCEPT !.pc = "open"]
  <2>1. router[p] \in Router /\ Phase(router[p])
    BY Shapes
  <2>2. r \in Router
    BY <1>2, <2>1 DEF JudgeLock, TurnsTo, Forgets, At, Router, Waiting, Starting, Leaving, IInv, TypeOK, LockFile, SocketFile
  <2>3. Phase(r)
    BY <1>2, <2>1 DEF JudgeLock, TurnsTo, Forgets, At, Router, Phase, Starting, Unbound, Releasing, Waiting
  <2>4. Knows(p, r)
    BY <1>2, <2>1 DEF JudgeLock, TurnsTo, Forgets, At, Router, Knows, IInv, TypeOK, Judged
  <2>5. r.lock \in {None, router[p].lock} /\ r.sock \in {None, router[p].sock}
    BY <1>2, <2>1 DEF JudgeLock, TurnsTo, Forgets, Router
  <2>6. r.pc \notin {"check", "unlink"}
    BY <1>2, <2>1 DEF JudgeLock, TurnsTo, Forgets, Router
  <2>7. r.pc \notin Removing
    BY <1>2, <2>1 DEF JudgeLock, TurnsTo, Forgets, Router, Removing
  <2>8. /\ router' = [router EXCEPT ![p] = r] /\ mishaps' \in 0..Mishaps
        /\ UNCHANGED <<lockFile, socketFile, overlapped, evicted>>
    BY <1>2, <2>1 DEF JudgeLock, TurnsTo, Forgets, Goto, Files, History, IInv, TypeOK
  <2> HIDE DEF r
  <2> QED
    BY <2>2, <2>3, <2>4, <2>5, <2>6, <2>7, <2>8, Turns
<1>3. CASE Ends(p, lockFile)
  BY <1>3, EndsStep DEF JudgeLock, Files, History, IInv, TypeOK
<1> QED
  BY <1>1, <1>2, <1>3 DEF JudgeLock

LEMMA CheckLockStep == ASSUME IInv, NEW p \in Proc, CheckLock(p) PROVE IInv'
<1>1. CASE lockFile # None /\ lockFile.ino = router[p].seen
  <2> DEFINE r == [router[p] EXCEPT !.pc = "unlink"]
  <2>1. router[p] \in Router /\ Phase(router[p])
    BY Shapes
  <2>2. r \in Router
    BY <1>1, <2>1 DEF CheckLock, At, Router, Waiting, Starting, Leaving, IInv, TypeOK, LockFile, SocketFile
  <2>3. Phase(r)
    BY <1>1, <2>1 DEF CheckLock, At, Router, Phase, Starting, Unbound, Releasing, Waiting
  <2>4. Knows(p, r)
    BY <1>1, <2>1 DEF CheckLock, At, Router, Knows, IInv, TypeOK, Judged
  <2>5. r.lock \in {None, router[p].lock} /\ r.sock \in {None, router[p].sock}
    BY <1>1, <2>1 DEF CheckLock, Router
  <2>6. r.pc \in {"check", "unlink"} => r.why # "none"
    BY <1>1, <2>1 DEF CheckLock, At, Router, IInv, Verdicts, Phase, Starting, Unbound, Releasing, Waiting
  <2>7. r.pc \notin Removing
    BY <1>1, <2>1 DEF CheckLock, Router, Removing
  <2>8. /\ router' = [router EXCEPT ![p] = r] /\ mishaps' \in 0..Mishaps
        /\ UNCHANGED <<lockFile, socketFile, overlapped, evicted>>
    BY <1>1, <2>1 DEF CheckLock, Goto, Files, History, IInv, TypeOK
  <2> HIDE DEF r
  <2> QED
    BY <2>2, <2>3, <2>4, <2>5, <2>6, <2>7, <2>8, Turns
<1>2. CASE ~(lockFile # None /\ lockFile.ino = router[p].seen)
  <2> DEFINE r == [Forgets(router[p]) EXCEPT !.pc = "open"]
  <2>1. router[p] \in Router /\ Phase(router[p])
    BY Shapes
  <2>2. r \in Router
    BY <1>2, <2>1 DEF CheckLock, TurnsTo, Forgets, At, Router, Waiting, Starting, Leaving, IInv, TypeOK, LockFile, SocketFile
  <2>3. Phase(r)
    BY <1>2, <2>1 DEF CheckLock, TurnsTo, Forgets, At, Router, Phase, Starting, Unbound, Releasing, Waiting
  <2>4. Knows(p, r)
    BY <1>2, <2>1 DEF CheckLock, TurnsTo, Forgets, At, Router, Knows, IInv, TypeOK, Judged
  <2>5. r.lock \in {None, router[p].lock} /\ r.sock \in {None, router[p].sock}
    BY <1>2, <2>1 DEF CheckLock, TurnsTo, Forgets, Router
  <2>6. r.pc \notin {"check", "unlink"}
    BY <1>2, <2>1 DEF CheckLock, TurnsTo, Forgets, Router
  <2>7. r.pc \notin Removing
    BY <1>2, <2>1 DEF CheckLock, TurnsTo, Forgets, Router, Removing
  <2>8. /\ router' = [router EXCEPT ![p] = r] /\ mishaps' \in 0..Mishaps
        /\ UNCHANGED <<lockFile, socketFile, overlapped, evicted>>
    BY <1>2, <2>1 DEF CheckLock, TurnsTo, Forgets, Goto, Files, History, IInv, TypeOK
  <2> HIDE DEF r
  <2> QED
    BY <2>2, <2>3, <2>4, <2>5, <2>6, <2>7, <2>8, Turns
<1> QED
  BY <1>1, <1>2 DEF CheckLock

LEMMA CheckMineStep == ASSUME IInv, NEW p \in Proc, CheckMine(p) PROVE IInv'
<1>1. CASE lockFile # None /\ lockFile.ino = router[p].seen
  <2> DEFINE r == [router[p] EXCEPT !.pc = "unlinkMine"]
  <2>1. router[p] \in Router /\ Phase(router[p])
    BY Shapes
  <2>2. r \in Router
    BY <1>1, <2>1 DEF CheckMine, At, Router, Waiting, Starting, Leaving, IInv, TypeOK, LockFile, SocketFile
  <2>3. Phase(r)
    BY <1>1, <2>1 DEF CheckMine, At, Router, Phase, Starting, Unbound, Releasing, Waiting
  <2>4. Knows(p, r)
    BY <1>1, <2>1 DEF CheckMine, At, Router, Knows, IInv, TypeOK, Judged
  <2>5. r.lock \in {None, router[p].lock} /\ r.sock \in {None, router[p].sock}
    BY <1>1, <2>1 DEF CheckMine, Router
  <2>6. r.pc \notin {"check", "unlink"}
    BY <1>1, <2>1 DEF CheckMine, Router
  <2>7. r.pc \notin Removing
    BY <1>1, <2>1 DEF CheckMine, Router, Removing
  <2>8. /\ router' = [router EXCEPT ![p] = r] /\ mishaps' \in 0..Mishaps
        /\ UNCHANGED <<lockFile, socketFile, overlapped, evicted>>
    BY <1>1, <2>1 DEF CheckMine, Goto, Files, History, IInv, TypeOK
  <2> HIDE DEF r
  <2> QED
    BY <2>2, <2>3, <2>4, <2>5, <2>6, <2>7, <2>8, Turns
<1>2. CASE ~(lockFile # None /\ lockFile.ino = router[p].seen) /\ router[p].quits
  BY <1>2, EndsStep DEF CheckMine, Files, History, IInv, TypeOK
<1>3. CASE ~(lockFile # None /\ lockFile.ino = router[p].seen) /\ ~router[p].quits
  <2> DEFINE r == Released(router[p])
  <2>1. router[p] \in Router /\ Phase(router[p])
    BY Shapes
  <2>2. r \in Router
    BY <1>3, <2>1 DEF CheckMine, Released, Forgets, At, Router, Waiting, Starting, Leaving, IInv, TypeOK, LockFile, SocketFile
  <2>3. Phase(r)
    BY <1>3, <2>1 DEF CheckMine, Released, Forgets, At, Router, Phase, Starting, Unbound, Releasing, Waiting
  <2>4. Knows(p, r)
    BY <1>3, <2>1 DEF CheckMine, Released, Forgets, At, Router, Knows, IInv, TypeOK, Judged
  <2>5. r.lock \in {None, router[p].lock} /\ r.sock \in {None, router[p].sock}
    BY <1>3, <2>1 DEF CheckMine, Released, Forgets, Router
  <2>6. r.pc \notin {"check", "unlink"}
    BY <1>3, <2>1 DEF CheckMine, Released, Forgets, Router
  <2>7. r.pc \notin Removing
    BY <1>3, <2>1 DEF CheckMine, Released, Forgets, Router, Removing
  <2>8. /\ router' = [router EXCEPT ![p] = r] /\ mishaps' \in 0..Mishaps
        /\ UNCHANGED <<lockFile, socketFile, overlapped, evicted>>
    BY <1>3, <2>1 DEF CheckMine, Released, Forgets, Goto, Files, History, IInv, TypeOK
  <2> HIDE DEF r
  <2> QED
    BY <2>2, <2>3, <2>4, <2>5, <2>6, <2>7, <2>8, Turns
<1> QED
  BY <1>1, <1>2, <1>3 DEF CheckMine

LEMMA IdentifyStep == ASSUME IInv, NEW p \in Proc, Identify(p) PROVE IInv'
<1>1. CASE socketFile = None
  <2> DEFINE r == [router[p] EXCEPT !.pc = "fail"]
  <2>1. router[p] \in Router /\ Phase(router[p])
    BY Shapes
  <2>2. r \in Router
    BY <1>1, <2>1 DEF Identify, At, Router, Waiting, Starting, Leaving, IInv, TypeOK, LockFile, SocketFile
  <2>3. Phase(r)
    BY <1>1, <2>1 DEF Identify, At, Router, Phase, Starting, Unbound, Releasing, Waiting
  <2>4. Knows(p, r)
    BY <1>1, <2>1 DEF Identify, At, Router, Knows, IInv, TypeOK, Judged
  <2>5. r.lock \in {None, router[p].lock} /\ r.sock \in {None, router[p].sock}
    BY <1>1, <2>1 DEF Identify, Router
  <2>6. r.pc \notin {"check", "unlink"}
    BY <1>1, <2>1 DEF Identify, Router
  <2>7. r.pc \notin Removing
    BY <1>1, <2>1 DEF Identify, Router, Removing
  <2>8. /\ router' = [router EXCEPT ![p] = r] /\ mishaps' \in 0..Mishaps
        /\ UNCHANGED <<lockFile, socketFile, overlapped, evicted>>
    BY <1>1, <2>1 DEF Identify, Goto, Files, History, IInv, TypeOK
  <2> HIDE DEF r
  <2> QED
    BY <2>2, <2>3, <2>4, <2>5, <2>6, <2>7, <2>8, Turns
<1>2. CASE socketFile # None
  <2> DEFINE r == [router[p] EXCEPT !.pc = "close", !.ident = socketFile.ino]
  <2>1. router[p] \in Router /\ Phase(router[p])
    BY Shapes
  <2>2. r \in Router
    BY <1>2, <2>1 DEF Identify, At, Router, Waiting, Starting, Leaving, IInv, TypeOK, LockFile, SocketFile
  <2>3. Phase(r)
    BY <1>2, <2>1 DEF Identify, At, Router, Phase, Starting, Unbound, Releasing, Waiting
  <2>4. Knows(p, r)
    BY <1>2, <2>1 DEF Identify, At, Router, Knows, IInv, TypeOK, Judged
  <2>5. r.lock \in {None, router[p].lock} /\ r.sock \in {None, router[p].sock}
    BY <1>2, <2>1 DEF Identify, Router
  <2>6. r.pc \notin {"check", "unlink"}
    BY <1>2, <2>1 DEF Identify, Router
  <2>7. r.pc \notin Removing
    BY <1>2, <2>1 DEF Identify, Router, Removing
  <2>8. /\ router' = [router EXCEPT ![p] = r] /\ mishaps' \in 0..Mishaps
        /\ UNCHANGED <<lockFile, socketFile, overlapped, evicted>>
    BY <1>2, <2>1 DEF Identify, Goto, Files, History, IInv, TypeOK
  <2> HIDE DEF r
  <2> QED
    BY <2>2, <2>3, <2>4, <2>5, <2>6, <2>7, <2>8, Turns
<1> QED
  BY <1>1, <1>2 DEF Identify

LEMMA LstatStep == ASSUME IInv, NEW p \in Proc, Lstat(p) PROVE IInv'
<1>1. CASE socketFile = None
  <2> DEFINE r == [router[p] EXCEPT !.pc = "bind"]
  <2>1. router[p] \in Router /\ Phase(router[p])
    BY Shapes
  <2>2. r \in Router
    BY <1>1, <2>1 DEF Lstat, At, Router, Waiting, Starting, Leaving, IInv, TypeOK, LockFile, SocketFile
  <2>3. Phase(r)
    BY <1>1, <2>1 DEF Lstat, At, Router, Phase, Starting, Unbound, Releasing, Waiting
  <2>4. Knows(p, r)
    BY <1>1, <2>1 DEF Lstat, At, Router, Knows, IInv, TypeOK, Judged
  <2>5. r.lock \in {None, router[p].lock} /\ r.sock \in {None, router[p].sock}
    BY <1>1, <2>1 DEF Lstat, Router
  <2>6. r.pc \notin {"check", "unlink"}
    BY <1>1, <2>1 DEF Lstat, Router
  <2>7. r.pc \notin Removing
    BY <1>1, <2>1 DEF Lstat, Router, Removing
  <2>8. /\ router' = [router EXCEPT ![p] = r] /\ mishaps' \in 0..Mishaps
        /\ UNCHANGED <<lockFile, socketFile, overlapped, evicted>>
    BY <1>1, <2>1 DEF Lstat, Goto, Files, History, IInv, TypeOK
  <2> HIDE DEF r
  <2> QED
    BY <2>2, <2>3, <2>4, <2>5, <2>6, <2>7, <2>8, Turns
<1>2. CASE socketFile # None /\ ~socketFile.private
  <2> DEFINE r == [router[p] EXCEPT !.pc = "fail"]
  <2>1. router[p] \in Router /\ Phase(router[p])
    BY Shapes
  <2>2. r \in Router
    BY <1>2, <2>1 DEF Lstat, At, Router, Waiting, Starting, Leaving, IInv, TypeOK, LockFile, SocketFile
  <2>3. Phase(r)
    BY <1>2, <2>1 DEF Lstat, At, Router, Phase, Starting, Unbound, Releasing, Waiting
  <2>4. Knows(p, r)
    BY <1>2, <2>1 DEF Lstat, At, Router, Knows, IInv, TypeOK, Judged
  <2>5. r.lock \in {None, router[p].lock} /\ r.sock \in {None, router[p].sock}
    BY <1>2, <2>1 DEF Lstat, Router
  <2>6. r.pc \notin {"check", "unlink"}
    BY <1>2, <2>1 DEF Lstat, Router
  <2>7. r.pc \notin Removing
    BY <1>2, <2>1 DEF Lstat, Router, Removing
  <2>8. /\ router' = [router EXCEPT ![p] = r] /\ mishaps' \in 0..Mishaps
        /\ UNCHANGED <<lockFile, socketFile, overlapped, evicted>>
    BY <1>2, <2>1 DEF Lstat, Goto, Files, History, IInv, TypeOK
  <2> HIDE DEF r
  <2> QED
    BY <2>2, <2>3, <2>4, <2>5, <2>6, <2>7, <2>8, Turns
<1>3. CASE socketFile # None /\ socketFile.private
  <2> DEFINE r == [router[p] EXCEPT !.pc = "probe", !.seen = socketFile.ino]
  <2>1. router[p] \in Router /\ Phase(router[p])
    BY Shapes
  <2>2. r \in Router
    BY <1>3, <2>1 DEF Lstat, At, Router, Waiting, Starting, Leaving, IInv, TypeOK, LockFile, SocketFile
  <2>3. Phase(r)
    BY <1>3, <2>1 DEF Lstat, At, Router, Phase, Starting, Unbound, Releasing, Waiting
  <2>4. Knows(p, r)
    BY <1>3, <2>1 DEF Lstat, At, Router, Knows, IInv, TypeOK, Judged
  <2>5. r.lock \in {None, router[p].lock} /\ r.sock \in {None, router[p].sock}
    BY <1>3, <2>1 DEF Lstat, Router
  <2>6. r.pc \notin {"check", "unlink"}
    BY <1>3, <2>1 DEF Lstat, Router
  <2>7. r.pc \notin Removing
    BY <1>3, <2>1 DEF Lstat, Router, Removing
  <2>8. /\ router' = [router EXCEPT ![p] = r] /\ mishaps' \in 0..Mishaps
        /\ UNCHANGED <<lockFile, socketFile, overlapped, evicted>>
    BY <1>3, <2>1 DEF Lstat, Goto, Files, History, IInv, TypeOK
  <2> HIDE DEF r
  <2> QED
    BY <2>2, <2>3, <2>4, <2>5, <2>6, <2>7, <2>8, Turns
<1> QED
  BY <1>1, <1>2, <1>3 DEF Lstat

LEMMA CheckOwnStep == ASSUME IInv, NEW p \in Proc, CheckOwn(p) PROVE IInv'
<1>1. CASE socketFile # None /\ socketFile.ino = router[p].ident
  <2> DEFINE r == [router[p] EXCEPT !.pc = "unlinkOwn"]
  <2>1. router[p] \in Router /\ Phase(router[p])
    BY Shapes
  <2>2. r \in Router
    BY <1>1, <2>1 DEF CheckOwn, At, Router, Waiting, Starting, Leaving, IInv, TypeOK, LockFile, SocketFile
  <2>3. Phase(r)
    BY <1>1, <2>1 DEF CheckOwn, At, Router, Phase, Starting, Unbound, Releasing, Waiting
  <2>4. Knows(p, r)
    BY <1>1, <2>1 DEF CheckOwn, At, Router, Knows, IInv, TypeOK, Judged
  <2>5. r.lock \in {None, router[p].lock} /\ r.sock \in {None, router[p].sock}
    BY <1>1, <2>1 DEF CheckOwn, Router
  <2>6. r.pc \notin {"check", "unlink"}
    BY <1>1, <2>1 DEF CheckOwn, Router
  <2>7. r.pc \notin Removing
    BY <1>1, <2>1 DEF CheckOwn, Router, Removing
  <2>8. /\ router' = [router EXCEPT ![p] = r] /\ mishaps' \in 0..Mishaps
        /\ UNCHANGED <<lockFile, socketFile, overlapped, evicted>>
    BY <1>1, <2>1 DEF CheckOwn, Goto, Files, History, IInv, TypeOK
  <2> HIDE DEF r
  <2> QED
    BY <2>2, <2>3, <2>4, <2>5, <2>6, <2>7, <2>8, Turns
<1>2. CASE ~(socketFile # None /\ socketFile.ino = router[p].ident)
  BY <1>2, EndsStep DEF CheckOwn, Files, History, IInv, TypeOK
<1> QED
  BY <1>1, <1>2 DEF CheckOwn

(* Who finds an orphan refused holds the lock, and no socket is bound        *)
LEMMA RefusedMeansUnbound ==
    ASSUME IInv, NEW p \in Proc, router[p].pc \in {"probe", "probe2"}, Refused,
           ~overlapped, ~evicted
    PROVE  \A q \in Proc : router[q].sock = None
<1> SUFFICES ASSUME NEW q \in Proc, router[q].sock # None
             PROVE  FALSE
  OBVIOUS
<1>1. Phase(router[p]) /\ Phase(router[q])
  BY Shapes
<1>2. socketFile.ino = router[q].sock
  BY DEF IInv, BoundAtPath
<1>3. ~router[q].up
  BY <1>2 DEF Refused, Up
<1>4. router[q].pc = "listen"
  BY <1>1, <1>3 DEF Phase
<1>5. router[p].lock # None /\ router[q].lock # None
  BY <1>1, <1>4 DEF Phase, Starting
<1>6. router[p].lock = router[q].lock
  BY <1>5 DEF IInv, HeldAtPath, Holds
<1> QED
  BY <1>4, <1>5, <1>6 DEF IInv, OwnInodes

LEMMA ProbeStep ==
    ASSUME IInv, NEW p \in Proc, NEW from, NEW to, Probe(p, from, to),
           (from = "probe" /\ to = "lstat2") \/ (from = "probe2" /\ to = "lstat3")
    PROVE  IInv'
<1>1. CASE Refused /\ router' = [router EXCEPT ![p].pc = to] /\ UNCHANGED mishaps
  <2> DEFINE r == [router[p] EXCEPT !.pc = to]
  <2>1. router[p] \in Router /\ Phase(router[p])
    BY Shapes
  <2>2. r \in Router
    BY <1>1, <2>1 DEF Probe, At, Router, Waiting, Starting, Leaving, IInv, TypeOK, LockFile, SocketFile
  <2>3. Phase(r)
    BY <1>1, <2>1 DEF Probe, At, Router, Phase, Starting, Unbound, Releasing, Waiting
  <2>4. Knows(p, r)
    BY <1>1, <2>1 DEF Probe, At, Router, Knows, IInv, TypeOK, Judged, Phase, Starting
  <2>5. r.lock \in {None, router[p].lock} /\ r.sock \in {None, router[p].sock}
    BY <1>1, <2>1 DEF Probe, Router
  <2>6. r.pc \notin {"check", "unlink"}
    BY <1>1, <2>1 DEF Probe, Router
  <2>7. ~overlapped /\ ~evicted => \A q \in Proc : router[q].sock = None
      BY <1>1, RefusedMeansUnbound DEF Probe, At
  <2>8. /\ router' = [router EXCEPT ![p] = r] /\ mishaps' \in 0..Mishaps
        /\ UNCHANGED <<lockFile, socketFile, overlapped, evicted>>
    BY <1>1, <2>1 DEF Probe, Goto, Files, History, IInv, TypeOK
  <2> HIDE DEF r
  <2> QED
    BY <2>2, <2>3, <2>4, <2>5, <2>6, <2>7, <2>8, Turns
<1>2. CASE TurnsTo(p, "fail") /\ mishaps' \in 0..Mishaps
  <2> DEFINE r == [Forgets(router[p]) EXCEPT !.pc = "fail"]
  <2>1. router[p] \in Router /\ Phase(router[p])
    BY Shapes
  <2>2. r \in Router
    BY <1>2, <2>1 DEF Probe, TurnsTo, Forgets, At, Router, Waiting, Starting, Leaving, IInv, TypeOK, LockFile, SocketFile
  <2>3. Phase(r)
    BY <1>2, <2>1 DEF Probe, TurnsTo, Forgets, At, Router, Phase, Starting, Unbound, Releasing, Waiting
  <2>4. Knows(p, r)
    BY <1>2, <2>1 DEF Probe, TurnsTo, Forgets, At, Router, Knows, IInv, TypeOK, Judged
  <2>5. r.lock \in {None, router[p].lock} /\ r.sock \in {None, router[p].sock}
    BY <1>2, <2>1 DEF Probe, TurnsTo, Forgets, Router
  <2>6. r.pc \notin {"check", "unlink"}
    BY <1>2, <2>1 DEF Probe, TurnsTo, Forgets, Router
  <2>7. r.pc \notin Removing
    BY <1>2, <2>1 DEF Probe, TurnsTo, Forgets, Router, Removing
  <2>8. /\ router' = [router EXCEPT ![p] = r] /\ mishaps' \in 0..Mishaps
        /\ UNCHANGED <<lockFile, socketFile, overlapped, evicted>>
    BY <1>2, <2>1 DEF Probe, TurnsTo, Forgets, Goto, Files, History, IInv, TypeOK
  <2> HIDE DEF r
  <2> QED
    BY <2>2, <2>3, <2>4, <2>5, <2>6, <2>7, <2>8, Turns
<1> QED
  BY <1>1, <1>2, Counted DEF Probe, Goto, IInv, TypeOK

LEMMA LstatAgainStep ==
    ASSUME IInv, NEW p \in Proc, NEW from, NEW to, LstatAgain(p, from, to),
           (from = "lstat2" /\ to = "probe2") \/ (from = "lstat3" /\ to = "remove")
    PROVE  IInv'
<1>1. CASE socketFile # None /\ socketFile.ino = router[p].seen
  <2> DEFINE r == [router[p] EXCEPT !.pc = to]
  <2>1. router[p] \in Router /\ Phase(router[p])
    BY Shapes
  <2>2. r \in Router
    BY <1>1, <2>1 DEF LstatAgain, At, Router, Waiting, Starting, Leaving, IInv, TypeOK, LockFile, SocketFile
  <2>3. Phase(r)
    BY <1>1, <2>1 DEF LstatAgain, At, Router, Phase, Starting, Unbound, Releasing, Waiting
  <2>4. Knows(p, r)
    BY <1>1, <2>1 DEF LstatAgain, At, Router, Knows, IInv, TypeOK, Judged
  <2>5. r.lock \in {None, router[p].lock} /\ r.sock \in {None, router[p].sock}
    BY <1>1, <2>1 DEF LstatAgain, Router
  <2>6. r.pc \notin {"check", "unlink"}
    BY <1>1, <2>1 DEF LstatAgain, Router
  <2>7. ~overlapped /\ ~evicted => \A q \in Proc : router[q].sock = None
      BY DEF LstatAgain, At, IInv, Orphaned
  <2>8. /\ router' = [router EXCEPT ![p] = r] /\ mishaps' \in 0..Mishaps
        /\ UNCHANGED <<lockFile, socketFile, overlapped, evicted>>
    BY <1>1, <2>1 DEF LstatAgain, Goto, Files, History, IInv, TypeOK
  <2> HIDE DEF r
  <2> QED
    BY <2>2, <2>3, <2>4, <2>5, <2>6, <2>7, <2>8, Turns
<1>2. CASE ~(socketFile # None /\ socketFile.ino = router[p].seen)
  <2> DEFINE r == [Forgets(router[p]) EXCEPT !.pc = "bind"]
  <2>1. router[p] \in Router /\ Phase(router[p])
    BY Shapes
  <2>2. r \in Router
    BY <1>2, <2>1 DEF LstatAgain, TurnsTo, Forgets, At, Router, Waiting, Starting, Leaving, IInv, TypeOK, LockFile, SocketFile
  <2>3. Phase(r)
    BY <1>2, <2>1 DEF LstatAgain, TurnsTo, Forgets, At, Router, Phase, Starting, Unbound, Releasing, Waiting
  <2>4. Knows(p, r)
    BY <1>2, <2>1 DEF LstatAgain, TurnsTo, Forgets, At, Router, Knows, IInv, TypeOK, Judged
  <2>5. r.lock \in {None, router[p].lock} /\ r.sock \in {None, router[p].sock}
    BY <1>2, <2>1 DEF LstatAgain, TurnsTo, Forgets, Router
  <2>6. r.pc \notin {"check", "unlink"}
    BY <1>2, <2>1 DEF LstatAgain, TurnsTo, Forgets, Router
  <2>7. r.pc \notin Removing
    BY <1>2, <2>1 DEF LstatAgain, TurnsTo, Forgets, Router, Removing
  <2>8. /\ router' = [router EXCEPT ![p] = r] /\ mishaps' \in 0..Mishaps
        /\ UNCHANGED <<lockFile, socketFile, overlapped, evicted>>
    BY <1>2, <2>1 DEF LstatAgain, TurnsTo, Forgets, Goto, Files, History, IInv, TypeOK
  <2> HIDE DEF r
  <2> QED
    BY <2>2, <2>3, <2>4, <2>5, <2>6, <2>7, <2>8, Turns
<1> QED
  BY <1>1, <1>2 DEF LstatAgain

LEMMA CrashStep == ASSUME IInv, NEW p \in Proc, Crash(p) PROVE IInv'
BY EndsStep, Counted DEF Crash, IInv
LEMMA UnlinkOwnStep == ASSUME IInv, NEW p \in Proc, UnlinkOwn(p) PROVE IInv'
BY EndsStep DEF UnlinkOwn, IInv, TypeOK

-----------------------------------------------------------------------------
(* The steps that change the socket path *)

LEMMA SocketTurns ==
    ASSUME IInv, NEW p \in Proc, NEW r \in Router,
           router' = [router EXCEPT ![p] = r], UNCHANGED <<lockFile, History>>,
           socketFile' \in SocketFile \cup {None},
           Phase(r), r.lock = router[p].lock, Knows(p, r), r.pc \notin {"check", "unlink"},
           \A q \in Proc \ {p} : r.sock = None \/ r.sock # router[q].sock,
           ~overlapped /\ ~evicted =>
             \A q \in Proc : router'[q].sock # None =>
               socketFile' # None /\ socketFile'.ino = router'[q].sock,
           ~overlapped /\ ~evicted =>
             \A o, q \in Proc : router'[o].pc \in Removing => router'[q].sock = None
    PROVE  IInv'
<1> USE DEF IInv, TypeOK, History
<1>0. \A q \in Proc : router'[q] = IF q = p THEN r ELSE router[q]
  OBVIOUS
<1>1. TypeOK'
  OBVIOUS
<1>2. Phases' /\ Verdicts'
  BY <1>0 DEF Phases, Verdicts
<1>3. OwnInodes'
  BY <1>0 DEF OwnInodes
<1>4. HeldAtPath'
  BY <1>0 DEF HeldAtPath, Holds
<1>5. Judged'
  BY <1>0 DEF Judged, Knows, Holds, Phase, Starting
<1>6. BoundAtPath' /\ Orphaned'
  BY DEF BoundAtPath, Orphaned, Removing
<1> QED
  BY <1>1, <1>2, <1>3, <1>4, <1>5, <1>6

(* While nothing else is bound, p binds, is bound, or lets go                *)
LEMMA OthersUnbound ==
    ASSUME IInv, NEW p \in Proc, ~overlapped, ~evicted, NEW q \in Proc \ {p},
           router[p].sock # None \/ socketFile = None
    PROVE  router[q].sock = None
BY DEF IInv, BoundAtPath, OwnInodes

LEMMA StopStep == ASSUME IInv, NEW p \in Proc, Stop(p) PROVE IInv'
<1> DEFINE r == [Closed(router[p]) EXCEPT !.pc = "stopped"]
<1>1. router[p] \in Router /\ Phase(router[p])
  BY Shapes
<1>2. r \in Router /\ socketFile' \in SocketFile \cup {None}
  BY <1>1 DEF Stop, Closed, At, Router, Waiting, Starting, Leaving, IInv, TypeOK, SocketFile
<1>3. Phase(r)
  BY <1>1 DEF Stop, Closed, At, Router, Phase, Starting, Unbound, Releasing, Waiting
<1>4. Knows(p, r)
  BY <1>1 DEF Stop, Closed, At, Router, Knows, IInv, TypeOK, Judged
<1>5. r.lock = router[p].lock /\ r.sock = None /\ r.pc \notin {"check", "unlink"} \cup Removing
  BY <1>1 DEF Stop, Closed, At, Router, Removing
<1>6. router' = [router EXCEPT ![p] = r] /\ UNCHANGED <<lockFile, History>>
  BY <1>1 DEF Stop, Closed, Goto, Files, IInv, TypeOK
<1>7. \A q \in Proc : router'[q] = IF q = p THEN r ELSE router[q]
  BY <1>6 DEF IInv, TypeOK
<1> HIDE DEF r
<1>8. \A q \in Proc \ {p} : r.sock = None \/ r.sock # router[q].sock
  BY <1>5
<1>9. ASSUME ~overlapped, ~evicted, NEW q \in Proc, router'[q].sock # None
     PROVE  socketFile' # None /\ socketFile'.ino = router'[q].sock
  <2>1. q # p /\ router[p].sock # None
    BY <1>1, <1>5, <1>7, <1>9 DEF Stop, At, Phase
  <2> QED
    BY <1>7, <1>9, <2>1, OthersUnbound
<1>10. ASSUME ~overlapped, ~evicted, NEW o \in Proc, NEW q \in Proc, router'[o].pc \in Removing
      PROVE  router'[q].sock = None
  BY <1>5, <1>7, <1>10 DEF IInv, Orphaned, Removing
<1> QED
  BY <1>2, <1>3, <1>4, <1>5, <1>6, <1>8, <1>9, <1>10, SocketTurns

LEMMA FailStep == ASSUME IInv, NEW p \in Proc, Fail(p) PROVE IInv'
<1> DEFINE r == [Closed(router[p]) EXCEPT !.pc = "close", !.quits = TRUE]
<1>1. router[p] \in Router /\ Phase(router[p])
  BY Shapes
<1>2. r \in Router /\ socketFile' \in SocketFile \cup {None}
  BY <1>1 DEF Fail, Closed, At, Router, Waiting, Starting, Leaving, IInv, TypeOK, SocketFile
<1>3. Phase(r)
  BY <1>1 DEF Fail, Closed, At, Router, Phase, Starting, Unbound, Releasing, Waiting
<1>4. Knows(p, r)
  BY <1>1 DEF Fail, Closed, At, Router, Knows, IInv, TypeOK, Judged
<1>5. r.lock = router[p].lock /\ r.sock = None /\ r.pc \notin {"check", "unlink"} \cup Removing
  BY <1>1 DEF Fail, Closed, At, Router, Removing
<1>6. router' = [router EXCEPT ![p] = r] /\ UNCHANGED <<lockFile, History>>
  BY <1>1 DEF Fail, Closed, Goto, Files, IInv, TypeOK
<1>7. \A q \in Proc : router'[q] = IF q = p THEN r ELSE router[q]
  BY <1>6 DEF IInv, TypeOK
<1> HIDE DEF r
<1>8. \A q \in Proc \ {p} : r.sock = None \/ r.sock # router[q].sock
  BY <1>5
<1>9. ASSUME ~overlapped, ~evicted, NEW q \in Proc, router'[q].sock # None
     PROVE  socketFile' # None /\ socketFile'.ino = router'[q].sock
  <2>1. q # p
    BY <1>5, <1>7, <1>9
  <2>2. router[p].sock = None
    BY <1>7, <1>9, <2>1, OthersUnbound
  <2> QED
    BY <1>7, <1>9, <2>1, <2>2 DEF Fail, IInv, BoundAtPath
<1>10. ASSUME ~overlapped, ~evicted, NEW o \in Proc, NEW q \in Proc, router'[o].pc \in Removing
      PROVE  router'[q].sock = None
  BY <1>5, <1>7, <1>10 DEF IInv, Orphaned, Removing
<1> QED
  BY <1>2, <1>3, <1>4, <1>5, <1>6, <1>8, <1>9, <1>10, SocketTurns

LEMMA ChmodStep == ASSUME IInv, NEW p \in Proc, Chmod(p) PROVE IInv'
<1>1. CASE socketFile = None
  <2> DEFINE r == [router[p] EXCEPT !.pc = "fail"]
  <2>1. router[p] \in Router /\ Phase(router[p])
    BY Shapes
  <2>2. r \in Router
    BY <1>1, <2>1 DEF Chmod, At, Router, Waiting, Starting, Leaving, IInv, TypeOK, LockFile, SocketFile
  <2>3. Phase(r)
    BY <1>1, <2>1 DEF Chmod, At, Router, Phase, Starting, Unbound, Releasing, Waiting
  <2>4. Knows(p, r)
    BY <1>1, <2>1 DEF Chmod, At, Router, Knows, IInv, TypeOK, Judged
  <2>5. r.lock \in {None, router[p].lock} /\ r.sock \in {None, router[p].sock}
    BY <1>1, <2>1 DEF Chmod, Router
  <2>6. r.pc \notin {"check", "unlink"}
    BY <1>1, <2>1 DEF Chmod, Router
  <2>7. r.pc \notin Removing
    BY <1>1, <2>1 DEF Chmod, Router, Removing
  <2>8. /\ router' = [router EXCEPT ![p] = r] /\ mishaps' \in 0..Mishaps
        /\ UNCHANGED <<lockFile, socketFile, overlapped, evicted>>
    BY <1>1, <2>1 DEF Chmod, Goto, Files, History, IInv, TypeOK
  <2> HIDE DEF r
  <2> QED
    BY <2>2, <2>3, <2>4, <2>5, <2>6, <2>7, <2>8, Turns
<1>2. CASE socketFile # None
  <2> DEFINE r == [router[p] EXCEPT !.pc = "identify"]
  <2>1. router[p] \in Router /\ Phase(router[p])
    BY Shapes
  <2>2. r \in Router /\ socketFile' \in SocketFile \cup {None}
    BY <1>2, <2>1 DEF Chmod, At, Router, Waiting, Starting, Leaving, IInv, TypeOK, SocketFile
  <2>3. Phase(r)
    BY <1>2, <2>1 DEF Chmod, At, Router, Phase, Starting, Unbound, Releasing, Waiting
  <2>4. Knows(p, r)
    BY <1>2, <2>1 DEF Chmod, At, Router, Knows, IInv, TypeOK, Judged
  <2>5. r.lock = router[p].lock /\ r.sock = router[p].sock /\ r.pc \notin {"check", "unlink"} \cup Removing
    BY <1>2, <2>1 DEF Chmod, At, Router, Removing
  <2>6. router' = [router EXCEPT ![p] = r] /\ UNCHANGED <<lockFile, History>>
    BY <1>2, <2>1 DEF Chmod, Goto, Files, IInv, TypeOK
  <2>7. \A q \in Proc : router'[q] = IF q = p THEN r ELSE router[q]
    BY <2>6 DEF IInv, TypeOK
  <2> HIDE DEF r
  <2>8. \A q \in Proc \ {p} : r.sock = None \/ r.sock # router[q].sock
    BY <2>5 DEF IInv, OwnInodes
  <2>9. ASSUME ~overlapped, ~evicted, NEW q \in Proc, router'[q].sock # None
       PROVE  socketFile' # None /\ socketFile'.ino = router'[q].sock
    <3>1. router[q].sock # None
      BY <2>5, <2>7, <2>9
    <3>2. router'[q].sock = router[q].sock
      BY <2>5, <2>7
    <3>3. socketFile \in SocketFile /\ socketFile' = [socketFile EXCEPT !.private = TRUE]
      BY <1>2 DEF Chmod, IInv, TypeOK
    <3> QED
      BY <2>9, <3>1, <3>2, <3>3 DEF SocketFile, IInv, BoundAtPath
  <2>10. ASSUME ~overlapped, ~evicted, NEW o \in Proc, NEW q \in Proc, router'[o].pc \in Removing
        PROVE  router'[q].sock = None
    BY <2>5, <2>7, <2>10 DEF IInv, Orphaned, Removing
  <2> QED
    BY <2>2, <2>3, <2>4, <2>5, <2>6, <2>8, <2>9, <2>10, SocketTurns
<1> QED
  BY <1>1, <1>2

LEMMA RemoveOrphanStep == ASSUME IInv, NEW p \in Proc, RemoveOrphan(p) PROVE IInv'
<1>1. CASE socketFile = None
  <2> DEFINE r == [Forgets(router[p]) EXCEPT !.pc = "fail"]
  <2>1. router[p] \in Router /\ Phase(router[p])
    BY Shapes
  <2>2. r \in Router
    BY <1>1, <2>1 DEF RemoveOrphan, TurnsTo, Forgets, At, Router, Waiting, Starting, Leaving, IInv, TypeOK, LockFile, SocketFile
  <2>3. Phase(r)
    BY <1>1, <2>1 DEF RemoveOrphan, TurnsTo, Forgets, At, Router, Phase, Starting, Unbound, Releasing, Waiting
  <2>4. Knows(p, r)
    BY <1>1, <2>1 DEF RemoveOrphan, TurnsTo, Forgets, At, Router, Knows, IInv, TypeOK, Judged
  <2>5. r.lock \in {None, router[p].lock} /\ r.sock \in {None, router[p].sock}
    BY <1>1, <2>1 DEF RemoveOrphan, TurnsTo, Forgets, Router
  <2>6. r.pc \notin {"check", "unlink"}
    BY <1>1, <2>1 DEF RemoveOrphan, TurnsTo, Forgets, Router
  <2>7. r.pc \notin Removing
    BY <1>1, <2>1 DEF RemoveOrphan, TurnsTo, Forgets, Router, Removing
  <2>8. /\ router' = [router EXCEPT ![p] = r] /\ mishaps' \in 0..Mishaps
        /\ UNCHANGED <<lockFile, socketFile, overlapped, evicted>>
    BY <1>1, <2>1 DEF RemoveOrphan, TurnsTo, Forgets, Goto, Files, History, IInv, TypeOK
  <2> HIDE DEF r
  <2> QED
    BY <2>2, <2>3, <2>4, <2>5, <2>6, <2>7, <2>8, Turns
<1>2. CASE socketFile # None
  <2> DEFINE r == [Forgets(router[p]) EXCEPT !.pc = "bind"]
  <2>1. router[p] \in Router /\ Phase(router[p])
    BY Shapes
  <2>2. r \in Router /\ socketFile' \in SocketFile \cup {None}
    BY <1>2, <2>1 DEF RemoveOrphan, TurnsTo, Forgets, At, Router, Waiting, Starting, Leaving, IInv, TypeOK, SocketFile
  <2>3. Phase(r)
    BY <1>2, <2>1 DEF RemoveOrphan, TurnsTo, Forgets, At, Router, Phase, Starting, Unbound, Releasing, Waiting
  <2>4. Knows(p, r)
    BY <1>2, <2>1 DEF RemoveOrphan, TurnsTo, Forgets, At, Router, Knows, IInv, TypeOK, Judged
  <2>5. r.lock = router[p].lock /\ r.sock = router[p].sock /\ r.pc \notin {"check", "unlink"} \cup Removing
    BY <1>2, <2>1 DEF RemoveOrphan, TurnsTo, Forgets, At, Router, Removing
  <2>6. router' = [router EXCEPT ![p] = r] /\ UNCHANGED <<lockFile, History>>
    BY <1>2, <2>1 DEF RemoveOrphan, TurnsTo, Forgets, Goto, Files, IInv, TypeOK
  <2>7. \A q \in Proc : router'[q] = IF q = p THEN r ELSE router[q]
    BY <2>6 DEF IInv, TypeOK
  <2> HIDE DEF r
  <2>8. \A q \in Proc \ {p} : r.sock = None \/ r.sock # router[q].sock
    BY <2>5 DEF IInv, OwnInodes
  <2>9. ASSUME ~overlapped, ~evicted, NEW q \in Proc, router'[q].sock # None
       PROVE  socketFile' # None /\ socketFile'.ino = router'[q].sock
    <3>1. router[q].sock = None
      BY <2>9 DEF RemoveOrphan, At, IInv, Orphaned
    <3> QED
      BY <2>5, <2>7, <2>9, <3>1
  <2>10. ASSUME ~overlapped, ~evicted, NEW o \in Proc, NEW q \in Proc, router'[o].pc \in Removing
        PROVE  router'[q].sock = None
    BY <2>5, <2>7, <2>10 DEF IInv, Orphaned, Removing
  <2> QED
    BY <2>2, <2>3, <2>4, <2>5, <2>6, <2>8, <2>9, <2>10, SocketTurns
<1> QED
  BY <1>1, <1>2

LEMMA BindStep == ASSUME IInv, NEW p \in Proc, Bind(p) PROVE IInv'
<1>1. CASE socketFile # None
  <2> DEFINE r == [router[p] EXCEPT !.pc = "lstat"]
  <2>1. router[p] \in Router /\ Phase(router[p])
    BY Shapes
  <2>2. r \in Router
    BY <1>1, <2>1 DEF Bind, At, Router, Waiting, Starting, Leaving, IInv, TypeOK, LockFile, SocketFile
  <2>3. Phase(r)
    BY <1>1, <2>1 DEF Bind, At, Router, Phase, Starting, Unbound, Releasing, Waiting
  <2>4. Knows(p, r)
    BY <1>1, <2>1 DEF Bind, At, Router, Knows, IInv, TypeOK, Judged
  <2>5. r.lock \in {None, router[p].lock} /\ r.sock \in {None, router[p].sock}
    BY <1>1, <2>1 DEF Bind, Router
  <2>6. r.pc \notin {"check", "unlink"}
    BY <1>1, <2>1 DEF Bind, Router
  <2>7. r.pc \notin Removing
    BY <1>1, <2>1 DEF Bind, Router, Removing
  <2>8. /\ router' = [router EXCEPT ![p] = r] /\ mishaps' \in 0..Mishaps
        /\ UNCHANGED <<lockFile, socketFile, overlapped, evicted>>
    BY <1>1, <2>1 DEF Bind, Goto, Files, History, IInv, TypeOK
  <2> HIDE DEF r
  <2> QED
    BY <2>2, <2>3, <2>4, <2>5, <2>6, <2>7, <2>8, Turns
<1>2. CASE socketFile = None
  <2>a. PICK i \in SocketInodes, private \in BOOLEAN :
           /\ socketFile' = [ino |-> i, private |-> private]
           /\ router' = [router EXCEPT ![p].pc = "listen", ![p].sock = i]
    BY <1>2 DEF Bind
  <2>b. i \in Inode /\ \A q \in Proc : router[q].sock # i
    BY DEF SocketInodes, Pick
  <2>c. socketFile' \in SocketFile /\ socketFile'.ino = i
    BY <2>a, <2>b DEF SocketFile
  <2> DEFINE r == [router[p] EXCEPT !.pc = "listen", !.sock = i]
  <2>1. router[p] \in Router /\ Phase(router[p])
    BY Shapes
  <2>2. r \in Router /\ socketFile' \in SocketFile \cup {None}
    BY <1>2, <2>a, <2>b, <2>1 DEF Bind, At, Router, Waiting, Starting, Leaving, IInv, TypeOK, SocketFile
  <2>3. Phase(r)
    BY <1>2, <2>a, <2>b, <2>1 DEF Bind, At, Router, Phase, Starting, Unbound, Releasing, Waiting
  <2>4. Knows(p, r)
    BY <1>2, <2>a, <2>b, <2>1 DEF Bind, At, Router, Knows, IInv, TypeOK, Judged
  <2>5. r.lock = router[p].lock /\ r.sock = i /\ r.pc \notin {"check", "unlink"} \cup Removing
    BY <1>2, <2>a, <2>b, <2>1 DEF Bind, At, Router, Removing
  <2>6. router' = [router EXCEPT ![p] = r] /\ UNCHANGED <<lockFile, History>>
    BY <1>2, <2>a, <2>b, <2>1 DEF Bind, Goto, Files, IInv, TypeOK
  <2>7. \A q \in Proc : router'[q] = IF q = p THEN r ELSE router[q]
    BY <2>6 DEF IInv, TypeOK
  <2> HIDE DEF r
  <2>8. \A q \in Proc \ {p} : r.sock = None \/ r.sock # router[q].sock
    BY <2>b, <2>5
  <2>9. ASSUME ~overlapped, ~evicted, NEW q \in Proc, router'[q].sock # None
       PROVE  socketFile' # None /\ socketFile'.ino = router'[q].sock
    <3>1. q = p
      BY <1>2, <2>7, <2>9, OthersUnbound
    <3> QED
      BY <2>c, <2>5, <2>7, <3>1
  <2>10. ASSUME ~overlapped, ~evicted, NEW o \in Proc, NEW q \in Proc, router'[o].pc \in Removing
        PROVE  router'[q].sock = None
    <3>1. o # p /\ router[o].pc \in Removing
      BY <2>5, <2>7, <2>10
    <3>2. router[o].lock # None /\ router[p].lock # None
      BY <3>1, <2>1, Shapes DEF Bind, At, Phase, Starting, Removing
    <3>3. router[o].lock = router[p].lock
      BY <2>10, <3>2 DEF IInv, HeldAtPath, Holds
    <3> QED
      BY <3>1, <3>2, <3>3 DEF IInv, OwnInodes
  <2> QED
    BY <2>2, <2>3, <2>4, <2>5, <2>6, <2>8, <2>9, <2>10, SocketTurns
<1> QED
  BY <1>1, <1>2

-----------------------------------------------------------------------------
(* The steps that change the lock file *)

LEMMA LockTurns ==
    ASSUME IInv, NEW p \in Proc, NEW r \in Router,
           router' \in [Proc -> Router], router'[p] = r,
           \A q \in Proc \ {p} : router'[q] \in {router[q], [router[q] EXCEPT !.same = FALSE]},
           lockFile' \in LockFile \cup {None}, overlapped' \in BOOLEAN, overlapped => overlapped',
           UNCHANGED <<socketFile, evicted, mishaps>>,
           Phase(r), r.sock \in {None, router[p].sock},
           r.pc \notin Removing \cup {"check", "unlink"},
           \A q \in Proc \ {p} : r.lock = None \/ r.lock # router[q].lock,
           HeldAtPath', Judged'
    PROVE  IInv'
<1> USE DEF IInv, TypeOK
<1>0. ASSUME NEW q \in Proc, q # p
      PROVE  /\ router'[q].pc = router[q].pc /\ router'[q].lock = router[q].lock
             /\ router'[q].sock = router[q].sock /\ router'[q].why = router[q].why
             /\ Phase(router[q]) => Phase(router'[q])
  <2>1. router[q] \in Router /\ router'[q] \in {router[q], [router[q] EXCEPT !.same = FALSE]}
    BY <1>0
  <2>2. CASE router'[q] = router[q]
    BY <2>2
  <2>3. CASE router'[q] = [router[q] EXCEPT !.same = FALSE]
    <3>1. /\ router'[q].pc = router[q].pc /\ router'[q].lock = router[q].lock
          /\ router'[q].sock = router[q].sock /\ router'[q].why = router[q].why
          /\ router'[q].up = router[q].up /\ router'[q].quits = router[q].quits
      BY <2>1, <2>3 DEF Router
    <3> QED
      BY <3>1 DEF Phase
  <2> QED
    BY <2>1, <2>2, <2>3
<1>1. TypeOK'
  OBVIOUS
<1>2. Phases' /\ Verdicts'
  BY <1>0 DEF Phases, Verdicts
<1>3. OwnInodes'
  BY <1>0 DEF OwnInodes
<1>4. BoundAtPath'
  BY <1>0 DEF BoundAtPath
<1>5. Orphaned'
  BY <1>0 DEF Orphaned, Removing
<1> QED
  BY <1>1, <1>2, <1>3, <1>4, <1>5

LEMMA OpenLockStep == ASSUME IInv, NEW p \in Proc, OpenLock(p) PROVE IInv'
<1>1. CASE lockFile # None
  <2> DEFINE r == [router[p] EXCEPT !.pc = "stat"]
  <2>1. router[p] \in Router /\ Phase(router[p])
    BY Shapes
  <2>2. r \in Router
    BY <1>1, <2>1 DEF OpenLock, At, Router, Waiting, Starting, Leaving, IInv, TypeOK, LockFile, SocketFile
  <2>3. Phase(r)
    BY <1>1, <2>1 DEF OpenLock, At, Router, Phase, Starting, Unbound, Releasing, Waiting
  <2>4. Knows(p, r)
    BY <1>1, <2>1 DEF OpenLock, At, Router, Knows, IInv, TypeOK, Judged
  <2>5. r.lock \in {None, router[p].lock} /\ r.sock \in {None, router[p].sock}
    BY <1>1, <2>1 DEF OpenLock, Router
  <2>6. r.pc \notin {"check", "unlink"}
    BY <1>1, <2>1 DEF OpenLock, Router
  <2>7. r.pc \notin Removing
    BY <1>1, <2>1 DEF OpenLock, Router, Removing
  <2>8. /\ router' = [router EXCEPT ![p] = r] /\ mishaps' \in 0..Mishaps
        /\ UNCHANGED <<lockFile, socketFile, overlapped, evicted>>
    BY <1>1, <2>1 DEF OpenLock, Goto, Files, History, IInv, TypeOK
  <2> HIDE DEF r
  <2> QED
    BY <2>2, <2>3, <2>4, <2>5, <2>6, <2>7, <2>8, Turns
<1>2. CASE lockFile = None
  <2>a. PICK i \in LockInodes :
           /\ lockFile' = [ino |-> i, pid |-> "empty", old |-> FALSE]
           /\ router' = [router EXCEPT ![p].pc = "write", ![p].lock = i]
    BY <1>2 DEF OpenLock
  <2>b. i \in Inode /\ i # None /\ \A q \in Proc : router[q].lock # i
    BY DEF LockInodes, Pick
  <2> DEFINE r == [router[p] EXCEPT !.pc = "write", !.lock = i]
  <2>1. router[p] \in Router /\ Phase(router[p]) /\ router[p].pc = "open"
    BY Shapes DEF OpenLock, At
  <2>2. r \in Router
    BY <2>b, <2>1 DEF Router, Starting
  <2>3. Phase(r)
    BY <2>b, <2>1 DEF Router, Phase, Starting, Unbound, Releasing, Waiting
  <2>4. r.lock = i /\ r.sock = router[p].sock /\ r.pc = "write" /\ r.same = router[p].same
    BY <2>1 DEF Router
  <2>5. router' = [router EXCEPT ![p] = r]
    BY <2>a, <2>1 DEF IInv, TypeOK
  <2> HIDE DEF r
  <2>6. /\ router' \in [Proc -> Router]
        /\ \A q \in Proc : router'[q] = IF q = p THEN r ELSE router[q]
    BY <2>2, <2>5 DEF IInv, TypeOK
  <2>7. lockFile' \in LockFile /\ lockFile'.ino = i /\ lockFile'.pid = "empty"
    BY <2>a, <2>b DEF LockFile, Pid
  <2>8. HeldAtPath'
    BY <1>2, <2>4, <2>6, <2>7, <2>b DEF OpenLock, History, IInv, HeldAtPath, Holds
  <2>9. Judged'
    BY <1>2, <2>4, <2>6 DEF IInv, Judged
  <2> QED
    BY <2>2, <2>3, <2>4, <2>6, <2>7, <2>8, <2>9, <2>b, LockTurns
       DEF OpenLock, History, IInv, TypeOK, Removing
<1> QED
  BY <1>1, <1>2

(* Only the file that is its own gets the pid                               *)
LEMMA WritePidStep == ASSUME IInv, NEW p \in Proc, WritePid(p) PROVE IInv'
<1> DEFINE r == [router[p] EXCEPT !.pc = "bind"]
<1>1. router[p] \in Router /\ Phase(router[p]) /\ router[p].pc = "write"
  BY Shapes DEF WritePid, At
<1>2. r \in Router /\ Phase(r)
  BY <1>1 DEF Router, Phase, Starting, Unbound, Releasing, Waiting
<1>3. /\ r.lock = router[p].lock /\ r.lock # None /\ r.sock = router[p].sock
      /\ r.pc = "bind" /\ r.same = router[p].same
  BY <1>1 DEF Router, Phase, Starting
<1>4. router' = [router EXCEPT ![p] = r]
  BY <1>1 DEF WritePid, Goto, IInv, TypeOK
<1> HIDE DEF r
<1>5. /\ router' \in [Proc -> Router]
      /\ \A q \in Proc : router'[q] = IF q = p THEN r ELSE router[q]
  BY <1>2, <1>4 DEF IInv, TypeOK
<1>6. CASE lockFile # None /\ lockFile.ino = router[p].lock
  <2>1. lockFile \in LockFile /\ lockFile' = [lockFile EXCEPT !.pid = p]
    BY <1>6 DEF WritePid, IInv, TypeOK
  <2>2. /\ lockFile' \in LockFile /\ lockFile'.ino = lockFile.ino /\ lockFile'.pid = p
    BY <2>1 DEF LockFile, Pid
  <2>3. lockFile.pid # "dead"
    BY <1>3, <1>6 DEF IInv, HeldAtPath, Holds
  <2>4. HeldAtPath'
    <3>1. \A q \in Proc : router'[q].lock = router[q].lock
      BY <1>3, <1>5
    <3>2. \A q \in Proc : q # p /\ router[q].lock # None => router[q].lock # lockFile.ino
      BY <1>6 DEF IInv, OwnInodes
    <3> QED
      BY <1>6, <2>2, <3>1, <3>2 DEF WritePid, History, IInv, HeldAtPath, Holds
  <2>5. Judged'
    BY <1>3, <1>5, <1>6, <2>2, <2>3 DEF WritePid, History, IInv, Judged, Holds
  <2> QED
    BY <1>2, <1>3, <1>5, <2>2, <2>4, <2>5, LockTurns
       DEF WritePid, History, IInv, TypeOK, Removing, OwnInodes
<1>7. CASE ~(lockFile # None /\ lockFile.ino = router[p].lock)
  <2>1. lockFile' = lockFile
    BY <1>7 DEF WritePid
  <2>2. HeldAtPath' /\ Judged'
    BY <1>3, <1>5, <2>1 DEF WritePid, History, IInv, HeldAtPath, Judged, Holds
  <2> QED
    BY <1>2, <1>3, <1>5, <2>1, <2>2, LockTurns
       DEF WritePid, History, IInv, TypeOK, Removing, OwnInodes
<1> QED
  BY <1>6, <1>7

(* The removal of the lock at the path, by a process that holds none         *)
LEMMA RemovesStep ==
    ASSUME IInv, NEW p \in Proc, NEW r \in Router, lockFile # None, RemovesLock(p),
           router' = [OthersSee(p) EXCEPT ![p] = r], UNCHANGED <<socketFile, evicted, mishaps>>,
           Phase(r), r.lock = None, r.sock \in {None, router[p].sock}, ~r.same,
           r.pc \notin Removing \cup {"check", "unlink"}
    PROVE  IInv'
<1>1. ASSUME NEW q \in Proc
      PROVE  /\ router'[q] = IF q = p THEN r ELSE [router[q] EXCEPT !.same = FALSE]
             /\ router'[q] \in Router /\ ~router'[q].same
             /\ q # p => router'[q].lock = router[q].lock
  BY <1>1 DEF OthersSee, IInv, TypeOK, Router
<1>2. router' \in [Proc -> Router]
  BY <1>1 DEF OthersSee
<1>3. HeldAtPath'
  BY <1>1 DEF RemovesLock, IInv, HeldAtPath, Holds
<1>4. Judged'
  BY <1>1 DEF Judged
<1>5. \A q \in Proc \ {p} : router'[q] \in {router[q], [router[q] EXCEPT !.same = FALSE]}
  BY <1>1
<1>6. /\ router'[p] = r /\ lockFile' \in LockFile \cup {None}
      /\ overlapped' \in BOOLEAN /\ (overlapped => overlapped')
  BY <1>1 DEF RemovesLock
<1>7. \A q \in Proc \ {p} : r.lock = None \/ r.lock # router[q].lock
  OBVIOUS
<1> QED
  BY <1>2, <1>3, <1>4, <1>5, <1>6, <1>7, LockTurns

LEMMA UnlinkLockStep == ASSUME IInv, NEW p \in Proc, UnlinkLock(p) PROVE IInv'
<1>1. CASE lockFile = None
  BY <1>1, EndsStep DEF UnlinkLock, IInv, TypeOK
<1>2. CASE lockFile # None
  <2> DEFINE r == [Forgets(router[p]) EXCEPT !.pc = "open"]
  <2>1. router[p] \in Router /\ Phase(router[p]) /\ router[p].pc = "unlink"
    BY Shapes DEF UnlinkLock, At
  <2>2. r \in Router /\ Phase(r)
    BY <2>1 DEF Forgets, Router, Phase, Starting, Unbound, Releasing, Waiting
  <2>3. r.lock = None /\ r.sock = router[p].sock /\ ~r.same /\ r.pc = "open"
    BY <2>1 DEF Forgets, Router, Phase, Starting
  <2>4. router' = [OthersSee(p) EXCEPT ![p] = r]
    BY <1>2 DEF UnlinkLock, OthersSee
  <2> HIDE DEF r
  <2> QED
    BY <1>2, <2>2, <2>3, <2>4, RemovesStep DEF UnlinkLock, Removing
<1> QED
  BY <1>1, <1>2

LEMMA UnlinkMineStep == ASSUME IInv, NEW p \in Proc, UnlinkMine(p) PROVE IInv'
<1>1. CASE lockFile = None
  BY <1>1, EndsStep DEF UnlinkMine, IInv, TypeOK
<1>2. CASE lockFile # None
  <2> DEFINE r == IF router[p].quits THEN Off ELSE Released(router[p])
  <2>1. router[p] \in Router /\ Phase(router[p]) /\ router[p].pc = "unlinkMine"
    BY Shapes DEF UnlinkMine, At
  <2>2. router' = [OthersSee(p) EXCEPT ![p] = r]
    BY <1>2 DEF UnlinkMine, OthersSee
  <2>3. CASE router[p].quits
    <3>1. r = Off
      BY <2>3
    <3> HIDE DEF r
    <3> QED
      BY <1>2, <2>2, <3>1, OffIsRouter, RemovesStep DEF UnlinkMine, Off, Removing
  <2>4. CASE ~router[p].quits
    <3>1. r = Released(router[p])
      BY <2>4
    <3> HIDE DEF r
    <3>2. r \in Router
      BY <2>1, <3>1 DEF Released, Forgets, Router, Leaving
    <3>3. r.lock = router[p].lock /\ r.sock = router[p].sock /\ r.up = router[p].up
      BY <2>1, <3>1 DEF Released, Forgets, Router
    <3>4. ~r.same /\ r.pc = "serve" /\ r.quits = router[p].quits
      BY <2>1, <3>1 DEF Released, Forgets, Router
    <3>5. r.lock = None /\ Phase(r)
      BY <2>1, <2>4, <3>3, <3>4 DEF Phase, Starting, Unbound, Releasing, Waiting
    <3> QED
      BY <1>2, <2>2, <3>2, <3>3, <3>4, <3>5, RemovesStep DEF UnlinkMine, Removing
  <2> QED
    BY <2>3, <2>4
<1> QED
  BY <1>1, <1>2

LEMMA LockAgesStep == ASSUME IInv, LockAges PROVE IInv'
<1>1. lockFile \in LockFile /\ lockFile' = [lockFile EXCEPT !.old = TRUE]
  BY DEF LockAges, IInv, TypeOK
<1>2. /\ lockFile' \in LockFile /\ lockFile'.ino = lockFile.ino /\ lockFile'.pid = lockFile.pid
      /\ lockFile' # None /\ lockFile # None
  BY <1>1 DEF LockFile
<1>3. mishaps' \in 0..Mishaps
  BY Counted DEF LockAges, IInv, TypeOK
<1> QED
  BY <1>2, <1>3 DEF LockAges, IInv, TypeOK, Phases, OwnInodes, HeldAtPath, Judged, Verdicts,
       BoundAtPath, Orphaned, Holds

-----------------------------------------------------------------------------
(* The invariant and what follows *)

LEMMA Begins == ASSUME Init PROVE IInv
<1>1. \A p \in Proc : router[p] = Off
  BY DEF Init
<1>2. TypeOK
  <2>1. Pick(Inode) \subseteq Inode
    BY DEF Pick
  <2>2. router \in [Proc -> Router]
    BY OffIsRouter DEF Init
  <2>a. lockFile \in LockFile \cup {None}
    <3>1. lockFile \in {None} \cup [ino : Pick(Inode), pid : {"dead", "recycled", "empty"},
                                      old : {FALSE}]
      BY DEF Init
    <3> HIDE DEF Pick
    <3> QED
      BY <2>1, <3>1 DEF LockFile, Pid
  <2>b. socketFile \in SocketFile \cup {None}
    <3>1. socketFile \in {None} \cup [ino : Pick(Inode), private : {TRUE}]
      BY DEF Init
    <3> QED
      BY <2>1, <3>1 DEF SocketFile
  <2>3. lockFile \in LockFile \cup {None} /\ socketFile \in SocketFile \cup {None}
    BY <2>a, <2>b
  <2>4. overlapped \in BOOLEAN /\ evicted \in BOOLEAN /\ mishaps \in 0..Mishaps
    <3>1. overlapped = FALSE /\ evicted = FALSE /\ mishaps = 0
      BY DEF Init
    <3>2. overlapped \in BOOLEAN /\ evicted \in BOOLEAN
      BY <3>1
    <3>3. mishaps \in 0..Mishaps
      BY <3>1, SMT
    <3> QED
      BY <3>2, <3>3
  <2> QED
    BY <2>2, <2>3, <2>4 DEF TypeOK
<1>3. Phases
  BY <1>1, OffIsRouter DEF Phases
<1> QED
  BY <1>1, <1>2, <1>3 DEF IInv, OwnInodes, HeldAtPath, Judged, Verdicts, BoundAtPath, Orphaned,
       Holds, Off

LEMMA Stutters == ASSUME IInv, UNCHANGED vars PROVE IInv'
BY DEF vars, IInv, TypeOK, Phases, OwnInodes, HeldAtPath, Judged, Verdicts, BoundAtPath, Orphaned,
       Holds, Phase

LEMMA StepStep == ASSUME IInv, NEW p \in Proc, Step(p) PROVE IInv'
BY OpenLockStep, WritePidStep, StatLockStep, JudgeLockStep, CheckLockStep, UnlinkLockStep,
   CloseLockStep, CheckMineStep, UnlinkMineStep, BindStep, ListenStep, ChmodStep, IdentifyStep,
   LstatStep, ProbeStep, LstatAgainStep, RemoveOrphanStep, FailStep, CheckOwnStep, UnlinkOwnStep
   DEF Step

LEMMA Preserved == ASSUME IInv, [Next]_vars PROVE IInv'
BY StepStep, SpawnStep, WriteFailsStep, StopStep, CrashStep, LockAgesStep, Stutters DEF Next

LEMMA Invariance == Spec => []IInv
<1>1. Init => IInv
  BY Begins
<1>2. IInv /\ [Next]_vars => IInv'
  BY Preserved
<1> QED
  BY <1>1, <1>2, PTL DEF Spec

(* Every reachable state is of the shape the model declares: no phase of     *)
(* start() or stop() leaves a process, a lock file or a socket file outside  *)
(* its type.                                                                 *)
THEOREM StartupTypes == Spec => []TypeOK
BY Invariance, PTL DEF IInv

(* Two processes hold the start-up lock at once only after the lock of one   *)
(* was removed while it held it (acquireStartupLock, releaseStartupLock).    *)
THEOREM OneStarter == Spec => []LockExcludes
<1>1. IInv => LockExcludes
  BY DEF IInv, LockExcludes, HeldAtPath, OwnInodes, Holds
<1> QED
  BY <1>1, Invariance, PTL

(* The lock of a process that holds it goes only by its age, or through a    *)
(* look that had become stale when the file was removed (unlinkPathIfSame).  *)
THEOREM LockOutlivesLooks == Spec => [][HeldLocksStand]_vars
<1>1. ASSUME IInv, [Next]_vars, ~overlapped, overlapped'
      PROVE  \E p \in Proc : /\ router[p].pc \in {"unlink", "unlinkMine"}
                             /\ router[p].why = "old" \/ ~router[p].same
  <2>1. PICK p \in Proc : UnlinkLock(p) \/ UnlinkMine(p)
    BY <1>1 DEF Next, Step, vars, Spawn, WriteFails, Stop, Crash, LockAges, OpenLock, WritePid,
         StatLock, JudgeLock, CheckLock, CloseLock, CheckMine, Bind, Listen, Chmod, Identify,
         Lstat, Probe, LstatAgain, RemoveOrphan, Fail, CheckOwn, UnlinkOwn, History
  <2>2. lockFile # None /\ RemovesLock(p) /\ router[p].pc \in {"unlink", "unlinkMine"}
    BY <1>1, <2>1 DEF UnlinkLock, UnlinkMine, At
  <2>3. PICK q \in Proc : q # p /\ router[q].lock = lockFile.ino
    BY <1>1, <2>2 DEF RemovesLock
  <2>4. Holds(q) /\ lockFile.pid \in {q, "empty"}
    BY <1>1, <2>2, <2>3 DEF IInv, TypeOK, LockFile, HeldAtPath, Holds
  <2>5. router[p] \in Router /\ Phase(router[p])
    BY <1>1, Shapes
  <2>6. CASE router[p].pc = "unlink" /\ router[p].same
    BY <1>1, <2>2, <2>4, <2>5, <2>6 DEF IInv, Judged, Verdicts, Router
  <2>7. CASE router[p].pc = "unlinkMine" /\ router[p].same
    BY <1>1, <2>4, <2>7 DEF IInv, Judged
  <2> QED
    BY <2>2, <2>6, <2>7
<1>2. IInv /\ [Next]_vars => [HeldLocksStand]_vars
  BY <1>1 DEF HeldLocksStand
<1> QED
  BY <1>2, Invariance, PTL DEF Spec

(* The lock keeps other starters out, and is taken from a holder only by its *)
(* age or through a stale look.                                              *)
THEOREM LockKept == Spec => LockIsKept
<1>1. LockExcludes' /\ [HeldLocksStand]_vars => [LockExcludes' /\ HeldLocksStand]_vars
  OBVIOUS
<1> QED
  BY <1>1, OneStarter, LockOutlivesLooks, PTL DEF LockIsKept

(* A socket that listens stays the one at the path through every start,      *)
(* stop and crash, as long as the lock holds and no stopped router meets its *)
(* old inode again (removeOrphanedSocket, unlinkSocketIfSame, server.close). *)
THEOREM SocketStays == Spec => []WinnerKeepsSocket
<1>1. IInv => WinnerKeepsSocket
  BY DEF IInv, WinnerKeepsSocket, BoundAtPath, Phases, Phase
<1> QED
  BY <1>1, Invariance, PTL

=============================================================================
