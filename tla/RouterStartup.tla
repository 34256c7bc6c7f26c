---------------------------- MODULE RouterStartup ----------------------------
(* How router processes come to own the one socket path, and leave it:       *)
(* start() and stop() of src/src/core/agent-router.ts, with the start-up     *)
(* lock file and the removal of an orphaned socket. A process runs           *)
(* src/src/host-runtime/router.ts, is started by a host that finds the       *)
(* socket absent or refused, or by hand, and may start again later.          *)
(*                                                                           *)
(* Every system call is a step of its own: between looking at a path and     *)
(* removing it, any other process may run. A file is known by its inode; an  *)
(* inode is used again once it has neither a name nor an open descriptor.    *)
EXTENDS Naturals, FiniteSets

CONSTANTS
    Proc,      \* processes that start routers
    Inode,     \* inode numbers
    Mishaps,   \* bound: crashes, failed calls and slow starts
    None

(* What a lock file says: the pid of a process, of none that lives any more, *)
(* one that another program has by now, or nothing yet                       *)
Pid == Proc \cup {"dead", "recycled", "empty"}
LockFile == [ino : Inode, pid : Pid, old : BOOLEAN]
SocketFile == [ino : Inode, private : BOOLEAN]

ASSUME InodeAssumption == Inode \subseteq Nat /\ Mishaps \in Nat
ASSUME NoneAssumption == None \notin Inode \cup LockFile \cup SocketFile
ASSUME ProcAssumption == Proc \cap {"dead", "recycled", "empty"} = {}

Waiting == {"open", "stat", "judge", "check", "unlink"}
Starting == {"write", "bind", "listen", "chmod", "identify",
             "lstat", "probe", "lstat2", "probe2", "lstat3", "remove", "fail", "close"}
Leaving == {"mine", "unlinkMine", "serve", "stopped", "unlinkOwn"}
Router ==
    [pc : {"off"} \cup Waiting \cup Starting \cup Leaving,
     seen : Inode \cup {None},   \* the identity it compares a path with
     lock : Inode \cup {None},   \* the lock file it has open
     sock : Inode \cup {None},   \* the socket it is bound to
     up : BOOLEAN,               \* it listens
     ident : Inode \cup {None},  \* socketIdentity
     quits : BOOLEAN,            \* start() throws once the lock is released
     why : {"none", "old", "dead"}, \* history: why it found a lock stale
     same : BOOLEAN]             \* history: that file is still the one at the path
Off == [pc |-> "off", seen |-> None, lock |-> None, sock |-> None, up |-> FALSE,
        ident |-> None, quits |-> FALSE, why |-> "none", same |-> FALSE]

VARIABLES
    router,      \* [Proc -> Router]
    lockFile,    \* the file at <socket>.startup.lock, or None
    socketFile,  \* the file at the socket path, or None
    overlapped,  \* history: the lock of a process that held it was removed
    evicted,     \* history: a router that stopped removed the socket of another
    mishaps      \* bound: how many there were

vars == <<router, lockFile, socketFile, overlapped, evicted, mishaps>>

Holds(p) == router[p].lock # None
Up(i) == \E p \in Proc : router[p].up /\ router[p].sock = i

(* The inode of a new file matters only if some process has kept it: any of  *)
(* those that are unused, or another                                         *)
Pick(unused) ==
    LET kept == {i \in unused : \E p \in Proc : i \in {router[p].seen, router[p].ident}}
    IN kept \cup {i \in unused \ kept : \A k \in unused \ kept : i <= k}
LockInodes == Pick({i \in Inode : \A p \in Proc : router[p].lock # i})
SocketInodes == Pick({i \in Inode : \A p \in Proc : router[p].sock # i})

(* At first there is nothing, or what a crashed router left                  *)
Init ==
    /\ router = [p \in Proc |-> Off]
    /\ lockFile \in {None} \cup [ino : Pick(Inode), pid : {"dead", "recycled", "empty"},
                                 old : {FALSE}]
    /\ socketFile \in {None} \cup [ino : Pick(Inode), private : {TRUE}]
    /\ overlapped = FALSE /\ evicted = FALSE /\ mishaps = 0

At(p, label) == router[p].pc = label
Goto(p, label) == router' = [router EXCEPT ![p].pc = label]
Files == <<lockFile, socketFile>>
History == <<overlapped, evicted, mishaps>>
Mishap == mishaps < Mishaps /\ mishaps' = mishaps + 1

(* The process ends. A lock file of its own that it leaves behind names a    *)
(* pid that nobody has, or that some program gets.                           *)
Ends(p, lock) ==
    /\ router' = [router EXCEPT ![p] = Off]
    /\ IF lock # None /\ lock.pid = p
         THEN \E pid \in {"dead", "recycled"} : lockFile' = [lock EXCEPT !.pid = pid]
         ELSE lockFile' = lock

-----------------------------------------------------------------------------
(* acquireStartupLock *)

(* A host finds the socket absent or refused, or a user starts a router      *)
Unavailable == IF socketFile = None THEN TRUE
               ELSE socketFile.private /\ ~Up(socketFile.ino)
Spawn(p) ==
    /\ At(p, "off")
    /\ Goto(p, "open")
    /\ UNCHANGED <<Files, History>>

(* Mutant: openSync with "w"                                                 *)
OpenAny(p) ==
    /\ At(p, "open")
    /\ \E i \in IF lockFile = None THEN LockInodes ELSE {lockFile.ino} :
         /\ lockFile' = [ino |-> i, pid |-> "empty", old |-> FALSE]
         /\ router' = [router EXCEPT ![p].pc = "write", ![p].lock = i]
    /\ UNCHANGED <<socketFile, History>>
(* openSync with "wx"                                                        *)
OpenLock(p) ==
    /\ At(p, "open")
    /\ IF lockFile = None
         THEN \E i \in LockInodes :
                /\ lockFile' = [ino |-> i, pid |-> "empty", old |-> FALSE]
                /\ router' = [router EXCEPT ![p].pc = "write", ![p].lock = i]
         ELSE Goto(p, "stat") /\ UNCHANGED lockFile
    /\ UNCHANGED <<socketFile, History>>
(* The pid goes into the file that is open, whatever is at the path          *)
WritePid(p) ==
    /\ At(p, "write")
    /\ lockFile' = IF lockFile # None /\ lockFile.ino = router[p].lock
                     THEN [lockFile EXCEPT !.pid = p] ELSE lockFile
    /\ Goto(p, "bind")
    /\ UNCHANGED <<socketFile, History>>
WriteFails(p) ==
    /\ At(p, "write") /\ Mishap
    /\ router' = [router EXCEPT ![p].pc = "close", ![p].quits = TRUE]
    /\ UNCHANGED <<Files, overlapped, evicted>>

(* readPrivateLockIdentity: a lock that is gone by now fails the start       *)
StatLock(p) ==
    /\ At(p, "stat")
    /\ IF lockFile = None THEN Ends(p, lockFile)
       ELSE /\ router' = [router EXCEPT ![p].pc = "judge", ![p].seen = lockFile.ino,
                                        ![p].why = IF lockFile.old THEN "old" ELSE "none",
                                        ![p].same = TRUE]
            /\ UNCHANGED lockFile
    /\ UNCHANGED <<socketFile, History>>
Forgets(r) == [r EXCEPT !.seen = None, !.why = "none", !.same = FALSE]
TurnsTo(p, label) == router' = [router EXCEPT ![p] = [Forgets(@) EXCEPT !.pc = label]]
(* startupLockIsStale: by the age it was read with, or has by now, or by the *)
(* pid in the file that is at the path by now                                *)
(* Mutant: a lock is stale by its pid alone                                  *)
Ageless(p) == FALSE
Aged(p) ==
    \/ router[p].why = "old"
    \/ lockFile # None /\ lockFile.ino = router[p].seen /\ lockFile.old
(* Mutant: a lock without a pid yet is taken for one of a dead process       *)
NoLivePid == lockFile # None /\ lockFile.pid \in {"dead", "empty"}
DeadPid == lockFile # None /\ lockFile.pid = "dead"
JudgeLock(p) ==
    /\ At(p, "judge")
    /\ \/ /\ Aged(p) \/ DeadPid
          /\ router' = [router EXCEPT ![p].pc = "check",
                                      ![p].why = IF Aged(p) THEN "old" ELSE "dead"]
          /\ UNCHANGED lockFile
       \/ /\ ~Aged(p) /\ ~DeadPid
          /\ \/ TurnsTo(p, "open") /\ UNCHANGED lockFile
             \/ Ends(p, lockFile)
    /\ UNCHANGED <<socketFile, History>>
(* unlinkPathIfSame, a look and a removal. What is no longer there when it   *)
(* is to be removed fails the start.                                         *)
CheckLock(p) ==
    /\ At(p, "check")
    /\ IF lockFile # None /\ lockFile.ino = router[p].seen THEN Goto(p, "unlink") ELSE TurnsTo(p, "open")
    /\ UNCHANGED <<Files, History>>
(* The lock at the path is removed, by p, whoever holds it                   *)
RemovesLock(p) ==
    /\ lockFile' = None
    /\ overlapped' = (overlapped \/ \E q \in Proc \ {p} : router[q].lock = lockFile.ino)
OthersSee(p) == [q \in Proc |-> IF q = p THEN router[p] ELSE [router[q] EXCEPT !.same = FALSE]]
UnlinkLock(p) ==
    /\ At(p, "unlink")
    /\ IF lockFile = None THEN Ends(p, lockFile) /\ UNCHANGED overlapped
       ELSE /\ RemovesLock(p)
            /\ router' = [OthersSee(p) EXCEPT ![p] = [Forgets(@) EXCEPT !.pc = "open"]]
    /\ UNCHANGED <<socketFile, evicted, mishaps>>

(* releaseStartupLock: the descriptor, then unlinkPathIfSame                 *)
CloseLock(p) ==
    /\ At(p, "close")
    /\ router' = [router EXCEPT ![p].pc = "mine", ![p].seen = router[p].lock, ![p].lock = None,
                                ![p].same = lockFile # None /\ lockFile.ino = router[p].lock]
    /\ UNCHANGED <<Files, History>>
Released(r) == [Forgets(r) EXCEPT !.pc = "serve"]
CheckMine(p) ==
    /\ At(p, "mine")
    /\ IF lockFile # None /\ lockFile.ino = router[p].seen
         THEN Goto(p, "unlinkMine") /\ UNCHANGED lockFile
       ELSE IF router[p].quits THEN Ends(p, lockFile)
       ELSE router' = [router EXCEPT ![p] = Released(@)] /\ UNCHANGED lockFile
    /\ UNCHANGED <<socketFile, History>>
UnlinkMine(p) ==
    /\ At(p, "unlinkMine")
    /\ IF lockFile = None THEN Ends(p, lockFile) /\ UNCHANGED overlapped
       ELSE /\ RemovesLock(p)
            /\ router' = [OthersSee(p) EXCEPT ![p] = IF @.quits THEN Off ELSE Released(@)]
    /\ UNCHANGED <<socketFile, evicted, mishaps>>

-----------------------------------------------------------------------------
(* start(), with the lock *)

(* listen binds the path, with the mode the umask leaves, and listens        *)
Bind(p) ==
    /\ At(p, "bind")
    /\ IF socketFile = None
         THEN \E i \in SocketInodes, private \in BOOLEAN :
                /\ socketFile' = [ino |-> i, private |-> private]
                /\ router' = [router EXCEPT ![p].pc = "listen", ![p].sock = i]
         ELSE Goto(p, "lstat") /\ UNCHANGED socketFile
    /\ UNCHANGED <<lockFile, History>>
Listen(p) ==
    /\ At(p, "listen")
    /\ router' = [router EXCEPT ![p].pc = "chmod", ![p].up = TRUE]
    /\ UNCHANGED <<Files, History>>
Chmod(p) ==
    /\ At(p, "chmod")
    /\ IF socketFile = None THEN Goto(p, "fail") /\ UNCHANGED socketFile
       ELSE /\ socketFile' = [socketFile EXCEPT !.private = TRUE]
            /\ Goto(p, "identify")
    /\ UNCHANGED <<lockFile, History>>
Identify(p) ==
    /\ At(p, "identify")
    /\ IF socketFile = None THEN Goto(p, "fail")
       ELSE router' = [router EXCEPT ![p].pc = "close", ![p].ident = socketFile.ino]
    /\ UNCHANGED <<Files, History>>

(* removeOrphanedSocket: look, probe, look, probe, look, remove. A file that *)
(* was replaced is left alone and the path is tried again.                   *)
Lstat(p) ==
    /\ At(p, "lstat")
    /\ IF socketFile = None THEN Goto(p, "bind")
       ELSE IF ~socketFile.private THEN Goto(p, "fail")
       ELSE router' = [router EXCEPT ![p].pc = "probe", ![p].seen = socketFile.ino]
    /\ UNCHANGED <<Files, History>>
(* Mutant: a listener that is slow to answer is taken for none               *)
RefusedOrSilent == socketFile # None
(* probeSocket                                                               *)
Refused == socketFile # None /\ ~Up(socketFile.ino)
Probe(p, from, to) ==
    /\ At(p, from)
    /\ \/ /\ IF Refused THEN Goto(p, to) ELSE TurnsTo(p, "fail")
          /\ UNCHANGED mishaps
       \/ TurnsTo(p, "fail") /\ Mishap
    /\ UNCHANGED <<Files, overlapped, evicted>>
LstatAgain(p, from, to) ==
    /\ At(p, from)
    /\ IF socketFile # None /\ socketFile.ino = router[p].seen THEN Goto(p, to)
       ELSE TurnsTo(p, "bind")
    /\ UNCHANGED <<Files, History>>
RemoveOrphan(p) ==
    /\ At(p, "remove")
    /\ IF socketFile = None THEN TurnsTo(p, "fail") /\ UNCHANGED socketFile
       ELSE socketFile' = None /\ TurnsTo(p, "bind")
    /\ UNCHANGED <<lockFile, History>>

(* server.close(): a bound server removes the path, whatever is there        *)
Closed(r) == [r EXCEPT !.sock = None, !.up = FALSE]
Fail(p) ==
    /\ At(p, "fail")
    /\ socketFile' = IF router[p].sock = None THEN socketFile ELSE None
    /\ router' = [router EXCEPT ![p] = [Closed(@) EXCEPT !.pc = "close", !.quits = TRUE]]
    /\ UNCHANGED <<lockFile, History>>

-----------------------------------------------------------------------------
(* stop(): server.close(), then unlinkSocketIfSame                           *)
Stop(p) ==
    /\ At(p, "serve")
    /\ socketFile' = None
    /\ router' = [router EXCEPT ![p] = [Closed(@) EXCEPT !.pc = "stopped"]]
    /\ UNCHANGED <<lockFile, History>>
CheckOwn(p) ==
    /\ At(p, "stopped")
    /\ IF socketFile # None /\ socketFile.ino = router[p].ident
         THEN Goto(p, "unlinkOwn") /\ UNCHANGED lockFile
         ELSE Ends(p, lockFile)
    /\ UNCHANGED <<socketFile, History>>
UnlinkOwn(p) ==
    /\ At(p, "unlinkOwn")
    /\ socketFile' = None
    /\ evicted' = (evicted \/ socketFile # None)
    /\ Ends(p, lockFile)
    /\ UNCHANGED <<overlapped, mishaps>>

Crash(p) ==
    /\ ~At(p, "off") /\ Mishap
    /\ Ends(p, lockFile)
    /\ UNCHANGED <<socketFile, overlapped, evicted>>

(* STARTUP_LOCK_STALE_MS pass. That a start takes that long is a mishap.     *)
LockAges ==
    /\ lockFile # None /\ ~lockFile.old
    /\ lockFile' = [lockFile EXCEPT !.old = TRUE]
    /\ IF \E p \in Proc : router[p].lock = lockFile.ino \/ lockFile.pid = p
         THEN Mishap ELSE UNCHANGED mishaps
    /\ UNCHANGED <<router, socketFile, overlapped, evicted>>

Step(p) ==
    \/ OpenLock(p) \/ WritePid(p) \/ StatLock(p) \/ JudgeLock(p) \/ CheckLock(p) \/ UnlinkLock(p)
    \/ CloseLock(p) \/ CheckMine(p) \/ UnlinkMine(p)
    \/ Bind(p) \/ Listen(p) \/ Chmod(p) \/ Identify(p)
    \/ Lstat(p) \/ Probe(p, "probe", "lstat2") \/ LstatAgain(p, "lstat2", "probe2")
    \/ Probe(p, "probe2", "lstat3") \/ LstatAgain(p, "lstat3", "remove")
    \/ RemoveOrphan(p) \/ Fail(p) \/ CheckOwn(p) \/ UnlinkOwn(p)

Next ==
    \/ \E p \in Proc : Spawn(p) \/ Step(p) \/ WriteFails(p) \/ Stop(p) \/ Crash(p)
    \/ LockAges

(* A host that finds no router starts one, again and again; a process that   *)
(* runs goes on; time passes for a lock that nobody holds                    *)
HostSpawns(p) == Unavailable /\ Spawn(p)
Fairness ==
    /\ \A p \in Proc : WF_vars(Step(p)) /\ WF_vars(HostSpawns(p))
    /\ WF_vars(LockAges)
Spec == Init /\ [][Next]_vars /\ Fairness
-----------------------------------------------------------------------------
(* Types and shapes of the whole state                                       *)
TypeOK ==
    /\ router \in [Proc -> Router]
    /\ lockFile \in LockFile \cup {None} /\ socketFile \in SocketFile \cup {None}
    /\ overlapped \in BOOLEAN /\ evicted \in BOOLEAN /\ mishaps \in 0..Mishaps

(* Two processes are never between taking the lock and releasing it, unless  *)
(* the lock of one was removed while it held it.                             *)
LockExcludes ==
    overlapped \/ \A p, q \in Proc : Holds(p) /\ Holds(q) => p = q

(* The lock of a process that holds it is removed only after five seconds,   *)
(* or by one that had looked at another file, which was at the path before   *)
(* (agent-router.ts:1371).                                                   *)
HeldLocksStand ==
    ~overlapped /\ overlapped' =>
        \E p \in Proc : /\ router[p].pc \in {"unlink", "unlinkMine"}
                        /\ router[p].why = "old" \/ ~router[p].same

(* No step leaves two starters inside at once while the lock works, and it   *)
(* fails a holder in no other way than these two, whoever waits, judges,     *)
(* retries or dies meanwhile.                                                *)
LockIsKept == [][LockExcludes' /\ HeldLocksStand]_vars

(* The router that listens is the one at the path: however many start, stop  *)
(* and crash, nobody removes its socket and no second one listens unseen,    *)
(* unless the lock failed or a router that stopped found its old inode on    *)
(* the socket of the next (agent-router.ts:1348, 334).                       *)
WinnerKeepsSocket ==
    overlapped \/ evicted \/
    \A p \in Proc : router[p].up => socketFile # None /\ socketFile.ino = router[p].sock

(* Nothing keeps routers away for good: once no router is stopped any more   *)
(* and no two hold the lock at once, one serves at the path; unless a router *)
(* died between bind and chmod and left a socket that is not private, which  *)
(* nobody removes (agent-router.ts:303, 1436).                               *)
Served == socketFile # None /\ Up(socketFile.ino)
Exposed == socketFile # None /\ ~socketFile.private
Overlap == \E p, q \in Proc : p # q /\ Holds(p) /\ Holds(q)
SomeoneServes ==
    \/ <>[](Served \/ Exposed)
    \/ []<>Overlap
    \/ []<><<\E p \in Proc : Stop(p)>>_vars
=============================================================================
