---------------------------- MODULE UpdateProofs ----------------------------
(***************************************************************************)
(* Machine-checked proofs about Update: unless two updaters look for the   *)
(* lock at the same time, one update runs at a time, a binary that works   *)
(* stays at hand, and an update that reports success has its own server on *)
(* the port.                                                               *)
(***************************************************************************)
EXTENDS Update, FiniteSetTheorems, TLAPS

(***************************************************************************)
(* The inductive invariant.                                                *)
(***************************************************************************)
BeforeLock == {"idle", "check", "unlock", "lock"}

Labels == BeforeLock \cup
    {"build", "find", "term", "wait", "keep", "install", "start", "record", "alive",
     "curl", "undo", "putAway", "restore", "restart", "recordOld", "exit"}

Past(u) == pc[u] \notin BeforeLock

(* The race update.sh does not exclude, excluded.                           *)
OneAtTheLock == \A u, v \in Updater :
    pc[u] \in BeforeLock \ {"idle"} /\ pc[v] \in BeforeLock \ {"idle"} => u = v

(* The lock names the updater that is past it.                              *)
LockInv == \A u \in Updater :
    /\ Past(u) => lock = u
    /\ pc[u] = "unlock" => lock = "stale"
    /\ pc[u] = "lock" => lock = Nil

Process == [bin : Nat, state : {"booting", "listening", "stuck", "draining"}]

Typed ==
    /\ works \subseteq Nat /\ built \in Nat
    /\ bin \in Nat \cup {Nil} /\ prev \in Nat \cup {Nil} /\ fresh \in Nat \cup {Nil}
    /\ Alive \subseteq Pid /\ pidfile \in Pid
    /\ \A p \in Alive : servers[p] \in Process
    /\ pc \in [Updater -> Labels]
    /\ loc \in [Updater -> [old : SUBSET Pid, pid : Pid \cup {Nil}]]
    /\ cut \in BOOLEAN
    /\ \A u \in Updater : pc[u] \in {"record", "recordOld"} => loc[u].pid \in Pid

(* A server comes up only with a binary that works.                         *)
AnswersWork == \A p \in Listening : servers[p].bin \in works

(* Where a binary that works is, while the script is at p: b is the         *)
(* installed binary, v the previous one, w are the binaries that work.      *)
GoodAt(p, b, v, w) ==
    /\ p \in BeforeLock \cup {"build", "find", "term", "wait", "keep", "exit"} =>
         IF b = Nil THEN v \in w ELSE b \in w
    /\ p \in {"install", "restore"} => b = Nil /\ v \in w
    /\ p \in {"start", "record", "alive", "curl", "undo", "putAway"} => v \in w
    /\ p \in {"restart", "recordOld"} => b \in w

(* The processes of s that answer, or may come to answer.                   *)
Active(s) == {p \in DOMAIN s : s[p].state # "draining"}

(* What runs, while the script is at p with the variables l: nothing but    *)
(* the server of the pid file f, unless that one is gone; once the old      *)
(* servers are stopped, nothing but the server that was started.            *)
ServersAt(p, l, b, f, s) ==
    /\ p # "recordOld" => (f \in DOMAIN s => Active(s) \subseteq {f})
    /\ p \in {"term", "wait"} => Active(s) \cup ({f} \cap DOMAIN s) \subseteq l.old
    /\ p \in {"keep", "install", "start", "record"} => f \notin DOMAIN s
    /\ p \in {"keep", "install", "start", "putAway", "restore", "restart"} => Active(s) = {}
    /\ p \in {"record", "alive", "curl", "undo", "recordOld"} => Active(s) \subseteq {l.pid}
    /\ p \in {"record", "alive", "curl"} => \A q \in Active(s) : s[q].bin = b

Phase(p, l) == GoodAt(p, bin, prev, works) /\ ServersAt(p, l, bin, pidfile, servers)

Sound ==
    /\ \A u \in Updater : Past(u) => Phase(pc[u], loc[u])
    /\ (\A u \in Updater : ~Past(u)) => Phase("idle", Blank)

UpdateInv == Typed /\ LockInv /\ AnswersWork /\ (cut \/ Sound)

(***************************************************************************)
(* The lock.                                                               *)
(***************************************************************************)
(* Whatever a step does to the lock, the updater past it is the one named.  *)
LEMMA LockKept ==
    ASSUME Typed, LockInv, OneAtTheLock, OneAtTheLock', [Next]_vars
    PROVE  LockInv'
<1> USE DEF Typed, LockInv, BeforeLock, Labels, Past
<1>1. CASE UNCHANGED vars
  BY <1>1 DEF vars
<1>2. CASE \E p \in Pid : Booted(p) \/ Hangs(p) \/ Drained(p) \/ Dies(p)
  BY <1>2 DEF Booted, Hangs, Drained, Dies
<1>3. CASE ByHand
  BY <1>3 DEF ByHand
<1>4. ASSUME NEW u \in Updater, Begin(u)
      PROVE  LockInv'
  BY <1>4 DEF Begin, Goto
<1>5. ASSUME NEW u \in Updater, CheckLock(u)
      PROVE  LockInv'
  BY <1>5 DEF CheckLock, Goto, OneAtTheLock
<1>6. ASSUME NEW u \in Updater, RemoveStaleLock(u)
      PROVE  LockInv'
  BY <1>6, UpdateAssumption DEF RemoveStaleLock, Goto, OneAtTheLock
<1>7. ASSUME NEW u \in Updater, WriteLock(u)
      PROVE  LockInv'
  BY <1>7, UpdateAssumption DEF WriteLock, Goto, OneAtTheLock
<1>8. ASSUME NEW u \in Updater, Exit(u)
      PROVE  LockInv'
  BY <1>8, UpdateAssumption DEF Exit, Goto
<1>9. ASSUME NEW u \in Updater, Kill(u)
      PROVE  LockInv'
  BY <1>9, UpdateAssumption DEF Kill, Goto, Running
<1>10. ASSUME NEW u \in Updater, Past(u), NEW q \in Labels \ BeforeLock,
              pc' = [pc EXCEPT ![u] = q], lock' = lock
       PROVE  LockInv'
  BY <1>10
<1>11. ASSUME NEW u \in Updater, Script(u) PROVE LockInv'
  <2>1. ASSUME Build(u) PROVE LockInv'
    BY <2>1, <1>10 DEF Build, Goto
  <2>2. ASSUME FindOld(u) \/ TermOld(u) \/ WaitOld(u) PROVE LockInv'
    BY <2>2, <1>10 DEF FindOld, TermOld, WaitOld, Goto
  <2>3. ASSUME KeepPrevious(u) \/ Install(u) PROVE LockInv'
    BY <2>3, <1>10 DEF KeepPrevious, Install, Goto
  <2>4. ASSUME StartNew(u) \/ RecordNew(u) PROVE LockInv'
    BY <2>4, <1>10 DEF StartNew, RecordNew, Goto
  <2>5. ASSUME ProbeAlive(u) \/ ProbeHealth(u) \/ GiveUp(u) PROVE LockInv'
    BY <2>5, <1>10 DEF ProbeAlive, ProbeHealth, GiveUp, Goto
  <2>6. ASSUME StopNew(u) \/ PutAway(u) \/ Restore(u) PROVE LockInv'
    BY <2>6, <1>10 DEF StopNew, PutAway, Restore, Goto
  <2>7. ASSUME RestartOld(u) \/ RecordOld(u) PROVE LockInv'
    BY <2>7, <1>10 DEF RestartOld, RecordOld, Goto
  <2> QED
    BY <1>11, <1>5, <1>6, <1>7, <1>8, <2>1, <2>2, <2>3, <2>4, <2>5, <2>6, <2>7 DEF Script
<1> QED
  BY <1>1, <1>2, <1>3, <1>4, <1>9, <1>11 DEF Next

(* Nobody else is past the lock.                                            *)
LEMMA Alone ==
    ASSUME LockInv, NEW u \in Updater, NEW v \in Updater, Past(u), Past(v)
    PROVE  u = v
BY DEF LockInv

(***************************************************************************)
(* Types.                                                                  *)
(***************************************************************************)
(* The fields of an updater's variables, one assignment at a time.          *)
LEMMA Assigned ==
    ASSUME NEW l \in [old : SUBSET Pid, pid : Pid \cup {Nil}]
    PROVE  /\ \A o \in SUBSET Pid :
                [l EXCEPT !.old = o] = [old |-> o, pid |-> l.pid]
           /\ \A p : [l EXCEPT !.pid = p] = [old |-> l.old, pid |-> p]
OBVIOUS

(* A process started under a new id.                                        *)
LEMMA Spawned ==
    ASSUME Typed, NEW p \in FreePid, Spawn(p, bin), bin # Nil
    PROVE  /\ Alive' = Alive \cup {p} /\ p \notin Alive /\ p # pidfile /\ p \in Pid
           /\ servers'[p] = [bin |-> bin, state |-> "booting"]
           /\ \A q \in Alive : servers'[q] = servers[q]
           /\ \A q \in Alive' : servers'[q] \in Process
           /\ Active(servers') = Active(servers) \cup {p}
           /\ Listening' = Listening /\ \A q \in Listening : servers'[q].bin = servers[q].bin
BY DEF Typed, FreePid, Spawn, Alive, Process, Active, Listening

(* Processes that are asked to stop.                                        *)
LEMMA Stopped ==
    ASSUME Typed, NEW ps, servers' = Terminated(ps) \/ servers' = Without(ps)
    PROVE  /\ Alive' \subseteq Alive
           /\ \A q \in Alive' : /\ servers'[q] \in Process
                                /\ servers'[q].bin = servers[q].bin
           /\ Active(servers') = Active(servers) \ ps
           /\ Listening' = Listening \ ps /\ Listening' \subseteq Alive'
           /\ servers' = Without(ps) => Alive' = Alive \ ps
<1>1. CASE servers' = Without(ps)
  BY <1>1 DEF Typed, Without, Alive, Process, Active, Listening
<1>2. CASE servers' = Terminated(ps)
  <2> PICK gone : gone = {p \in ps \cap Alive : servers[p].state = "booting"}
    OBVIOUS
  <2>1. servers' = [p \in Alive \ gone |->
           IF p \in ps THEN [servers[p] EXCEPT !.state = "draining"] ELSE servers[p]]
    BY <1>2 DEF Terminated
  <2>2. Alive' = Alive \ gone
    BY <2>1 DEF Alive
  <2>3. ASSUME NEW q \in Alive'
        PROVE  /\ servers'[q] \in Process /\ servers'[q].bin = servers[q].bin
               /\ q \in ps => servers[q].state # "booting" /\ servers'[q].state = "draining"
               /\ q \notin ps => servers'[q].state = servers[q].state
    <3>1. q \in Alive \ gone /\ servers[q] \in Process
      BY <2>2, <2>3 DEF Typed
    <3>2. servers'[q] = IF q \in ps THEN [servers[q] EXCEPT !.state = "draining"]
                                    ELSE servers[q]
      BY <2>1, <3>1
    <3> QED
      BY <3>1, <3>2 DEF Process
  <2>4. \A q \in gone : q \in ps
    OBVIOUS
  <2>5. Active(servers') = Active(servers) \ ps
    BY <2>2, <2>3, <2>4 DEF Active, Alive
  <2>6. Listening' = Listening \ ps /\ Listening' \subseteq Alive'
    BY <2>2, <2>3, <2>4 DEF Listening
  <2>7. servers' = Without(ps) => Alive' = Alive \ ps
    BY DEF Without, Alive
  <2> QED
    BY <2>2, <2>3, <2>5, <2>6, <2>7
<1> QED
  BY <1>1, <1>2

(* A process that binds the port, to answer or to get stuck.                *)
LEMMA CameUp ==
    ASSUME Typed, NEW p \in Alive, servers[p].state = "booting",
           NEW x \in {"listening", "stuck"}, servers' = [servers EXCEPT ![p].state = x]
    PROVE  /\ Alive' = Alive
           /\ \A q \in Alive' : /\ servers'[q] \in Process
                                /\ servers'[q].bin = servers[q].bin
           /\ Active(servers') = Active(servers)
           /\ Listening' \subseteq Listening \cup {p}
           /\ p \in Listening' => x = "listening"
<1>1. servers' = [servers EXCEPT ![p] = [servers[p] EXCEPT !.state = x]]
  OBVIOUS
<1>2. Alive' = Alive
  BY <1>1 DEF Alive
<1>3. servers[p] \in Process
  BY DEF Typed
<1>4. ASSUME NEW q \in Alive
      PROVE  servers'[q] = IF q = p THEN [servers[p] EXCEPT !.state = x]
                                    ELSE servers[q]
  BY <1>1 DEF Alive, Typed
<1>5. ASSUME NEW q \in Alive
      PROVE  /\ servers'[q] \in Process /\ servers'[q].bin = servers[q].bin
             /\ servers'[q].state = IF q = p THEN x ELSE servers[q].state
  BY <1>3, <1>4 DEF Typed, Process
<1> QED
  BY <1>2, <1>5 DEF Active, Listening, Alive

(* Every step keeps the types, and servers up only with binaries that work. *)
LEMMA TypesKept ==
    ASSUME Typed, AnswersWork, [Next]_vars
    PROVE  Typed' /\ AnswersWork'
<1>1. CASE UNCHANGED vars
  BY <1>1 DEF vars, disk, Typed, AnswersWork, Alive, Listening
<1>2. ASSUME UNCHANGED <<works, built, bin, prev, fresh, pidfile, pc, loc, cut>>,
             Alive' \subseteq Alive, \A q \in Alive' : servers'[q] \in Process,
             \A q \in Listening' : servers'[q].bin \in works
      PROVE  Typed' /\ AnswersWork'
  BY <1>2 DEF Typed, AnswersWork
<1>3. ASSUME UNCHANGED <<works, servers>>
      PROVE  /\ Alive' = Alive /\ AnswersWork'
             /\ Typed => \A q \in Alive' : servers'[q] \in Process
  BY <1>3 DEF Typed, AnswersWork, Alive, Listening
<1>4. ASSUME NEW u \in Updater, NEW q \in Labels, Goto(u, q),
             q \notin {"record", "recordOld"}
      PROVE  /\ pc' \in [Updater -> Labels]
             /\ loc' = loc \/ (\E l : loc' = [loc EXCEPT ![u] = l]) =>
                  \A v \in Updater : pc'[v] \in {"record", "recordOld"} => loc'[v].pid \in Pid
  BY <1>4 DEF Typed, Goto
<1>5. ASSUME NEW p \in Pid, Booted(p) \/ Hangs(p) \/ Drained(p) \/ Dies(p)
      PROVE  Typed' /\ AnswersWork'
  <2>1. UNCHANGED <<works, built, bin, prev, fresh, pidfile, pc, loc, cut>> /\ p \in Alive
    BY <1>5 DEF Booted, Hangs, Drained, Dies, disk
  <2>2. CASE servers' = Without({p})
    BY <2>1, <2>2, <1>2, Stopped DEF AnswersWork
  <2>3. CASE servers' # Without({p})
    <3>1. PICK x \in {"listening", "stuck"} :
            /\ servers[p].state = "booting"
            /\ x = "listening" => servers[p].bin \in works
            /\ servers' = [servers EXCEPT ![p].state = x]
      BY <1>5, <2>3 DEF Booted, Hangs, Drained, Dies
    <3>2. /\ Alive' = Alive /\ Listening' \subseteq Listening \cup {p}
          /\ p \in Listening' => x = "listening"
          /\ \A q \in Alive' : servers'[q] \in Process /\ servers'[q].bin = servers[q].bin
      BY <3>1, <2>1, CameUp
    <3>3. Listening \subseteq Alive
      BY DEF Listening
    <3> QED
      BY <2>1, <3>1, <3>2, <3>3, <1>2 DEF AnswersWork
  <2> QED
    BY <2>2, <2>3
<1>6. CASE ByHand
  <2>1. PICK p \in FreePid : Spawn(p, bin) /\ bin # Nil
    BY <1>6 DEF ByHand
  <2>2. UNCHANGED <<works, built, bin, prev, fresh, pidfile, pc, loc, cut>>
    BY <1>6 DEF ByHand, disk
  <2>3. Alive' \subseteq Pid /\ \A q \in Alive' : servers'[q] \in Process
    BY <2>1, Spawned DEF Typed
  <2>4. AnswersWork'
    BY <2>1, <2>2, Spawned DEF AnswersWork
  <2> QED
    BY <2>2, <2>3, <2>4 DEF Typed
<1>7. ASSUME NEW u \in Updater,
             Begin(u) \/ CheckLock(u) \/ RemoveStaleLock(u) \/ WriteLock(u) \/ Build(u)
      PROVE  Typed' /\ AnswersWork'
  <2>1. UNCHANGED <<works, bin, prev, pidfile, servers, loc, cut>>
    BY <1>7 DEF Begin, CheckLock, RemoveStaleLock, WriteLock, Build, disk
  <2>2. built' \in Nat /\ fresh' \in Nat \cup {Nil}
    BY <1>7 DEF Begin, CheckLock, RemoveStaleLock, WriteLock, Build, disk, Typed
  <2>3. \E q \in BeforeLock \cup {"build", "find", "exit"} : Goto(u, q)
    BY <1>7 DEF Begin, CheckLock, RemoveStaleLock, WriteLock, Build, BeforeLock
  <2>4. PICK q \in Labels \ {"record", "recordOld"} : Goto(u, q)
    BY <2>3 DEF Labels, BeforeLock
  <2> QED
    BY <2>1, <2>2, <2>4, <1>3, <1>4 DEF Typed
<1>8. ASSUME NEW u \in Updater, FindOld(u) \/ TermOld(u) \/ WaitOld(u)
      PROVE  Typed' /\ AnswersWork'
  <2>1. UNCHANGED <<works, built, bin, prev, fresh, pidfile, cut>>
    BY <1>8 DEF FindOld, TermOld, WaitOld, disk
  <2>2. PICK q \in Labels \ {"record", "recordOld"} : Goto(u, q)
    BY <1>8 DEF FindOld, TermOld, WaitOld, Labels
  <2>3. loc[u] \in [old : SUBSET Pid, pid : Pid \cup {Nil}]
    BY DEF Typed
  <2>4. /\ loc' = loc \/ (\E l : loc' = [loc EXCEPT ![u] = l])
        /\ loc' \in [Updater -> [old : SUBSET Pid, pid : Pid \cup {Nil}]]
    <3>1. CASE TermOld(u)
      BY <3>1 DEF TermOld, Typed
    <3>2. ASSUME NEW o \in SUBSET Pid, Set(u, [loc[u] EXCEPT !.old = o])
          PROVE  /\ \E l : loc' = [loc EXCEPT ![u] = l]
                 /\ loc' \in [Updater -> [old : SUBSET Pid, pid : Pid \cup {Nil}]]
      <4>1. [loc[u] EXCEPT !.old = o] \in [old : SUBSET Pid, pid : Pid \cup {Nil}]
        BY <2>3
      <4>2. loc' = [loc EXCEPT ![u] = [loc[u] EXCEPT !.old = o]]
        BY <3>2 DEF Set
      <4> QED
        BY <4>1, <4>2 DEF Typed
    <3>3. CASE FindOld(u)
      <4>1. (IF pidfile \in Alive THEN {pidfile} ELSE Alive) \in SUBSET Pid
        BY DEF Typed
      <4> QED
        BY <3>2, <3>3, <4>1 DEF FindOld
    <3>4. CASE WaitOld(u)
      BY <3>2, <3>4 DEF WaitOld
    <3> QED
      BY <1>8, <3>1, <3>3, <3>4
  <2>5. servers' = servers \/ \E ps : servers' = Terminated(ps) \/ servers' = Without(ps)
    BY <1>8 DEF FindOld, TermOld, WaitOld
  <2>6. Alive' \subseteq Pid /\ (\A p \in Alive' : servers'[p] \in Process) /\ AnswersWork'
    <3>1. CASE servers' = servers
      BY <2>1, <3>1, <1>3 DEF Typed
    <3>2. CASE servers' # servers
      <4>1. PICK ps : servers' = Terminated(ps) \/ servers' = Without(ps)
        BY <2>5, <3>2
      <4> QED
        BY <2>1, <4>1, Stopped DEF Typed, AnswersWork
    <3> QED
      BY <3>1, <3>2
  <2> QED
    BY <2>1, <2>2, <2>4, <2>6, <1>4 DEF Typed
<1>9. ASSUME NEW u \in Updater,
             KeepPrevious(u) \/ Install(u) \/ PutAway(u) \/ Restore(u)
      PROVE  Typed' /\ AnswersWork'
  <2>1. UNCHANGED <<works, built, pidfile, servers, loc, cut>>
    BY <1>9 DEF KeepPrevious, Install, PutAway, Restore
  <2>2. bin' \in Nat \cup {Nil} /\ prev' \in Nat \cup {Nil} /\ fresh' \in Nat \cup {Nil}
    BY <1>9 DEF KeepPrevious, Install, PutAway, Restore, Typed
  <2>3. PICK q \in Labels \ {"record", "recordOld"} : Goto(u, q)
    BY <1>9 DEF KeepPrevious, Install, PutAway, Restore, Labels
  <2> QED
    BY <2>1, <2>2, <2>3, <1>3, <1>4 DEF Typed
<1>10. ASSUME NEW u \in Updater, StartNew(u) \/ RestartOld(u)
       PROVE  Typed' /\ AnswersWork'
  <2>1. UNCHANGED <<works, built, bin, prev, fresh, pidfile, cut>> /\ bin # Nil
    BY <1>10 DEF StartNew, RestartOld, disk
  <2>2. PICK q \in {"record", "recordOld"} : Goto(u, q)
    BY <1>10 DEF StartNew, RestartOld
  <2>3. PICK p \in FreePid : Spawn(p, bin) /\ Set(u, [loc[u] EXCEPT !.pid = p])
    BY <1>10 DEF StartNew, RestartOld
  <2>4. /\ Alive' \subseteq Pid /\ (\A r \in Alive' : servers'[r] \in Process) /\ p \in Pid
        /\ AnswersWork'
    BY <2>1, <2>3, Spawned DEF Typed, AnswersWork
  <2>5. loc[u] \in [old : SUBSET Pid, pid : Pid \cup {Nil}]
    BY DEF Typed
  <2>6. PICK l : l = [loc[u] EXCEPT !.pid = p]
    OBVIOUS
  <2>7. l \in [old : SUBSET Pid, pid : Pid \cup {Nil}] /\ l.pid = p
    BY <2>4, <2>5, <2>6
  <2>8. loc' = [loc EXCEPT ![u] = l] /\ pc' = [pc EXCEPT ![u] = q]
    BY <2>2, <2>3, <2>6 DEF Set, Goto
  <2>9. pc' \in [Updater -> Labels]
    BY <2>2, <2>8 DEF Typed, Labels
  <2>10. loc' \in [Updater -> [old : SUBSET Pid, pid : Pid \cup {Nil}]]
    BY <2>7, <2>8 DEF Typed
  <2>11. \A v \in Updater : pc'[v] \in {"record", "recordOld"} => loc'[v].pid \in Pid
    BY <2>4, <2>7, <2>8 DEF Typed
  <2> QED
    BY <2>1, <2>4, <2>9, <2>10, <2>11 DEF Typed
<1>11. ASSUME NEW u \in Updater, RecordNew(u) \/ RecordOld(u)
       PROVE  Typed' /\ AnswersWork'
  <2>1. UNCHANGED <<works, built, bin, prev, fresh, servers, loc, cut>>
    BY <1>11 DEF RecordNew, RecordOld, disk
  <2>2. pidfile' \in Pid
    BY <1>11 DEF RecordNew, RecordOld, Typed
  <2>3. PICK q \in Labels \ {"record", "recordOld"} : Goto(u, q)
    BY <1>11 DEF RecordNew, RecordOld, Labels
  <2> QED
    BY <2>1, <2>2, <2>3, <1>3, <1>4 DEF Typed
<1>12. ASSUME NEW u \in Updater, ProbeAlive(u) \/ ProbeHealth(u) \/ GiveUp(u)
       PROVE  Typed' /\ AnswersWork'
  <2>1. UNCHANGED <<works, built, bin, prev, fresh, pidfile, servers, loc, cut>>
    BY <1>12 DEF ProbeAlive, ProbeHealth, GiveUp, disk
  <2>2. PICK q \in Labels \ {"record", "recordOld"} : Goto(u, q)
    BY <1>12 DEF ProbeAlive, ProbeHealth, GiveUp, Labels
  <2> QED
    BY <2>1, <2>2, <1>3, <1>4 DEF Typed
<1>13. ASSUME NEW u \in Updater, StopNew(u)
       PROVE  Typed' /\ AnswersWork'
  <2>1. UNCHANGED <<works, built, bin, prev, fresh, pidfile, loc, cut>>
    BY <1>13 DEF StopNew, disk
  <2>2. PICK q \in Labels \ {"record", "recordOld"} : Goto(u, q)
    BY <1>13 DEF StopNew, Labels
  <2>3. servers' = Terminated({loc[u].pid})
    BY <1>13 DEF StopNew
  <2>4. Alive' \subseteq Pid /\ (\A p \in Alive' : servers'[p] \in Process) /\ AnswersWork'
    BY <2>1, <2>3, Stopped DEF Typed, AnswersWork
  <2> QED
    BY <2>1, <2>2, <2>4, <1>4 DEF Typed
<1>14. ASSUME NEW u \in Updater, Exit(u) \/ Kill(u)
       PROVE  Typed' /\ AnswersWork'
  <2>1. UNCHANGED <<works, built, bin, prev, fresh, pidfile, servers>> /\ cut' \in BOOLEAN
    BY <1>14 DEF Exit, Kill, disk, Typed
  <2>2. Goto(u, "idle") /\ "idle" \in Labels
    BY <1>14 DEF Exit, Kill, Labels, BeforeLock
  <2>3. loc' = [loc EXCEPT ![u] = Blank]
    BY <1>14 DEF Exit, Kill, Set
  <2>4. loc' \in [Updater -> [old : SUBSET Pid, pid : Pid \cup {Nil}]]
    BY <2>3 DEF Typed, Blank
  <2> QED
    BY <2>1, <2>2, <2>3, <2>4, <1>3, <1>4 DEF Typed
<1> QED
  BY <1>1, <1>5, <1>6, <1>7, <1>8, <1>9, <1>10, <1>11, <1>12, <1>13, <1>14 DEF Next, Script

(***************************************************************************)
(* Where the binaries and the servers are.                                 *)
(***************************************************************************)
(* Servers that stop, or come up, take nothing away.                        *)
LEMMA Shrunk ==
    ASSUME NEW p, NEW l, NEW b, NEW f, NEW s, NEW t, ServersAt(p, l, b, f, s),
           DOMAIN t \subseteq DOMAIN s, Active(t) \subseteq Active(s),
           \A q \in DOMAIN t : t[q].bin = s[q].bin
    PROVE  ServersAt(p, l, b, f, t)
<1>1. Active(t) \subseteq DOMAIN t
  BY DEF Active
<1> QED
  BY <1>1 DEF ServersAt

(* Between updates no more is asked than within one, but for the points    *)
(* that are Delicate.                                                      *)
LEMMA Rests ==
    ASSUME NEW p \in Labels, NEW l, NEW m, NEW b, NEW v, NEW w, NEW f, NEW s,
           p \notin Delicate, w \subseteq Nat, GoodAt(p, b, v, w), ServersAt(p, l, b, f, s)
    PROVE  GoodAt("idle", b, v, w) /\ ServersAt("idle", m, b, f, s)
<1>1. Nil \notin w
  BY UpdateAssumption
<1>2. GoodAt("idle", b, v, w)
  BY <1>1 DEF GoodAt, Labels, BeforeLock, Delicate
<1>3. ServersAt("idle", m, b, f, s)
  BY DEF ServersAt, Delicate
<1> QED
  BY <1>2, <1>3

(* A step of the updater past the lock is a matter of its own phase.        *)
LEMMA OwnStep ==
    ASSUME Typed, LockInv, NEW u \in Updater, Past(u), NEW q, Goto(u, q),
           GoodAt(IF q \in BeforeLock THEN "idle" ELSE q, bin', prev', works'),
           ServersAt(IF q \in BeforeLock THEN "idle" ELSE q,
                     IF q \in BeforeLock THEN Blank ELSE loc'[u], bin', pidfile', servers')
    PROVE  Sound'
<1>1. pc'[u] = q /\ \A v \in Updater \ {u} : pc'[v] = pc[v]
  BY DEF Goto, Typed
<1>2. \A v \in Updater \ {u} : pc'[v] \in BeforeLock
  BY <1>1, Alone DEF Past
<1>3. CASE q \in BeforeLock
  BY <1>1, <1>2, <1>3 DEF Sound, Past, Phase
<1>4. CASE q \notin BeforeLock
  BY <1>1, <1>2, <1>4 DEF Sound, Past, Phase
<1> QED
  BY <1>3, <1>4

(* A step of an updater that is not past the lock disturbs nobody.          *)
LEMMA OthersStep ==
    ASSUME Typed, Sound, NEW u \in Updater, ~Past(u), NEW q \in BeforeLock, Goto(u, q),
           UNCHANGED <<works, bin, prev, pidfile, servers>>,
           loc' = loc \/ Set(u, Blank)
    PROVE  Sound'
<1>1. pc'[u] = q /\ \A v \in Updater \ {u} : pc'[v] = pc[v]
  BY DEF Goto, Typed
<1>2. \A v \in Updater \ {u} : loc'[v] = loc[v]
  BY DEF Set, Typed
<1>3. \A v \in Updater : Past(v)' <=> Past(v)
  BY <1>1 DEF Past
<1>4. \A v \in Updater : Past(v) => v # u
  OBVIOUS
<1>5. \A v \in Updater : Past(v)' => Phase(pc[v], loc[v])
  BY <1>3 DEF Sound
<1>6. (\A v \in Updater : ~Past(v)') => Phase("idle", Blank)
  BY <1>3 DEF Sound
<1> QED
  BY <1>1, <1>2, <1>3, <1>4, <1>5, <1>6 DEF Sound, Phase

(* Servers come up, drain and die in any phase.                             *)
LEMMA ServerStep ==
    ASSUME Typed, Sound, NEW p \in Pid, Booted(p) \/ Hangs(p) \/ Drained(p) \/ Dies(p)
    PROVE  Sound'
<1>1. UNCHANGED <<works, bin, prev, pidfile, pc, loc>> /\ p \in Alive
  BY DEF Booted, Hangs, Drained, Dies, disk
<1>2. /\ Alive' \subseteq Alive /\ Active(servers') \subseteq Active(servers)
      /\ \A q \in Alive' : servers'[q].bin = servers[q].bin
  <2>1. CASE servers' = Without({p})
    BY <2>1, Stopped
  <2>2. CASE servers' # Without({p})
    <3>1. PICK x \in {"listening", "stuck"} :
            /\ servers[p].state = "booting"
            /\ servers' = [servers EXCEPT ![p].state = x]
      BY <2>2 DEF Booted, Hangs, Drained, Dies
    <3> QED
      BY <1>1, <3>1, CameUp
  <2> QED
    BY <2>1, <2>2
<1>3. ASSUME NEW q, NEW l, Phase(q, l)
      PROVE  GoodAt(q, bin, prev, works) /\ ServersAt(q, l, bin, pidfile, servers')
  BY <1>2, <1>3, Shrunk DEF Phase, Alive
<1>4. \A u \in Updater : Past(u) => /\ GoodAt(pc[u], bin, prev, works)
                                    /\ ServersAt(pc[u], loc[u], bin, pidfile, servers')
  BY <1>3 DEF Sound
<1>5. (\A u \in Updater : ~Past(u)) => /\ GoodAt("idle", bin, prev, works)
                                       /\ ServersAt("idle", Blank, bin, pidfile, servers')
  BY <1>3 DEF Sound
<1> QED
  BY <1>1, <1>4, <1>5 DEF Sound, Phase, Past

(* The operator starts the installed binary when nothing runs.              *)
LEMMA HandStep ==
    ASSUME Typed, Sound, ByHand
    PROVE  Sound'
<1>1. UNCHANGED <<works, bin, prev, pidfile, pc, loc>> /\ Alive = {}
  BY DEF ByHand, disk
<1>2. PICK p \in FreePid : Spawn(p, bin) /\ bin # Nil
  BY DEF ByHand
<1>3. \A u \in Updater : ~Past(u) /\ ~Past(u)'
  BY <1>1 DEF ByHand, Running, Past, BeforeLock
<1>4. GoodAt("idle", bin, prev, works)
  BY <1>3 DEF Sound, Phase
<1>5. pidfile \notin Alive'
  BY <1>1, <1>2, Spawned
<1>6. ServersAt("idle", Blank, bin, pidfile, servers')
  BY <1>5 DEF ServersAt, Alive
<1> QED
  BY <1>1, <1>3, <1>4, <1>6 DEF Sound, Phase

(* Before the lock an updater changes nothing that matters; the first       *)
(* phase past it asks for what holds between updates.                       *)
LEMMA LockStep ==
    ASSUME Typed, LockInv, LockInv', Sound, NEW u \in Updater,
           Begin(u) \/ CheckLock(u) \/ RemoveStaleLock(u) \/ WriteLock(u)
    PROVE  Sound'
<1>1. UNCHANGED <<works, bin, prev, pidfile, servers, loc>> /\ ~Past(u)
  BY DEF Begin, CheckLock, RemoveStaleLock, WriteLock, disk, Past, BeforeLock
<1>2. CASE ~WriteLock(u)
  <2>1. PICK q \in BeforeLock : Goto(u, q)
    BY <1>2 DEF Begin, CheckLock, RemoveStaleLock, BeforeLock
  <2> QED
    BY <1>1, <2>1, OthersStep
<1>3. CASE WriteLock(u)
  <2>1. pc[u] = "lock" /\ Goto(u, "build")
    BY <1>3 DEF WriteLock
  <2>2. pc'[u] = "build" /\ \A v \in Updater \ {u} : pc'[v] = pc[v]
    BY <2>1 DEF Goto, Typed
  <2>3. \A v \in Updater : ~Past(v)
    BY <2>1, UpdateAssumption DEF LockInv
  <2>4. GoodAt("idle", bin, prev, works) /\ ServersAt("idle", Blank, bin, pidfile, servers)
    BY <2>3 DEF Sound, Phase
  <2>5. GoodAt("build", bin, prev, works)
    BY <2>4 DEF GoodAt, BeforeLock
  <2>6. \A l : ServersAt("build", l, bin, pidfile, servers)
    BY <2>4 DEF ServersAt
  <2>7. \A v \in Updater : Past(v)' => v = u
    BY <2>2, <2>3 DEF Past
  <2>8. Past(u)'
    BY <2>2 DEF Past, BeforeLock
  <2> QED
    BY <1>1, <2>2, <2>5, <2>6, <2>7, <2>8 DEF Sound, Phase
<1> QED
  BY <1>2, <1>3

(* Wherever an updater is killed, what holds between updates holds, unless  *)
(* the point is Delicate.                                                   *)
LEMMA KillStep ==
    ASSUME Typed, LockInv, Sound, NEW u \in Updater, Kill(u), ~cut'
    PROVE  Sound'
<1>1. /\ UNCHANGED <<works, bin, prev, pidfile, servers>>
      /\ Goto(u, "idle") /\ Set(u, Blank) /\ pc[u] \notin Delicate
  BY DEF Kill, disk
<1>2. CASE ~Past(u)
  BY <1>1, <1>2, OthersStep DEF BeforeLock
<1>3. CASE Past(u)
  <2>1. GoodAt(pc[u], bin, prev, works) /\ ServersAt(pc[u], loc[u], bin, pidfile, servers)
    BY <1>3 DEF Sound, Phase
  <2>2. pc[u] \in Labels /\ works \subseteq Nat
    BY DEF Typed
  <2>3. GoodAt("idle", bin, prev, works) /\ ServersAt("idle", Blank, bin, pidfile, servers)
    BY <1>1, <2>1, <2>2, Rests
  <2> QED
    BY <1>1, <1>3, <2>3, OwnStep DEF BeforeLock
<1> QED
  BY <1>2, <1>3

(* From the build to the new binary in its place.                           *)
LEMMA InstallStep ==
    ASSUME Typed, LockInv, Sound, NEW u \in Updater,
           \/ Build(u) \/ FindOld(u) \/ TermOld(u) \/ WaitOld(u)
           \/ KeepPrevious(u) \/ Install(u)
    PROVE  Sound'
<1>1. /\ pc[u] \in {"build", "find", "term", "wait", "keep", "install"}
      /\ UNCHANGED <<works, pidfile>>
  BY DEF Build, FindOld, TermOld, WaitOld, KeepPrevious, Install
<1>2. Past(u)
  BY <1>1 DEF Past, BeforeLock
<1>3. GoodAt(pc[u], bin, prev, works) /\ ServersAt(pc[u], loc[u], bin, pidfile, servers)
  BY <1>2 DEF Sound, Phase
<1>4. Nil \notin works
  BY UpdateAssumption DEF Typed
<1>5. CASE Build(u)
  <2>1. UNCHANGED <<works, bin, prev, pidfile, servers, loc>> /\ pc[u] = "build"
    BY <1>5 DEF Build
  <2>2. PICK q \in {"find", "exit"} : Goto(u, q)
    BY <1>5 DEF Build
  <2>3. GoodAt(q, bin', prev', works') /\ ServersAt(q, loc'[u], bin', pidfile', servers')
    BY <1>3, <2>1, <2>2 DEF GoodAt, ServersAt, BeforeLock
  <2> QED
    BY <1>2, <2>2, <2>3, OwnStep DEF BeforeLock
<1>6. CASE FindOld(u)
  <2>1. UNCHANGED <<works, bin, prev, pidfile, servers>> /\ pc[u] = "find" /\ Goto(u, "term")
    BY <1>6 DEF FindOld, disk
  <2>2. loc'[u].old = IF pidfile \in Alive THEN {pidfile} ELSE Alive
    <3>1. PICK o : o = IF pidfile \in Alive THEN {pidfile} ELSE Alive
      OBVIOUS
    <3>2. loc' = [loc EXCEPT ![u] = [loc[u] EXCEPT !.old = o]]
      BY <1>6, <3>1 DEF FindOld, Set
    <3>3. loc[u] \in [old : SUBSET Pid, pid : Pid \cup {Nil}]
      BY DEF Typed
    <3> QED
      BY <3>1, <3>2, <3>3 DEF Typed
  <2>3. GoodAt("term", bin', prev', works')
    BY <1>3, <2>1 DEF GoodAt, BeforeLock
  <2>4. ServersAt("term", loc'[u], bin', pidfile', servers')
    <3>1. pidfile \in Alive => Active(servers) \subseteq {pidfile}
      BY <1>3, <2>1 DEF ServersAt, Alive
    <3>2. Active(servers) \cup ({pidfile} \cap Alive) \subseteq loc'[u].old
      BY <2>2, <3>1 DEF Active, Alive
    <3> QED
      BY <2>1, <3>1, <3>2, <1>1 DEF ServersAt, Alive
  <2> QED
    BY <1>2, <2>1, <2>3, <2>4, OwnStep DEF BeforeLock
<1>7. CASE TermOld(u)
  <2>1. /\ UNCHANGED <<works, bin, prev, pidfile, loc>> /\ pc[u] = "term" /\ Goto(u, "wait")
        /\ servers' = Terminated(loc[u].old)
    BY <1>7 DEF TermOld, disk
  <2>2. GoodAt("wait", bin', prev', works')
    BY <1>3, <2>1 DEF GoodAt, BeforeLock
  <2>3. ServersAt("wait", loc[u], bin, pidfile, servers)
    BY <1>3, <2>1 DEF ServersAt
  <2>4. /\ Alive' \subseteq Alive /\ Active(servers') \subseteq Active(servers)
        /\ \A q \in Alive' : servers'[q].bin = servers[q].bin
    BY <2>1, Stopped
  <2>5. ServersAt("wait", loc[u], bin, pidfile, servers')
    BY <2>3, <2>4, Shrunk DEF Alive
  <2> QED
    BY <1>2, <2>1, <2>2, <2>5, OwnStep DEF BeforeLock
<1>8. CASE WaitOld(u)
  <2>1. /\ UNCHANGED <<works, bin, prev, pidfile>> /\ pc[u] = "wait" /\ Goto(u, "keep")
        /\ servers' = Without(loc[u].old)
    BY <1>8 DEF WaitOld, disk
  <2>2. GoodAt("keep", bin', prev', works')
    BY <1>3, <2>1 DEF GoodAt, BeforeLock
  <2>3. Active(servers) \cup ({pidfile} \cap Alive) \subseteq loc[u].old
    BY <1>3, <2>1 DEF ServersAt, Alive
  <2>4. Active(servers') = {} /\ pidfile \notin Alive'
    BY <2>1, <2>3, Stopped
  <2>5. ServersAt("keep", loc'[u], bin', pidfile', servers')
    BY <2>1, <2>4 DEF ServersAt, Alive
  <2> QED
    BY <1>2, <2>1, <2>2, <2>5, OwnStep DEF BeforeLock
<1>9. CASE KeepPrevious(u)
  <2>1. /\ UNCHANGED <<works, pidfile, servers, loc>> /\ pc[u] = "keep" /\ Goto(u, "install")
        /\ bin' = Nil /\ prev' = IF bin # Nil THEN bin ELSE prev
    BY <1>9 DEF KeepPrevious
  <2>2. GoodAt("install", bin', prev', works')
    BY <1>3, <2>1 DEF GoodAt, BeforeLock
  <2>3. ServersAt("install", loc'[u], bin', pidfile', servers')
    BY <1>3, <2>1 DEF ServersAt
  <2> QED
    BY <1>2, <2>1, <2>2, <2>3, OwnStep DEF BeforeLock
<1>10. CASE Install(u)
  <2>1. /\ UNCHANGED <<works, prev, pidfile, servers, loc>> /\ pc[u] = "install"
        /\ \/ Goto(u, "exit") /\ bin' = bin
           \/ Goto(u, "start")
    BY <1>10 DEF Install
  <2>2. bin = Nil /\ prev \in works
    BY <1>3, <2>1 DEF GoodAt
  <2>3. CASE Goto(u, "exit") /\ bin' = bin
    <3>1. GoodAt("exit", bin', prev', works') /\ ServersAt("exit", loc'[u], bin', pidfile', servers')
      BY <1>3, <2>1, <2>2, <2>3 DEF GoodAt, ServersAt, BeforeLock
    <3> QED
      BY <1>2, <2>3, <3>1, OwnStep DEF BeforeLock
  <2>4. CASE Goto(u, "start")
    <3>1. GoodAt("start", bin', prev', works') /\ ServersAt("start", loc'[u], bin', pidfile', servers')
      BY <1>3, <2>1, <2>2, <2>4 DEF GoodAt, ServersAt, BeforeLock
    <3> QED
      BY <1>2, <2>4, <3>1, OwnStep DEF BeforeLock
  <2> QED
    BY <2>1, <2>3, <2>4
<1> QED
  BY <1>5, <1>6, <1>7, <1>8, <1>9, <1>10

(* The variables of an updater that has started a server.                   *)
LEMMA StartedBy ==
    ASSUME Typed, NEW u \in Updater, NEW p, Set(u, [loc[u] EXCEPT !.pid = p])
    PROVE  loc'[u].pid = p
<1>1. loc[u] \in [old : SUBSET Pid, pid : Pid \cup {Nil}]
  BY DEF Typed
<1>2. PICK l : l = [loc[u] EXCEPT !.pid = p]
  OBVIOUS
<1>3. l.pid = p
  BY <1>1, <1>2
<1> QED
  BY <1>2, <1>3 DEF Set, Typed

(* From the start of the new server to the verdict on it.                   *)
LEMMA StartStep ==
    ASSUME Typed, LockInv, AnswersWork, Sound, NEW u \in Updater,
           \/ StartNew(u) \/ RecordNew(u) \/ ProbeAlive(u) \/ ProbeHealth(u) \/ GiveUp(u)
    PROVE  Sound'
<1>1. pc[u] \in {"start", "record", "alive", "curl"} /\ UNCHANGED <<works, bin, prev>>
  BY DEF StartNew, RecordNew, ProbeAlive, ProbeHealth, GiveUp, disk
<1>2. Past(u)
  BY <1>1 DEF Past, BeforeLock
<1>3. GoodAt(pc[u], bin, prev, works) /\ ServersAt(pc[u], loc[u], bin, pidfile, servers)
  BY <1>2 DEF Sound, Phase
<1>4. prev \in works /\ Nil \notin works
  BY <1>1, <1>3, UpdateAssumption DEF GoodAt, Typed
<1>5. CASE StartNew(u)
  <2>1. pc[u] = "start" /\ Goto(u, "record") /\ pidfile' = pidfile /\ bin # Nil
    BY <1>5 DEF StartNew
  <2>2. PICK p \in FreePid : Spawn(p, bin) /\ Set(u, [loc[u] EXCEPT !.pid = p])
    BY <1>5 DEF StartNew
  <2>3. Active(servers) = {} /\ pidfile \notin Alive
    BY <1>3, <2>1 DEF ServersAt, Alive
  <2>4. /\ Active(servers') = {p} /\ pidfile \notin Alive' /\ servers'[p].bin = bin
    BY <2>1, <2>2, <2>3, Spawned
  <2>5. loc'[u].pid = p
    BY <2>2, StartedBy
  <2>6. GoodAt("record", bin', prev', works')
    BY <1>1, <1>4 DEF GoodAt, BeforeLock
  <2>7. ServersAt("record", loc'[u], bin', pidfile', servers')
    BY <1>1, <2>1, <2>4, <2>5 DEF ServersAt, Alive
  <2> QED
    BY <1>2, <2>1, <2>6, <2>7, OwnStep DEF BeforeLock
<1>6. CASE RecordNew(u)
  <2>1. /\ pc[u] = "record" /\ Goto(u, "alive") /\ pidfile' = loc[u].pid
        /\ UNCHANGED <<servers, loc>>
    BY <1>6 DEF RecordNew
  <2>2. GoodAt("alive", bin', prev', works')
    BY <1>1, <1>4 DEF GoodAt, BeforeLock
  <2>3. ServersAt("alive", loc'[u], bin', pidfile', servers')
    BY <1>1, <1>3, <2>1 DEF ServersAt
  <2> QED
    BY <1>2, <2>1, <2>2, <2>3, OwnStep DEF BeforeLock
<1>7. CASE ProbeAlive(u) \/ ProbeHealth(u) \/ GiveUp(u)
  <2>1. UNCHANGED <<pidfile, servers, loc>> /\ pc[u] \in {"alive", "curl"}
    BY <1>7 DEF ProbeAlive, ProbeHealth, GiveUp
  <2>2. PICK q \in {"alive", "curl", "undo", "exit"} :
           Goto(u, q) /\ (q = "exit" => Listening # {} /\ pc[u] = "curl")
    BY <1>7 DEF ProbeAlive, ProbeHealth, GiveUp
  <2>3. q = "exit" => bin \in works
    <3> HAVE q = "exit"
    <3>1. PICK s \in Listening : TRUE
      BY <2>2
    <3>2. s \in Active(servers) /\ servers[s].bin \in works
      BY <3>1 DEF Listening, Active, Alive, AnswersWork
    <3> QED
      BY <2>2, <3>2, <1>3 DEF ServersAt
  <2>4. GoodAt(q, bin', prev', works')
    BY <1>1, <1>4, <2>2, <2>3 DEF GoodAt, BeforeLock
  <2>5. ServersAt(q, loc'[u], bin', pidfile', servers')
    BY <1>1, <1>3, <2>1, <2>2 DEF ServersAt
  <2> QED
    BY <1>2, <2>2, <2>4, <2>5, OwnStep DEF BeforeLock
<1> QED
  BY <1>5, <1>6, <1>7

(* The roll back.                                                           *)
LEMMA UndoStep ==
    ASSUME Typed, LockInv, Sound, NEW u \in Updater,
           \/ StopNew(u) \/ PutAway(u) \/ Restore(u) \/ RestartOld(u) \/ RecordOld(u)
           \/ Exit(u)
    PROVE  Sound'
<1>1. /\ pc[u] \in {"undo", "putAway", "restore", "restart", "recordOld", "exit"}
      /\ works' = works
  BY DEF StopNew, PutAway, Restore, RestartOld, RecordOld, Exit
<1>2. Past(u)
  BY <1>1 DEF Past, BeforeLock
<1>3. GoodAt(pc[u], bin, prev, works) /\ ServersAt(pc[u], loc[u], bin, pidfile, servers)
  BY <1>2 DEF Sound, Phase
<1>4. Nil \notin works
  BY UpdateAssumption DEF Typed
<1>5. CASE StopNew(u)
  <2>1. /\ pc[u] = "undo" /\ UNCHANGED <<bin, prev, pidfile, loc>>
        /\ servers' = Terminated({loc[u].pid})
        /\ Goto(u, IF prev # Nil THEN "putAway" ELSE "exit")
    BY <1>5 DEF StopNew, disk
  <2>2. prev \in works
    BY <1>3, <2>1 DEF GoodAt
  <2>3. Goto(u, "putAway")
    BY <1>4, <2>1, <2>2
  <2>4. Active(servers) \subseteq {loc[u].pid}
    BY <1>3, <2>1 DEF ServersAt
  <2>5. Active(servers') = {}
    BY <2>1, <2>4, Stopped
  <2>6. GoodAt("putAway", bin', prev', works')
    BY <1>1, <2>1, <2>2 DEF GoodAt, BeforeLock
  <2>7. ServersAt("putAway", loc'[u], bin', pidfile', servers')
    BY <2>5 DEF ServersAt
  <2> QED
    BY <1>2, <2>3, <2>6, <2>7, OwnStep DEF BeforeLock
<1>6. CASE PutAway(u)
  <2>1. /\ pc[u] = "putAway" /\ UNCHANGED <<prev, pidfile, servers, loc>> /\ bin' = Nil
        /\ Goto(u, IF bin # Nil THEN "restore" ELSE "exit")
    BY <1>6 DEF PutAway
  <2>2. PICK q \in {"restore", "exit"} : Goto(u, q)
    BY <2>1
  <2>3. prev \in works
    BY <1>3, <2>1 DEF GoodAt
  <2>4. GoodAt(q, bin', prev', works')
    BY <1>1, <2>1, <2>2, <2>3 DEF GoodAt, BeforeLock
  <2>5. ServersAt(q, loc'[u], bin', pidfile', servers')
    BY <1>3, <2>1, <2>2 DEF ServersAt
  <2> QED
    BY <1>2, <2>2, <2>4, <2>5, OwnStep DEF BeforeLock
<1>7. CASE Restore(u)
  <2>1. /\ pc[u] = "restore" /\ UNCHANGED <<pidfile, servers, loc>> /\ bin' = prev
        /\ Goto(u, IF prev # Nil THEN "restart" ELSE "exit")
    BY <1>7 DEF Restore
  <2>2. prev \in works
    BY <1>3, <2>1 DEF GoodAt
  <2>3. Goto(u, "restart")
    BY <1>4, <2>1, <2>2
  <2>4. GoodAt("restart", bin', prev', works')
    BY <1>1, <2>1, <2>2 DEF GoodAt, BeforeLock
  <2>5. ServersAt("restart", loc'[u], bin', pidfile', servers')
    BY <1>3, <2>1 DEF ServersAt
  <2> QED
    BY <1>2, <2>3, <2>4, <2>5, OwnStep DEF BeforeLock
<1>8. CASE RestartOld(u)
  <2>1. /\ pc[u] = "restart" /\ Goto(u, "recordOld") /\ bin # Nil
        /\ UNCHANGED <<bin, prev, pidfile>>
    BY <1>8 DEF RestartOld, disk
  <2>2. PICK p \in FreePid : Spawn(p, bin) /\ Set(u, [loc[u] EXCEPT !.pid = p])
    BY <1>8 DEF RestartOld
  <2>3. Active(servers) = {}
    BY <1>3, <2>1 DEF ServersAt
  <2>4. Active(servers') = {p}
    BY <2>1, <2>2, <2>3, Spawned
  <2>5. loc'[u].pid = p
    BY <2>2, StartedBy
  <2>6. GoodAt("recordOld", bin', prev', works')
    BY <1>1, <1>3, <2>1 DEF GoodAt, BeforeLock
  <2>7. ServersAt("recordOld", loc'[u], bin', pidfile', servers')
    BY <2>4, <2>5 DEF ServersAt
  <2> QED
    BY <1>2, <2>1, <2>6, <2>7, OwnStep DEF BeforeLock
<1>9. CASE RecordOld(u)
  <2>1. /\ pc[u] = "recordOld" /\ Goto(u, "exit") /\ pidfile' = loc[u].pid
        /\ UNCHANGED <<bin, prev, servers, loc>>
    BY <1>9 DEF RecordOld, disk
  <2>2. GoodAt("exit", bin', prev', works')
    BY <1>1, <1>3, <1>4, <2>1 DEF GoodAt, BeforeLock
  <2>3. ServersAt("exit", loc'[u], bin', pidfile', servers')
    BY <1>3, <2>1 DEF ServersAt
  <2> QED
    BY <1>2, <2>1, <2>2, <2>3, OwnStep DEF BeforeLock
<1>10. CASE Exit(u)
  <2>1. pc[u] = "exit" /\ Goto(u, "idle") /\ UNCHANGED <<bin, prev, pidfile, servers>>
    BY <1>10 DEF Exit, disk
  <2>2. GoodAt("idle", bin', prev', works')
    BY <1>1, <1>3, <2>1 DEF GoodAt, BeforeLock
  <2>3. ServersAt("idle", Blank, bin', pidfile', servers')
    BY <1>3, <2>1 DEF ServersAt
  <2> QED
    BY <1>2, <2>1, <2>2, <2>3, OwnStep DEF BeforeLock
<1> QED
  BY <1>5, <1>6, <1>7, <1>8, <1>9, <1>10

(***************************************************************************)
(* The theorems.                                                           *)
(***************************************************************************)
(* The operator finds the installed binary up, and recorded.                *)
LEMMA InitInv == Init => UpdateInv
<1> SUFFICES ASSUME Init PROVE UpdateInv
  OBVIOUS
<1>1. /\ works \subseteq Nat /\ 0 \in works /\ bin = 0 /\ prev = Nil /\ fresh = Nil
      /\ built = 0 /\ lock = Nil /\ cut = FALSE
      /\ pc = [u \in Updater |-> "idle"] /\ loc = [u \in Updater |-> Blank]
  BY UpdateAssumption DEF Init
<1>2. /\ pidfile \in Pid /\ Alive = {pidfile}
      /\ servers[pidfile] = [bin |-> 0, state |-> "listening"]
  BY DEF Init, Alive
<1>3. Typed
  <2>1. "idle" \in Labels
    BY DEF Labels, BeforeLock
  <2>2. Blank \in [old : SUBSET Pid, pid : Pid \cup {Nil}]
    BY DEF Blank
  <2>3. \A p \in Alive : servers[p] \in Process
    BY <1>2 DEF Process
  <2> QED
    BY <1>1, <1>2, <2>1, <2>2, <2>3 DEF Typed
<1>4. LockInv
  BY <1>1 DEF LockInv, Past, BeforeLock
<1>5. AnswersWork
  BY <1>1, <1>2 DEF AnswersWork, Listening
<1>6. GoodAt("idle", bin, prev, works)
  BY <1>1, UpdateAssumption DEF GoodAt, BeforeLock
<1>7. Active(servers) \subseteq {pidfile}
  BY <1>2 DEF Active, Alive
<1>8. ServersAt("idle", Blank, bin, pidfile, servers)
  BY <1>7 DEF ServersAt
<1>9. Sound
  BY <1>1, <1>6, <1>8 DEF Sound, Phase, Past, BeforeLock
<1> QED
  BY <1>3, <1>4, <1>5, <1>9 DEF UpdateInv

(* A step from which no two updaters stand at the lock keeps the invariant. *)
LEMMA StepInv == UpdateInv /\ OneAtTheLock /\ OneAtTheLock' /\ [Next]_vars => UpdateInv'
<1> SUFFICES ASSUME UpdateInv, OneAtTheLock, OneAtTheLock', [Next]_vars
             PROVE  UpdateInv'
  OBVIOUS
<1>1. Typed /\ LockInv /\ AnswersWork
  BY DEF UpdateInv
<1>2. Typed' /\ AnswersWork' /\ LockInv'
  BY <1>1, TypesKept, LockKept
<1>3. ASSUME ~cut' PROVE Sound'
  <2>1. ~cut
    BY <1>3, <1>1 DEF Next, vars, disk, Typed, Begin, Script, CheckLock, RemoveStaleLock,
       WriteLock, Build, FindOld, TermOld, WaitOld, KeepPrevious, Install, StartNew,
       RecordNew, ProbeAlive, ProbeHealth, GiveUp, StopNew, PutAway, Restore, RestartOld,
       RecordOld, Exit, Kill, Booted, Hangs, Drained, Dies, ByHand
  <2>2. Sound
    BY <2>1 DEF UpdateInv
  <2>3. CASE UNCHANGED vars
    BY <2>2, <2>3 DEF vars, Sound, Past, Phase
  <2>4. ASSUME NEW u \in Updater, Begin(u) \/ Script(u) \/ Kill(u)
        PROVE  Sound'
    <3>1. CASE Begin(u) \/ CheckLock(u) \/ RemoveStaleLock(u) \/ WriteLock(u)
      BY <3>1, <1>1, <1>2, <2>2, LockStep
    <3>2. CASE \/ Build(u) \/ FindOld(u) \/ TermOld(u) \/ WaitOld(u)
               \/ KeepPrevious(u) \/ Install(u)
      BY <3>2, <1>1, <2>2, InstallStep
    <3>3. CASE \/ StartNew(u) \/ RecordNew(u) \/ ProbeAlive(u) \/ ProbeHealth(u)
               \/ GiveUp(u)
      BY <3>3, <1>1, <2>2, StartStep
    <3>4. CASE \/ StopNew(u) \/ PutAway(u) \/ Restore(u) \/ RestartOld(u)
               \/ RecordOld(u) \/ Exit(u)
      BY <3>4, <1>1, <2>2, UndoStep
    <3>5. CASE Kill(u)
      BY <3>5, <1>1, <1>3, <2>2, KillStep
    <3> QED
      BY <2>4, <3>1, <3>2, <3>3, <3>4, <3>5 DEF Script
  <2>5. ASSUME NEW p \in Pid, Booted(p) \/ Hangs(p) \/ Drained(p) \/ Dies(p)
        PROVE  Sound'
    BY <2>5, <1>1, <2>2, ServerStep
  <2>6. CASE ByHand
    BY <2>6, <1>1, <2>2, HandStep
  <2> QED
    BY <2>3, <2>4, <2>5, <2>6 DEF Next
<1> QED
  BY <1>2, <1>3 DEF UpdateInv

(* Where the binaries and the servers are, whatever an updater is doing,    *)
(* is as UpdateInv says, unless two updaters stand at the lock at once.     *)
THEOREM UpdateInvariance == Spec /\ []OneAtTheLock => []UpdateInv
BY InitInv, StepInv, PTL DEF Spec

(* "prevents concurrent updates": the lock keeps every other updater out,   *)
(* also when updaters are killed and leave it behind, but for updaters that *)
(* look for it before the first has written it.                             *)
THEOREM LockExcludes == Spec /\ []OneAtTheLock => []OneUpdate
<1>1. UpdateInv => OneUpdate
  <2> SUFFICES ASSUME UpdateInv PROVE OneUpdate
    OBVIOUS
  <2> PICK past : past = {u \in Updater : Past(u)}
    OBVIOUS
  <2>1. CASE past = {}
    BY <2>1, FS_EmptySet DEF OneUpdate, Past, BeforeLock
  <2>2. CASE past # {}
    <3>1. PICK u : u \in past
      BY <2>2
    <3>2. past = {u}
      BY <3>1, Alone DEF UpdateInv
    <3>3. Cardinality(past) = 1
      BY <3>2, FS_Singleton
    <3>4. past = {v \in Updater : pc[v] \notin {"idle", "check", "unlock", "lock"}}
      BY DEF Past, BeforeLock
    <3> QED
      BY <3>3, <3>4 DEF OneUpdate
  <2> QED
    BY <2>1, <2>2
<1> QED
  BY <1>1, UpdateInvariance, PTL

(* A binary that works is installed or kept as the previous one, after any  *)
(* number of builds, failures, roll backs and kills, as long as the lock    *)
(* excludes and no updater is killed at a Delicate point.                   *)
THEOREM WorkingBinaryStays == Spec /\ []OneAtTheLock => []GoodBinaryKept
<1>1. UpdateInv => GoodBinaryKept
  <2> SUFFICES ASSUME UpdateInv, ~cut PROVE {bin, prev} \cap works # {}
    BY DEF GoodBinaryKept
  <2>1. Typed /\ Sound
    BY DEF UpdateInv
  <2>2. ASSUME NEW p \in Labels, GoodAt(p, bin, prev, works)
        PROVE  bin \in works \/ prev \in works
    BY <2>2 DEF GoodAt, Labels, BeforeLock
  <2>3. CASE \E u \in Updater : Past(u)
    BY <2>1, <2>2, <2>3 DEF Sound, Phase, Typed
  <2>4. CASE \A u \in Updater : ~Past(u)
    BY <2>1, <2>2, <2>4 DEF Sound, Phase, Labels, BeforeLock
  <2> QED
    BY <2>3, <2>4
<1> QED
  BY <1>1, UpdateInvariance, PTL

(* When the script says that the update is complete, the one server that    *)
(* answers is the one it has started.                                       *)
THEOREM CompleteIsServed == Spec /\ []OneAtTheLock => CompleteMeansServed
<1>1. UpdateInv /\ [Next]_vars =>
        [cut \/ \A u \in Updater : Complete(u) => Listening = {loc[u].pid}]_vars
  <2> SUFFICES ASSUME UpdateInv, ~cut, NEW u \in Updater, Complete(u), [Next]_vars
               PROVE  Listening = {loc[u].pid}
    OBVIOUS
  <2>1. Typed /\ Sound
    BY DEF UpdateInv
  <2>2. pc[u] = "curl" /\ pc'[u] = "exit"
    BY DEF Complete
  <2>3. Listening # {}
    BY <2>1, <2>2 DEF Next, vars, Typed, Goto, Begin, Script, CheckLock, RemoveStaleLock,
       WriteLock, Build, FindOld, TermOld, WaitOld, KeepPrevious, Install, StartNew,
       RecordNew, ProbeAlive, ProbeHealth, GiveUp, StopNew, PutAway, Restore, RestartOld,
       RecordOld, Exit, Kill, Booted, Hangs, Drained, Dies, ByHand
  <2>4. Active(servers) \subseteq {loc[u].pid}
    BY <2>1, <2>2 DEF Sound, Phase, Past, BeforeLock, ServersAt
  <2>5. Listening \subseteq Active(servers)
    BY DEF Listening, Active, Alive
  <2> QED
    BY <2>3, <2>4, <2>5
<1> QED
  BY <1>1, UpdateInvariance, PTL DEF Spec, CompleteMeansServed

(* One operator who updates from one shell needs no lock: both properties   *)
(* hold of it without more.                                                 *)
THEOREM OneUpdaterIsSafe ==
    ASSUME NEW u, Updater = {u}
    PROVE  Spec => []GoodBinaryKept /\ CompleteMeansServed
<1>1. OneAtTheLock
  BY DEF OneAtTheLock
<1>2. []OneAtTheLock
  BY <1>1, PTL
<1> QED
  BY <1>2, WorkingBinaryStays, CompleteIsServed, PTL
=============================================================================
