------------------------------- MODULE Update -------------------------------
(***************************************************************************)
(* update.sh without systemd: lock, build, stop the old server, install    *)
(* the new binary, start it, probe its health, roll back.  An updater may  *)
(* be killed between any two commands; servers boot, bind the port and     *)
(* stop at their own pace.                                                 *)
(*                                                                         *)
(* Binaries are numbered in the order in which they are built; 0 is the    *)
(* one that is installed.  A working binary comes up unless the port is    *)
(* taken; one that does not work dies, hangs before it binds the port, or  *)
(* binds it and never answers.  A process id is not used again while the   *)
(* pid file or an updater names it.                                        *)
(***************************************************************************)
EXTENDS Naturals, FiniteSets

CONSTANTS
    Updater,
    MaxBuilds,      \* bound on the binaries that are built
    Pid,            \* process ids of servers
    MaxKills,       \* bound on updaters that are killed
    Nil

ASSUME UpdateAssumption ==
    /\ MaxBuilds \in Nat /\ MaxKills \in Nat
    /\ Nil \notin Nat \cup Updater \cup Pid /\ "stale" \notin Updater

VARIABLES
    works,      \* the binaries that work
    built,      \* the newest binary
    bin, prev, fresh,   \* the files ndrive, ndrive.prev and ndrive.new
    lock,       \* the lock file: the updater it names, "stale", or Nil
    pidfile,    \* the pid file, or Nil
    servers,    \* the processes: pid -> [bin, state]
    pc,         \* the next command of every updater
    loc,        \* its variables: [old, pid]
    cut,        \* history: an updater was killed at a Delicate point
    kills

disk == <<bin, prev, fresh>>
vars == <<works, built, bin, prev, fresh, lock, pidfile, servers, pc, loc, cut, kills>>

Blank == [old |-> {}, pid |-> Nil]

Goto(u, label) == pc' = [pc EXCEPT ![u] = label]

Set(u, rec) == loc' = [loc EXCEPT ![u] = rec]

Running(u) == pc[u] # "idle"

(***************************************************************************)
(* Servers.  SIGTERM ends a server that has no handler yet; one that       *)
(* serves closes its listener and finishes the requests it has.            *)
(***************************************************************************)
Alive == DOMAIN servers

Listening == {p \in Alive : servers[p].state = "listening"}

(* They accept connections and never answer.                                *)
Stuck == {p \in Alive : servers[p].state = "stuck"}

PortFree == Listening = {} /\ Stuck = {}

Without(ps) == [p \in Alive \ ps |-> servers[p]]

Terminated(ps) ==
    LET gone == {p \in ps \cap Alive : servers[p].state = "booting"}
    IN  [p \in Alive \ gone |->
           IF p \in ps THEN [servers[p] EXCEPT !.state = "draining"] ELSE servers[p]]

FreePid == Pid \ (Alive \cup {pidfile} \cup {loc[u].pid : u \in Updater})

Spawn(p, b) == servers' = [q \in Alive \cup {p} |->
    IF q = p THEN [bin |-> b, state |-> "booting"] ELSE servers[q]]

Booted(p) ==
    /\ p \in Alive /\ servers[p].state = "booting" /\ servers[p].bin \in works
    /\ servers' = IF PortFree THEN [servers EXCEPT ![p].state = "listening"]
                              ELSE Without({p})
    /\ UNCHANGED <<works, built, disk, lock, pidfile, pc, loc, cut, kills>>

Hangs(p) ==
    /\ p \in Alive /\ servers[p].state = "booting" /\ servers[p].bin \notin works
    /\ PortFree /\ servers' = [servers EXCEPT ![p].state = "stuck"]
    /\ UNCHANGED <<works, built, disk, lock, pidfile, pc, loc, cut, kills>>

Drained(p) ==
    /\ p \in Alive /\ servers[p].state = "draining"
    /\ servers' = Without({p})
    /\ UNCHANGED <<works, built, disk, lock, pidfile, pc, loc, cut, kills>>

Dies(p) ==
    /\ p \in Alive /\ servers[p].bin \notin works
    /\ servers' = Without({p})
    /\ UNCHANGED <<works, built, disk, lock, pidfile, pc, loc, cut, kills>>

(* The operator starts the installed binary when no server is left.         *)
ByHand ==
    /\ Alive = {} /\ bin # Nil
    /\ \E p \in FreePid : Spawn(p, bin)
    /\ \A u \in Updater : ~Running(u)
    /\ UNCHANGED <<works, built, disk, lock, pidfile, pc, loc, cut, kills>>

(***************************************************************************)
(* The lock.                                                               *)
(***************************************************************************)
Begin(u) ==
    /\ pc[u] = "idle" /\ built < MaxBuilds
    /\ Goto(u, "check")
    /\ UNCHANGED <<works, built, disk, lock, pidfile, servers, loc, cut, kills>>

(* The trap is not set yet when another update is found.                    *)
CheckLock(u) ==
    /\ pc[u] = "check"
    /\ Goto(u, CASE lock = Nil -> "lock"
                 [] lock = "stale" -> "unlock"
                 [] OTHER -> "idle")
    /\ UNCHANGED <<works, built, disk, lock, pidfile, servers, loc, cut, kills>>

RemoveStaleLock(u) ==
    /\ pc[u] = "unlock"
    /\ lock' = Nil
    /\ Goto(u, "lock")
    /\ UNCHANGED <<works, built, disk, pidfile, servers, loc, cut, kills>>

WriteLock(u) ==
    /\ pc[u] = "lock"
    /\ lock' = u
    /\ Goto(u, "build")
    /\ UNCHANGED <<works, built, disk, pidfile, servers, loc, cut, kills>>

(***************************************************************************)
(* Pull and build; a build that fails ends the script.                     *)
(***************************************************************************)
Build(u) ==
    /\ pc[u] = "build"
    /\ \/ built < MaxBuilds /\ built' = built + 1 /\ fresh' = built + 1 /\ Goto(u, "find")
       \/ Goto(u, "exit") /\ UNCHANGED <<built, fresh>>
    /\ UNCHANGED <<works, bin, prev, lock, pidfile, servers, loc, cut, kills>>

(***************************************************************************)
(* Stop the old server: the one of the pid file, or else every one there   *)
(* is; SIGTERM, and SIGKILL when that takes too long.                      *)
(***************************************************************************)
(* Slip: without a valid pid file nothing is stopped.                       *)
FindRecorded(u) ==
    /\ pc[u] = "find"
    /\ Set(u, [loc[u] EXCEPT !.old = {pidfile} \cap Alive])
    /\ Goto(u, "term")
    /\ UNCHANGED <<works, built, disk, lock, pidfile, servers, cut, kills>>

FindOld(u) ==
    /\ pc[u] = "find"
    /\ Set(u, [loc[u] EXCEPT !.old = IF pidfile \in Alive THEN {pidfile} ELSE Alive])
    /\ Goto(u, "term")
    /\ UNCHANGED <<works, built, disk, lock, pidfile, servers, cut, kills>>

TermOld(u) ==
    /\ pc[u] = "term"
    /\ servers' = Terminated(loc[u].old)
    /\ Goto(u, "wait")
    /\ UNCHANGED <<works, built, disk, lock, pidfile, loc, cut, kills>>

WaitOld(u) ==
    /\ pc[u] = "wait"
    /\ servers' = Without(loc[u].old)       \* gone by now, or killed after 30 s
    /\ Set(u, [loc[u] EXCEPT !.old = {}])
    /\ Goto(u, "keep")
    /\ UNCHANGED <<works, built, disk, lock, pidfile, cut, kills>>

(***************************************************************************)
(* Install.  A mv whose source is missing ends the script.                 *)
(***************************************************************************)
(* Slip: the new binary replaces the old one, which is not kept.            *)
KeepNothing(u) ==
    /\ pc[u] = "keep"
    /\ bin' = Nil
    /\ Goto(u, "install")
    /\ UNCHANGED <<works, built, prev, fresh, lock, pidfile, servers, loc, cut, kills>>

KeepPrevious(u) ==
    /\ pc[u] = "keep"
    /\ prev' = IF bin # Nil THEN bin ELSE prev
    /\ bin' = Nil
    /\ Goto(u, "install")
    /\ UNCHANGED <<works, built, fresh, lock, pidfile, servers, loc, cut, kills>>

Install(u) ==
    /\ pc[u] = "install"
    /\ IF fresh = Nil THEN Goto(u, "exit") /\ UNCHANGED <<bin, fresh>>
                      ELSE Goto(u, "start") /\ bin' = fresh /\ fresh' = Nil
    /\ UNCHANGED <<works, built, prev, lock, pidfile, servers, loc, cut, kills>>

StartNew(u) ==
    /\ pc[u] = "start" /\ bin # Nil
    /\ \E p \in FreePid : Spawn(p, bin) /\ Set(u, [loc[u] EXCEPT !.pid = p])
    /\ Goto(u, "record")
    /\ UNCHANGED <<works, built, disk, lock, pidfile, cut, kills>>

RecordNew(u) ==
    /\ pc[u] = "record"
    /\ pidfile' = loc[u].pid
    /\ Goto(u, "alive")
    /\ UNCHANGED <<works, built, disk, lock, servers, loc, cut, kills>>

(***************************************************************************)
(* server_ready: the new process lives, and then something answers.  After *)
(* fifteen attempts the script gives up.  curl has no timeout: it returns  *)
(* only when no server is stuck.                                           *)
(***************************************************************************)
ProbeAlive(u) ==
    /\ pc[u] = "alive"
    /\ Goto(u, IF loc[u].pid \in Alive THEN "curl" ELSE "undo")
    /\ UNCHANGED <<works, built, disk, lock, pidfile, servers, loc, cut, kills>>

ProbeHealth(u) ==
    /\ pc[u] = "curl" /\ Stuck = {}
    /\ Goto(u, IF Listening # {} THEN "exit" ELSE "alive")
    /\ UNCHANGED <<works, built, disk, lock, pidfile, servers, loc, cut, kills>>

(* Slip: the loop has no end.                                               *)
GiveUpNever(u) == FALSE /\ UNCHANGED vars

GiveUp(u) ==
    /\ pc[u] = "curl" /\ PortFree
    /\ Goto(u, "undo")
    /\ UNCHANGED <<works, built, disk, lock, pidfile, servers, loc, cut, kills>>

Complete(u) == pc[u] = "curl" /\ pc'[u] = "exit"

(***************************************************************************)
(* Roll back, and leave the previous binary to start unobserved.           *)
(***************************************************************************)
StopNew(u) ==
    /\ pc[u] = "undo"
    /\ servers' = Terminated({loc[u].pid})
    /\ Goto(u, IF prev # Nil THEN "putAway" ELSE "exit")
    /\ UNCHANGED <<works, built, disk, lock, pidfile, loc, cut, kills>>

PutAway(u) ==
    /\ pc[u] = "putAway"
    /\ Goto(u, IF bin # Nil THEN "restore" ELSE "exit")
    /\ bin' = Nil
    /\ UNCHANGED <<works, built, prev, fresh, lock, pidfile, servers, loc, cut, kills>>

Restore(u) ==
    /\ pc[u] = "restore"
    /\ Goto(u, IF prev # Nil THEN "restart" ELSE "exit")
    /\ bin' = prev /\ prev' = Nil
    /\ UNCHANGED <<works, built, fresh, lock, pidfile, servers, loc, cut, kills>>

RestartOld(u) ==
    /\ pc[u] = "restart" /\ bin # Nil
    /\ \E p \in FreePid : Spawn(p, bin) /\ Set(u, [loc[u] EXCEPT !.pid = p])
    /\ Goto(u, "recordOld")
    /\ UNCHANGED <<works, built, disk, lock, pidfile, cut, kills>>

RecordOld(u) ==
    /\ pc[u] = "recordOld"
    /\ pidfile' = loc[u].pid
    /\ Goto(u, "exit")
    /\ UNCHANGED <<works, built, disk, lock, servers, loc, cut, kills>>

(* The trap removes the lock, whoever wrote it.                             *)
Exit(u) ==
    /\ pc[u] = "exit"
    /\ lock' = Nil
    /\ Goto(u, "idle") /\ Set(u, Blank)
    /\ UNCHANGED <<works, built, disk, pidfile, servers, cut, kills>>

(* Between the installation and the verdict on the new binary, and between  *)
(* the start of the old one and its entry in the pid file.                  *)
Delicate == {"start", "record", "alive", "curl", "undo", "putAway", "recordOld"}

(* The updater is killed, and its trap does not run.                        *)
Kill(u) ==
    /\ Running(u) /\ kills < MaxKills
    /\ kills' = kills + 1
    /\ lock' = IF lock = u THEN "stale" ELSE lock
    /\ cut' = (cut \/ pc[u] \in Delicate)
    /\ Goto(u, "idle") /\ Set(u, Blank)
    /\ UNCHANGED <<works, built, disk, pidfile, servers>>

Script(u) ==
    \/ CheckLock(u) \/ RemoveStaleLock(u) \/ WriteLock(u) \/ Build(u)
    \/ FindOld(u) \/ TermOld(u) \/ WaitOld(u) \/ KeepPrevious(u) \/ Install(u)
    \/ StartNew(u) \/ RecordNew(u) \/ ProbeAlive(u) \/ ProbeHealth(u) \/ GiveUp(u)
    \/ StopNew(u) \/ PutAway(u) \/ Restore(u) \/ RestartOld(u) \/ RecordOld(u)
    \/ Exit(u)

Init ==
    /\ \E bs \in SUBSET (1..MaxBuilds) : works = bs \cup {0}
    /\ built = 0 /\ bin = 0 /\ prev = Nil /\ fresh = Nil
    /\ lock = Nil /\ pidfile \in Pid
    /\ servers = [p \in {pidfile} |-> [bin |-> 0, state |-> "listening"]]
    /\ pc = [u \in Updater |-> "idle"] /\ loc = [u \in Updater |-> Blank]
    /\ cut = FALSE /\ kills = 0

Next ==
    \/ \E u \in Updater : Begin(u) \/ Script(u) \/ Kill(u)
    \/ \E p \in Pid : Booted(p) \/ Hangs(p) \/ Drained(p) \/ Dies(p)
    \/ ByHand

Spec == Init /\ [][Next]_vars

(* The commands of the script return, except for a curl that waits for a    *)
(* stuck server (it is not enabled then), and the loops are bounded.        *)
FairSpec == Spec /\ \A u \in Updater : WF_vars(Script(u)) /\ SF_vars(GiveUp(u))

(***************************************************************************)
(* Properties.                                                             *)
(***************************************************************************)
(* "prevents concurrent updates" (update.sh): two updaters that look for    *)
(* the lock at the same time both go on.                                    *)
OneUpdate == Cardinality({u \in Updater : pc[u] \notin {"idle", "check", "unlock", "lock"}}) <= 1

(* A binary that works is installed, or kept as the previous one, however   *)
(* many builds fail in a row and wherever an updater is killed, except at   *)
(* the points where the next update takes the new binary for the old one.   *)
GoodBinaryKept == cut \/ {bin, prev} \cap works # {}

(* "update complete" is only said when the new server has the port: no      *)
(* server of before, recorded in the pid file or not, answers in its place. *)
CompleteMeansServed == [][cut \/ \A u \in Updater :
    Complete(u) => Listening = {loc[u].pid}]_vars

(* curl waits for a server that accepts and never answers.                  *)
Blocked(u) == pc[u] = "curl" /\ Stuck # {}

(* Every update ends, also with a binary that dies or never comes up, but   *)
(* for one whose curl waits for a stuck server for good: it stays, with its *)
(* lock, as long as nobody stops that server or the script.                 *)
UpdateEnds == \A u \in Updater : Running(u) ~> (~Running(u) \/ []Blocked(u))
=============================================================================
