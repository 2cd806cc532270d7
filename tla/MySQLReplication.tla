--------------------------- MODULE MySQLReplication ---------------------------
(***************************************************************************)
(* The replicated MySQL of mysql-statefulset.yaml: the shell scripts of    *)
(* the init containers and of the xtrabackup sidecar of every pod, the     *)
(* files they leave on the pod's volume, and the servers they start.       *)
(*                                                                         *)
(* Pod 0 is the master.  A transaction is the number the master gave it,   *)
(* and a position in the master's binary log is the number of the last     *)
(* transaction before it.  The containers of all pods interleave; each can *)
(* die between any two commands of its script and is then started again    *)
(* from the top, with nothing but the volume remembered.                   *)
(***************************************************************************)
EXTENDS Naturals, FiniteSets

CONSTANTS
    Replicas,      \* number of pods of the StatefulSet
    None,          \* "no such file"
    MaxWrites,     \* bound: transactions committed by clients
    MaxFaults      \* bound: containers killed, pods and volumes deleted

ASSUME ReplicasAssumption == Replicas \in Nat \ {0}
ASSUME BoundAssumption == MaxWrites \in Nat /\ MaxFaults \in Nat
ASSUME NoneAssumption == None \notin Nat

Pods == 0..(Replicas - 1)
Slaves == Pods \ {0}
Positions == 0..MaxWrites
Files == {"slave_info", "binlog_info", "in", "orig"}

VARIABLES
    init,      \* where the pod is in its init containers
    conf,      \* which file of the ConfigMap is in the pod's conf.d
    sidecar,   \* the next command of the xtrabackup container
    match,     \* BASH_REMATCH in that container
    mysqld,    \* whether the server accepts connections
    dir,       \* /var/lib/mysql, as the scripts see it
    file,      \* the coordinates in the files beside the data
    sound,     \* whether the tables are a snapshot some server once had
    rows,      \* the transactions that the tables contain
    slave,     \* replication: not configured, configured, or running
    pos,       \* the slave's position in the master's log
    written,   \* length of the master's log
    attempts,  \* history: CHANGE MASTER statements sent since the clone;
               \* 2 stands for any greater number
    faults     \* faults so far

container == <<init, conf, sidecar, match, mysqld>>
volume == <<dir, file, sound, rows, slave, pos, attempts>>
vars == <<container, volume, written, faults>>

InitSteps == {"absent", "init_mysql", "clone_mysql", "receive", "prepare",
              "done"}
SidecarSteps == {"inspect", "drop", "echo", "check", "wait", "mv",
                 "change_master", "start_slave", "listen"}

TypeOK ==
    /\ init \in [Pods -> InitSteps]
    /\ conf \in [Pods -> {"none", "master.cnf", "slave.cnf"}]
    /\ sidecar \in [Pods -> SidecarSteps]
    /\ match \in [Pods -> Positions \cup {None}]
    /\ mysqld \in [Pods -> {"down", "up"}]
    /\ dir \in [Pods -> {"empty", "partial", "unprepared", "prepared"}]
    /\ file \in [Pods -> [Files -> Positions \cup {None}]]
    /\ sound \in [Pods -> BOOLEAN]
    /\ rows \in [Pods -> SUBSET (1..MaxWrites)]
    /\ slave \in [Pods -> {"none", "set", "running"}]
    /\ pos \in [Pods -> Positions]
    /\ written \in Positions
    /\ attempts \in [Pods -> 0..2]
    /\ faults \in 0..MaxFaults

NoFiles == [f \in Files |-> None]

Init ==
    /\ init = [p \in Pods |-> "absent"]
    /\ conf = [p \in Pods |-> "none"]
    /\ sidecar = [p \in Pods |-> "inspect"]
    /\ match = [p \in Pods |-> None]
    /\ mysqld = [p \in Pods |-> "down"]
    /\ dir = [p \in Pods |-> "empty"]
    /\ file = [p \in Pods |-> NoFiles]
    /\ sound = [p \in Pods |-> TRUE]
    /\ rows = [p \in Pods |-> {}]
    /\ slave = [p \in Pods |-> "none"]
    /\ pos = [p \in Pods |-> 0]
    /\ written = 0
    /\ attempts = [p \in Pods |-> 0]
    /\ faults = 0

\* The readiness probe of the mysql container; the sidecar has none.
Ready(p) == init[p] = "done" /\ mysqld[p] = "up"

\* The sidecar answers on port 3307 and can dump its server.
Serves(p) == Ready(p) /\ sidecar[p] = "listen"

InitGoto(p, from, to) ==
    /\ init[p] = from
    /\ init' = [init EXCEPT ![p] = to]

SidecarGoto(p, from, to) ==
    /\ init[p] = "done"
    /\ sidecar[p] = from
    /\ sidecar' = [sidecar EXCEPT ![p] = to]

-----------------------------------------------------------------------------
(***************************************************************************)
(* Faulty variants of the actions below, each a slip such a script could   *)
(* have; each breaks a property stated at the end of the module.           *)
(***************************************************************************)
\* clone-mysql without "[[ -d /var/lib/mysql/mysql ]] && exit 0".
CloneNeverSkipped(p) ==
    /\ InitGoto(p, "clone_mysql", IF p = 0 THEN "done" ELSE "receive")
    /\ UNCHANGED <<conf, sidecar, match, mysqld, volume, written, faults>>

\* change_master_to.sql.in is copied, not moved.
CopyToOrig(p) ==
    /\ SidecarGoto(p, "mv", "change_master")
    /\ file' = [file EXCEPT ![p]["orig"] = file[p]["in"]]
    /\ UNCHANGED <<init, conf, match, mysqld, dir, sound, rows, slave, pos,
                   attempts, written, faults>>

\* The parsed position is not written to change_master_to.sql.in.
ForgetBinlogInfo(p) ==
    /\ SidecarGoto(p, "echo", "check")
    /\ match' = [match EXCEPT ![p] = None]
    /\ UNCHANGED <<init, conf, mysqld, volume, written, faults>>

\* Replication starts from the end of the master's log, not from the clone.
ChangeMasterFromNow(p) ==
    /\ mysqld[p] = "up" /\ slave[p] # "running"
    /\ SidecarGoto(p, "change_master", "start_slave")
    /\ slave' = [slave EXCEPT ![p] = "set"]
    /\ pos' = [pos EXCEPT ![p] = written]
    /\ attempts' = [attempts EXCEPT ![p] = IF @ = 2 THEN 2 ELSE @ + 1]
    /\ UNCHANGED <<init, conf, match, mysqld, dir, file, sound, rows, written,
                   faults>>

\* Replication runs past the end of the master's log.
ReplicateBeyond(p) ==
    /\ Ready(p) /\ Ready(0)
    /\ slave[p] = "running"
    /\ pos' = [pos EXCEPT ![p] = @ + 1]
    /\ rows' = [rows EXCEPT ![p] = @ \cup {pos[p] + 1}]
    /\ UNCHANGED <<container, dir, file, sound, slave, attempts, written,
                   faults>>
-----------------------------------------------------------------------------
(***************************************************************************)
(* The StatefulSet controller creates a pod when all pods before it are    *)
(* ready; the init containers then run one after the other.  A failing     *)
(* init container is started again by the kubelet.                         *)
(***************************************************************************)
CreatePod(p) ==
    /\ \A q \in 0..(p - 1) : Ready(q)
    /\ InitGoto(p, "absent", "init_mysql")
    /\ UNCHANGED <<conf, sidecar, match, mysqld, volume, written, faults>>

InitMysql(p) ==
    /\ InitGoto(p, "init_mysql", "clone_mysql")
    /\ conf' = [conf EXCEPT ![p] = IF p = 0 THEN "master.cnf" ELSE "slave.cnf"]
    /\ UNCHANGED <<sidecar, match, mysqld, volume, written, faults>>

CloneMysql(p) ==
    /\ InitGoto(p, "clone_mysql",
                IF dir[p] # "empty" \/ p = 0 THEN "done" ELSE "receive")
    /\ UNCHANGED <<conf, sidecar, match, mysqld, volume, written, faults>>

(***************************************************************************)
(* "ncat | xbstream" without pipefail: the status is that of xbstream,     *)
(* which is content with an empty stream, so a refused connection is only  *)
(* noticed by "xtrabackup --prepare".  A complete backup is a snapshot of  *)
(* the source at the moment it ends, with the coordinates of that moment:  *)
(* the source's own log if master.cnf turns one on (slave.cnf does not),   *)
(* the master's if it replicates.                                          *)
(***************************************************************************)
OwnLog(p) == IF conf[p] = "master.cnf" THEN written ELSE None

MasterLog(p) == IF slave[p] = "none" THEN None ELSE pos[p]

ReceiveNothing(p) ==
    /\ ~Serves(p - 1)
    /\ InitGoto(p, "receive", "prepare")
    /\ UNCHANGED <<conf, sidecar, match, mysqld, volume, written, faults>>

ReceiveAll(p) ==
    /\ Serves(p - 1)
    /\ InitGoto(p, "receive", "prepare")
    /\ dir' = [dir EXCEPT ![p] = "unprepared"]
    /\ file' = [file EXCEPT ![p]["slave_info"] = MasterLog(p - 1),
                            ![p]["binlog_info"] = OwnLog(p - 1)]
    /\ sound' = [sound EXCEPT ![p] = sound[p - 1]]
    /\ rows' = [rows EXCEPT ![p] = rows[p - 1]]
    /\ attempts' = [attempts EXCEPT ![p] = 0]
    /\ UNCHANGED <<conf, sidecar, match, mysqld, slave, pos, written, faults>>

Prepare(p) ==
    /\ InitGoto(p, "prepare",
                IF dir[p] = "unprepared" THEN "done" ELSE "clone_mysql")
    /\ dir' = [dir EXCEPT ![p] = IF @ = "unprepared" THEN "prepared" ELSE @]
    /\ UNCHANGED <<conf, sidecar, match, mysqld, file, sound, rows, slave, pos,
                   attempts, written, faults>>

(***************************************************************************)
(* The mysql container.  The image initialises an empty directory; started *)
(* on a directory that was not prepared the server is at best inconsistent.*)
(* A server that was configured as a slave resumes replication by itself.  *)
(***************************************************************************)
StartMysqld(p) ==
    /\ init[p] = "done"
    /\ mysqld[p] = "down"
    /\ mysqld' = [mysqld EXCEPT ![p] = "up"]
    /\ dir' = [dir EXCEPT ![p] = IF @ = "empty" THEN "prepared" ELSE @]
    /\ sound' = [sound EXCEPT ![p] = @ /\ dir[p] \in {"empty", "prepared"}]
    /\ slave' = [slave EXCEPT ![p] = IF @ = "set" THEN "running" ELSE @]
    /\ UNCHANGED <<init, conf, sidecar, match, file, rows, pos, attempts,
                   written, faults>>

\* A client writes; a server with slave.cnf is super-read-only.
Write(p) ==
    /\ Ready(p)
    /\ conf[p] = "master.cnf"
    /\ written < MaxWrites
    /\ written' = written + 1
    /\ rows' = [rows EXCEPT ![p] = @ \cup {written + 1}]
    /\ UNCHANGED <<container, dir, file, sound, slave, pos, attempts, faults>>

\* A running slave fetches and applies the next transaction of the master.
Replicate(p) ==
    /\ Ready(p) /\ Ready(0)
    /\ slave[p] = "running"
    /\ pos[p] < written
    /\ pos' = [pos EXCEPT ![p] = @ + 1]
    /\ rows' = [rows EXCEPT ![p] = @ \cup {pos[p] + 1}]
    /\ UNCHANGED <<container, dir, file, sound, slave, attempts, written,
                   faults>>

-----------------------------------------------------------------------------
(***************************************************************************)
(* The xtrabackup sidecar, command by command.  "set -e" ends it when a    *)
(* command fails, and the kubelet starts it again.                         *)
(***************************************************************************)
\* From a slave: mv xtrabackup_slave_info change_master_to.sql.in.
\* From the master: parse and rm xtrabackup_binlog_info.
Inspect(p) ==
    /\ \/ /\ file[p]["slave_info"] # None
          /\ SidecarGoto(p, "inspect", "drop")
          /\ file' = [file EXCEPT ![p]["in"] = file[p]["slave_info"],
                                  ![p]["slave_info"] = None]
          /\ UNCHANGED match
       \/ /\ file[p]["slave_info"] = None
          /\ file[p]["binlog_info"] # None
          /\ SidecarGoto(p, "inspect", "echo")
          /\ match' = [match EXCEPT ![p] = file[p]["binlog_info"]]
          /\ file' = [file EXCEPT ![p]["binlog_info"] = None]
       \/ /\ file[p]["slave_info"] = None
          /\ file[p]["binlog_info"] = None
          /\ SidecarGoto(p, "inspect", "check")
          /\ UNCHANGED <<match, file>>
    /\ UNCHANGED <<init, conf, mysqld, dir, sound, rows, slave, pos, attempts,
                   written, faults>>

DropBinlogInfo(p) ==
    /\ SidecarGoto(p, "drop", "check")
    /\ file' = [file EXCEPT ![p]["binlog_info"] = None]
    /\ UNCHANGED <<init, conf, match, mysqld, dir, sound, rows, slave, pos,
                   attempts, written, faults>>

EchoChangeMaster(p) ==
    /\ SidecarGoto(p, "echo", "check")
    /\ file' = [file EXCEPT ![p]["in"] = match[p]]
    /\ match' = [match EXCEPT ![p] = None]
    /\ UNCHANGED <<init, conf, mysqld, dir, sound, rows, slave, pos, attempts,
                   written, faults>>

CheckIn(p) ==
    /\ SidecarGoto(p, "check", IF file[p]["in"] = None THEN "listen" ELSE "wait")
    /\ UNCHANGED <<init, conf, match, mysqld, volume, written, faults>>

WaitForMysqld(p) ==
    /\ mysqld[p] = "up"
    /\ SidecarGoto(p, "wait", "mv")
    /\ UNCHANGED <<init, conf, match, mysqld, volume, written, faults>>

MoveToOrig(p) ==
    /\ SidecarGoto(p, "mv", "change_master")
    /\ file' = [file EXCEPT ![p]["orig"] = file[p]["in"], ![p]["in"] = None]
    /\ UNCHANGED <<init, conf, match, mysqld, dir, sound, rows, slave, pos,
                   attempts, written, faults>>

\* CHANGE MASTER TO fails without a server and on a running slave.
ChangeMaster(p) ==
    /\ IF mysqld[p] = "up" /\ slave[p] # "running"
       THEN /\ SidecarGoto(p, "change_master", "start_slave")
            /\ slave' = [slave EXCEPT ![p] = "set"]
            /\ pos' = [pos EXCEPT ![p] = file[p]["orig"]]
       ELSE /\ SidecarGoto(p, "change_master", "inspect")
            /\ UNCHANGED <<slave, pos>>
    /\ attempts' = [attempts EXCEPT ![p] = IF @ = 2 THEN 2 ELSE @ + 1]
    /\ UNCHANGED <<init, conf, match, mysqld, dir, file, sound, rows, written,
                   faults>>

\* The same connection: a server that died meanwhile has ended it.
StartSlave(p) ==
    /\ SidecarGoto(p, "start_slave", "listen")
    /\ slave' = [slave EXCEPT ![p] = "running"]
    /\ UNCHANGED <<init, conf, match, mysqld, dir, file, sound, rows, pos,
                   attempts, written, faults>>

-----------------------------------------------------------------------------
(***************************************************************************)
(* Faults.                                                                 *)
(***************************************************************************)
Fault == faults < MaxFaults /\ faults' = faults + 1

Stopped(p) == IF slave[p] = "running" THEN "set" ELSE slave[p]

\* clone-mysql dies, or its connection breaks: with part of the data
\* directory written, or with all of it but not yet prepared.
InterruptClone(p) ==
    /\ Fault
    /\ \/ /\ Serves(p - 1)
          /\ InitGoto(p, "receive", "clone_mysql")
          /\ dir' = [dir EXCEPT ![p] = "partial"]
          /\ sound' = [sound EXCEPT ![p] = FALSE]
       \/ /\ InitGoto(p, "prepare", "clone_mysql")
          /\ UNCHANGED <<dir, sound>>
    /\ UNCHANGED <<conf, sidecar, match, mysqld, file, rows, slave, pos,
                   attempts, written>>

KillMysqld(p) ==
    /\ Fault
    /\ mysqld[p] = "up"
    /\ mysqld' = [mysqld EXCEPT ![p] = "down"]
    /\ slave' = [slave EXCEPT ![p] = Stopped(p)]
    /\ sidecar' = [sidecar EXCEPT ![p] =
                      IF @ = "start_slave" THEN "inspect" ELSE @]
    /\ UNCHANGED <<init, conf, match, dir, file, sound, rows, pos, attempts,
                   written>>

KillSidecar(p) ==
    /\ Fault
    /\ sidecar[p] # "inspect"
    /\ SidecarGoto(p, sidecar[p], "inspect")
    /\ match' = [match EXCEPT ![p] = None]
    /\ UNCHANGED <<init, conf, mysqld, volume, written>>

DeletePod(p) ==
    /\ Fault
    /\ init[p] # "absent"
    /\ init' = [init EXCEPT ![p] = "absent"]
    /\ conf' = [conf EXCEPT ![p] = "none"]
    /\ sidecar' = [sidecar EXCEPT ![p] = "inspect"]
    /\ match' = [match EXCEPT ![p] = None]
    /\ mysqld' = [mysqld EXCEPT ![p] = "down"]
    /\ slave' = [slave EXCEPT ![p] = Stopped(p)]
    /\ UNCHANGED <<dir, file, sound, rows, pos, attempts, written>>

LoseVolume(p) ==
    /\ Fault
    /\ init[p] = "absent"
    /\ dir' = [dir EXCEPT ![p] = "empty"]
    /\ file' = [file EXCEPT ![p] = NoFiles]
    /\ sound' = [sound EXCEPT ![p] = TRUE]
    /\ rows' = [rows EXCEPT ![p] = {}]
    /\ slave' = [slave EXCEPT ![p] = "none"]
    /\ pos' = [pos EXCEPT ![p] = 0]
    /\ attempts' = [attempts EXCEPT ![p] = 0]
    /\ UNCHANGED <<container, written>>

-----------------------------------------------------------------------------
CloneStep(p) ==
    \/ ReceiveNothing(p)
    \/ ReceiveAll(p)
    \/ Prepare(p)

SidecarStep(p) ==
    \/ Inspect(p)
    \/ DropBinlogInfo(p)
    \/ EchoChangeMaster(p)
    \/ CheckIn(p)
    \/ WaitForMysqld(p)
    \/ MoveToOrig(p)
    \/ ChangeMaster(p)
    \/ StartSlave(p)

PodStep(p) ==
    \/ CreatePod(p)
    \/ InitMysql(p)
    \/ CloneMysql(p)
    \/ StartMysqld(p)

Next ==
    \/ \E p \in Pods :
          \/ PodStep(p)
          \/ SidecarStep(p)
          \/ Write(p)
          \/ KillMysqld(p)
          \/ KillSidecar(p)
          \/ DeletePod(p)
    \/ \E p \in Slaves :
          \/ CloneStep(p)
          \/ Replicate(p)
          \/ InterruptClone(p)
          \/ LoseVolume(p)

Spec == Init /\ [][Next]_vars

(***************************************************************************)
(* The controller and the kubelet create what is missing and start what    *)
(* has ended, running containers execute their scripts, and a connected    *)
(* slave keeps applying the master's log.  Clients need not write.         *)
(***************************************************************************)
Fairness ==
    /\ \A p \in Pods : /\ WF_vars(CreatePod(p))
                       /\ WF_vars(InitMysql(p) \/ CloneMysql(p))
                       /\ WF_vars(StartMysqld(p))
                       /\ WF_vars(SidecarStep(p))
    /\ \A p \in Slaves : WF_vars(CloneStep(p)) /\ WF_vars(Replicate(p))

FairSpec == Spec /\ Fairness

-----------------------------------------------------------------------------
(***************************************************************************)
(* A server whose tables are a consistent snapshot and that replicates     *)
(* holds exactly the transactions before its position in the master's log: *)
(* the position CHANGE MASTER was given, through whichever files and       *)
(* restarts it came, is the one of the data that was cloned.               *)
(***************************************************************************)
ReplicaIsPrefix ==
    /\ rows[0] = 1..written
    /\ \A p \in Slaves :
          sound[p] /\ slave[p] # "none" =>
              pos[p] <= written /\ rows[p] = 1..pos[p]

(***************************************************************************)
(* "In case of container restart, attempt this at-most-once": however the  *)
(* containers die, one clone is followed by at most one CHANGE MASTER.     *)
(***************************************************************************)
AttemptedAtMostOnce == \A p \in Pods : attempts[p] <= 1

(***************************************************************************)
(* Reads from one pod never go back in time: unless its volume is deleted, *)
(* no restart makes a pod lose a transaction it has served.                *)
(***************************************************************************)
NeverGoesBack ==
    [][\A p \in Pods :
          dir[p] = "prepared" /\ dir'[p] # "empty" => rows[p] \subseteq rows'[p]]_vars

CaughtUp(p) == Ready(p) /\ sound[p] /\ rows[p] = 1..written

(***************************************************************************)
(* Without faults every pod comes up, and every slave catches up with the  *)
(* master and stays so.                                                    *)
(* With faults the only slaves that never catch up are those whose data    *)
(* directory was started before it was a prepared clone, and those whose   *)
(* coordinates were used up by an attempt that did not get through: no     *)
(* CHANGE MASTER, or a CHANGE MASTER without its START SLAVE.  A clone of  *)
(* a slave of the first kind has no coordinates either.                    *)
(***************************************************************************)
Stranded(p) ==
    /\ slave[p] # "running"
    /\ sidecar[p] = "listen"
    /\ \A f \in Files \ {"orig"} : file[p][f] = None

ConvergesOrNeedsRepair ==
    <>[](\A p \in Pods :
            \/ CaughtUp(p)
            \/ faults > 0 /\ Ready(p) /\ (~sound[p] \/ Stranded(p)))

(***************************************************************************)
(* The task page on clone-mysql: "it copies all existing data from another *)
(* running Pod, so its local state is consistent enough to begin           *)
(* replicating from the master."  A ready pod serves consistent data.      *)
(***************************************************************************)
ServesConsistentData == \A p \in Pods : Ready(p) => sound[p]
=============================================================================
