------------------------ MODULE MySQLReplicationProofs ------------------------
(***************************************************************************)
(* The safety of MySQLReplication for any number of pods, transactions and *)
(* faults.                                                                 *)
(***************************************************************************)
EXTENDS MySQLReplication, TLAPS

(***************************************************************************)
(* The inductive invariant.                                                *)
(*                                                                         *)
(* Once: the coordinates of a clone are in one place at a time, first in   *)
(* one of the files that the sidecar reads, then in its memory, and once   *)
(* they were used they are in none.                                        *)
(***************************************************************************)
NoInput(p) == \A f \in {"slave_info", "binlog_info", "in"} : file[p][f] = None

Once(p) ==
    /\ \A f, g \in {"slave_info", "binlog_info", "in"} :
          file[p][f] # None /\ file[p][g] # None => f = g
    /\ sidecar[p] = "echo" => NoInput(p) /\ match[p] # None
    /\ sidecar[p] \in {"wait", "mv"} => file[p]["in"] # None
    /\ sidecar[p] = "change_master" => NoInput(p) /\ file[p]["orig"] # None
    /\ sidecar[p] = "start_slave" => slave[p] # "none"
    /\ slave[p] # "none" => attempts[p] # 0
    /\ attempts[p] # 0 =>
          /\ attempts[p] = 1
          /\ NoInput(p)
          /\ sidecar[p] \notin {"drop", "echo", "wait", "mv", "change_master"}

(***************************************************************************)
(* Coordinates: wherever they are, they are those of the tables.           *)
(***************************************************************************)
Before(p, c) == c <= written /\ rows[p] = 1..c

Coordinates(p) ==
    sound[p] =>
        /\ \A f \in {"slave_info", "binlog_info", "in"} :
              file[p][f] # None => Before(p, file[p][f])
        /\ sidecar[p] = "echo" => Before(p, match[p])
        /\ sidecar[p] = "change_master" => Before(p, file[p]["orig"])
        /\ slave[p] # "none" => Before(p, pos[p])

(***************************************************************************)
(* Fresh: an empty directory has no coordinates, and a clone is received   *)
(* into an empty one; the sidecar starts after the init containers.        *)
(***************************************************************************)
Fresh(p) ==
    /\ dir[p] = "empty" =>
          /\ file[p] = NoFiles /\ slave[p] = "none" /\ attempts[p] = 0
          /\ sidecar[p] # "echo"
    /\ init[p] = "receive" => dir[p] = "empty"
    /\ init[p] # "done" => sidecar[p] = "inspect"

PodInv(p) == Once(p) /\ Coordinates(p) /\ Fresh(p)

(***************************************************************************)
(* Master: pod 0 is the only one with a log, and is never a slave.         *)
(***************************************************************************)
Master ==
    /\ rows[0] = 1..written
    /\ file[0] = NoFiles /\ slave[0] = "none"
    /\ sidecar[0] \in {"inspect", "check", "listen"}
    /\ \A p \in Slaves : conf[p] # "master.cnf"

IInv == TypeOK /\ Master /\ \A p \in Pods : PodInv(p)

-----------------------------------------------------------------------------
LEMMA InitInv == Init => IInv
<1> SUFFICES ASSUME Init PROVE IInv
    OBVIOUS
<1>1. 0 \in Pods /\ 0 \in Positions /\ 1..0 = {}
    BY ReplicasAssumption, BoundAssumption DEF Pods, Positions
<1>2. TypeOK
    BY <1>1, BoundAssumption DEF Init, TypeOK, NoFiles, InitSteps, SidecarSteps
<1>3. Master
    BY <1>1 DEF Init, Master, Slaves
<1>4. ASSUME NEW p \in Pods PROVE PodInv(p)
    BY DEF Init, PodInv, Once, Coordinates, Fresh, NoInput, NoFiles, Files
<1> QED
    BY <1>2, <1>3, <1>4 DEF IInv

-----------------------------------------------------------------------------
(***************************************************************************)
(* A step of pod p leaves the other pods alone, and what holds of a pod    *)
(* that is left alone goes on holding while the master's log grows.        *)
(***************************************************************************)
Same(q) ==
    /\ init'[q] = init[q] /\ sidecar'[q] = sidecar[q] /\ match'[q] = match[q]
    /\ dir'[q] = dir[q] /\ file'[q] = file[q] /\ sound'[q] = sound[q]
    /\ rows'[q] = rows[q] /\ slave'[q] = slave[q] /\ pos'[q] = pos[q]
    /\ attempts'[q] = attempts[q]

Grows == written' \in Nat /\ written <= written'

LEMMA SameLemma ==
    ASSUME TypeOK, Grows, NEW q \in Pods, PodInv(q), Same(q)
    PROVE  PodInv(q)'
<1> USE DEF Same
<1>1. Once(q)'
    BY DEF PodInv, Once, NoInput
<1>2. Fresh(q)'
    BY DEF PodInv, Fresh, NoFiles, Files
<1>3. Coordinates(q)'
    <2>1. ASSUME NEW c \in Positions, Before(q, c)
          PROVE  c <= written' /\ rows'[q] = 1..c
        BY <2>1, BoundAssumption DEF Before, Grows, TypeOK, Positions
    <2>2. /\ \A f \in Files : file[q][f] # None => file[q][f] \in Positions
          /\ match[q] # None => match[q] \in Positions
          /\ pos[q] \in Positions
        BY DEF TypeOK
    <2>3. sidecar[q] = "echo" => match[q] # None
        BY DEF PodInv, Once
    <2>4. sidecar[q] = "change_master" => file[q]["orig"] # None
        BY DEF PodInv, Once
    <2> QED
        BY <2>1, <2>2, <2>3, <2>4 DEF PodInv, Coordinates, Before, Files
<1> QED
    BY <1>1, <1>2, <1>3 DEF PodInv

LEMMA StepLemma ==
    ASSUME IInv, Grows, NEW p \in Pods,
           \A q \in Pods : q # p => Same(q),
           TypeOK', PodInv(p)', Master'
    PROVE  IInv'
<1>1. ASSUME NEW q \in Pods PROVE PodInv(q)'
    BY <1>1, SameLemma DEF IInv
<1> QED
    BY <1>1 DEF IInv

-----------------------------------------------------------------------------
(***************************************************************************)
(* One lemma per action: what it does to its own pod, and to the master.   *)
(***************************************************************************)
LEMMA CreatePodInv ==
    ASSUME IInv, NEW p \in Pods, CreatePod(p)
    PROVE  IInv'
<1> USE DEF IInv, CreatePod, InitGoto, volume
<1>1. TypeOK'
    BY DEF TypeOK, InitSteps
<1>2. Grows /\ \A q \in Pods : q # p => Same(q)
    BY DEF Grows, Same, TypeOK, Positions
<1>3. Once(p)'
    BY DEF PodInv, Once, NoInput
<1>4. Coordinates(p)'
    BY DEF PodInv, Coordinates, Before
<1>5. Fresh(p)'
    BY DEF PodInv, Fresh
<1>6. Master'
    BY DEF Master
<1> QED
    BY <1>1, <1>2, <1>3, <1>4, <1>5, <1>6, StepLemma DEF PodInv

LEMMA InitMysqlInv ==
    ASSUME IInv, NEW p \in Pods, InitMysql(p)
    PROVE  IInv'
<1> USE DEF IInv, InitMysql, InitGoto, volume
<1>1. TypeOK'
    BY DEF TypeOK, InitSteps
<1>2. Grows /\ \A q \in Pods : q # p => Same(q)
    BY DEF Grows, Same, TypeOK, Positions
<1>3. Once(p)'
    BY DEF PodInv, Once, NoInput
<1>4. Coordinates(p)'
    BY DEF PodInv, Coordinates, Before
<1>5. Fresh(p)'
    BY DEF PodInv, Fresh
<1>6. Master'
    BY DEF Master, Slaves
<1> QED
    BY <1>1, <1>2, <1>3, <1>4, <1>5, <1>6, StepLemma DEF PodInv

LEMMA CloneMysqlInv ==
    ASSUME IInv, NEW p \in Pods, CloneMysql(p)
    PROVE  IInv'
<1> USE DEF IInv, CloneMysql, InitGoto, volume
<1>1. TypeOK'
    BY DEF TypeOK, InitSteps
<1>2. Grows /\ \A q \in Pods : q # p => Same(q)
    BY DEF Grows, Same, TypeOK, Positions
<1>3. Once(p)'
    BY DEF PodInv, Once, NoInput
<1>4. Coordinates(p)'
    BY DEF PodInv, Coordinates, Before
<1>5. Fresh(p)'
    BY DEF PodInv, Fresh
<1>6. Master'
    BY DEF Master
<1> QED
    BY <1>1, <1>2, <1>3, <1>4, <1>5, <1>6, StepLemma DEF PodInv

LEMMA ReceiveNothingInv ==
    ASSUME IInv, NEW p \in Slaves, ReceiveNothing(p)
    PROVE  IInv'
<1> USE DEF IInv, ReceiveNothing, InitGoto, volume
<1>0. p \in Pods /\ p # 0 /\ 0 \in Pods
    BY ReplicasAssumption DEF Slaves, Pods
<1>1. TypeOK'
    BY DEF TypeOK, InitSteps
<1>2. Grows /\ \A q \in Pods : q # p => Same(q)
    BY DEF Grows, Same, TypeOK, Positions
<1>3. Once(p)'
    BY <1>0 DEF PodInv, Once, Fresh
<1>4. Coordinates(p)'
    BY <1>0 DEF PodInv, Coordinates, Fresh, NoFiles, Files
<1>5. Fresh(p)'
    BY <1>0 DEF PodInv, Fresh
<1>6. Master'
    BY DEF Master
<1> QED
    BY <1>0, <1>1, <1>2, <1>3, <1>4, <1>5, <1>6, StepLemma DEF PodInv

\* The clone: the coordinates it brings are those of the server it was taken
\* from, the end of the log if that is the master, else its own position.
LEMMA ReceiveAllInv ==
    ASSUME IInv, NEW p \in Slaves, ReceiveAll(p)
    PROVE  IInv'
<1> USE DEF IInv, ReceiveAll, InitGoto
<1>0. p \in Pods /\ p # 0 /\ 0 \in Pods
    BY ReplicasAssumption DEF Slaves, Pods
<1>a. p - 1 \in Pods
    BY ReplicasAssumption DEF Slaves, Pods
<1>b. /\ MasterLog(p - 1) \in Positions \cup {None}
      /\ OwnLog(p - 1) \in Positions \cup {None}
    BY <1>a DEF TypeOK, MasterLog, OwnLog
<1>c. /\ MasterLog(p - 1) # None => p - 1 # 0
      /\ OwnLog(p - 1) # None => p - 1 = 0
    BY <1>a DEF Master, MasterLog, OwnLog, Slaves
<1>d. /\ file[p] = NoFiles /\ slave[p] = "none" /\ sidecar[p] = "inspect"
    BY <1>0 DEF PodInv, Fresh
<1>e. /\ file'[p]["slave_info"] = MasterLog(p - 1)
      /\ file'[p]["binlog_info"] = OwnLog(p - 1)
      /\ file'[p]["in"] = None
      /\ sound'[p] = sound[p - 1] /\ rows'[p] = rows[p - 1]
      /\ attempts'[p] = 0 /\ dir'[p] = "unprepared" /\ init'[p] = "prepare"
      /\ slave'[p] = "none" /\ sidecar'[p] = "inspect"
    BY <1>0, <1>d DEF TypeOK, NoFiles, Files
<1>1. TypeOK'
    <2>1. file' \in [Pods -> [Files -> Positions \cup {None}]]
        BY <1>b DEF TypeOK
    <2>2. init' \in [Pods -> InitSteps]
        BY DEF TypeOK, InitSteps
    <2>3. /\ sound' \in [Pods -> BOOLEAN]
          /\ rows' \in [Pods -> SUBSET (1..MaxWrites)]
        BY <1>a DEF TypeOK
    <2>4. /\ dir' \in [Pods -> {"empty", "partial", "unprepared", "prepared"}]
          /\ attempts' \in [Pods -> 0..2]
        BY <1>0 DEF TypeOK
    <2> QED
        BY <2>1, <2>2, <2>3, <2>4 DEF TypeOK
<1>2. Grows /\ \A q \in Pods : q # p => Same(q)
    BY DEF Grows, Same, TypeOK, Positions
<1>3. Once(p)'
    BY <1>c, <1>e DEF Once
<1>4. Coordinates(p)'
    <2>1. ASSUME sound[p - 1], MasterLog(p - 1) # None
          PROVE  /\ MasterLog(p - 1) <= written'
                 /\ rows'[p] = 1..MasterLog(p - 1)
        BY <1>a, <1>e, <2>1 DEF PodInv, Coordinates, Before, MasterLog
    <2>2. ASSUME OwnLog(p - 1) # None
          PROVE  /\ OwnLog(p - 1) <= written'
                 /\ rows'[p] = 1..OwnLog(p - 1)
        BY <1>c, <1>e, <2>2 DEF Master, OwnLog, TypeOK, Positions
    <2> QED
        BY <1>e, <2>1, <2>2 DEF Coordinates, Before
<1>5. Fresh(p)'
    BY <1>e DEF Fresh
<1>6. Master'
    BY <1>0, <1>2 DEF Master, Same
<1> QED
    BY <1>0, <1>1, <1>2, <1>3, <1>4, <1>5, <1>6, StepLemma DEF PodInv

LEMMA PrepareInv ==
    ASSUME IInv, NEW p \in Slaves, Prepare(p)
    PROVE  IInv'
<1> USE DEF IInv, Prepare, InitGoto
<1>0. p \in Pods /\ p # 0 /\ 0 \in Pods
    BY ReplicasAssumption DEF Slaves, Pods
<1>1. TypeOK'
    BY DEF TypeOK, InitSteps
<1>2. Grows /\ \A q \in Pods : q # p => Same(q)
    BY DEF Grows, Same, TypeOK, Positions
<1>3. Once(p)'
    BY <1>0 DEF PodInv, Once, NoInput
<1>4. Coordinates(p)'
    BY <1>0 DEF PodInv, Coordinates, Before
<1>5. Fresh(p)'
    BY <1>0 DEF PodInv, Fresh
<1>6. Master'
    BY DEF Master
<1> QED
    BY <1>0, <1>1, <1>2, <1>3, <1>4, <1>5, <1>6, StepLemma DEF PodInv

LEMMA StartMysqldInv ==
    ASSUME IInv, NEW p \in Pods, StartMysqld(p)
    PROVE  IInv'
<1> USE DEF IInv, StartMysqld
<1>1. TypeOK'
    BY DEF TypeOK
<1>2. Grows /\ \A q \in Pods : q # p => Same(q)
    BY DEF Grows, Same, TypeOK, Positions
<1>3. Once(p)'
    BY DEF PodInv, Once, NoInput
<1>4. Coordinates(p)'
    BY DEF TypeOK, PodInv, Coordinates, Before
<1>5. Fresh(p)'
    BY DEF PodInv, Fresh
<1>6. Master'
    BY DEF Master
<1> QED
    BY <1>1, <1>2, <1>3, <1>4, <1>5, <1>6, StepLemma DEF PodInv

LEMMA WriteInv ==
    ASSUME IInv, NEW p \in Pods, Write(p)
    PROVE  IInv'
<1> USE DEF IInv, Write, container
<1>a. p = 0
    BY DEF Master, Slaves
<1>b. /\ written + 1 \in Positions
      /\ 1..(written + 1) = 1..written \cup {written + 1}
    BY BoundAssumption DEF TypeOK, Positions
<1>1. TypeOK'
    <2>1. rows' \in [Pods -> SUBSET (1..MaxWrites)]
        BY BoundAssumption DEF TypeOK, Positions
    <2> QED
        BY <1>b, <2>1 DEF TypeOK
<1>2. Grows /\ \A q \in Pods : q # p => Same(q)
    BY DEF Grows, Same, TypeOK, Positions
<1>3. Once(p)'
    BY DEF PodInv, Once, NoInput
<1>4. Coordinates(p)'
    BY <1>a DEF Master, Coordinates, NoFiles, Files
<1>5. Fresh(p)'
    BY DEF PodInv, Fresh
<1>6. Master'
    <2>1. rows'[0] = 1..written'
        BY <1>a, <1>b DEF TypeOK, Master
    <2> QED
        BY <2>1 DEF Master
<1> QED
    BY <1>1, <1>2, <1>3, <1>4, <1>5, <1>6, StepLemma DEF PodInv

LEMMA ReplicateInv ==
    ASSUME IInv, NEW p \in Slaves, Replicate(p)
    PROVE  IInv'
<1> USE DEF IInv, Replicate, container
<1>0. p \in Pods /\ p # 0 /\ 0 \in Pods
    BY ReplicasAssumption DEF Slaves, Pods
<1>a. pos[p] \in Nat /\ written \in Nat /\ written <= MaxWrites
    BY <1>0 DEF TypeOK, Positions
<1>b. 1..(pos[p] + 1) = 1..pos[p] \cup {pos[p] + 1}
    BY <1>a
<1>c. /\ rows'[p] = rows[p] \cup {pos[p] + 1} /\ pos'[p] = pos[p] + 1
      /\ NoInput(p) /\ sidecar[p] \notin {"echo", "change_master"}
    BY <1>0 DEF TypeOK, PodInv, Once
<1>1. TypeOK'
    <2>1. pos' \in [Pods -> Positions]
        BY <1>0, BoundAssumption DEF TypeOK, Positions
    <2>2. rows' \in [Pods -> SUBSET (1..MaxWrites)]
        BY <1>0, <1>a, BoundAssumption DEF TypeOK
    <2> QED
        BY <2>1, <2>2 DEF TypeOK
<1>2. Grows /\ \A q \in Pods : q # p => Same(q)
    BY DEF Grows, Same, TypeOK, Positions
<1>3. Once(p)'
    BY <1>0 DEF PodInv, Once, NoInput
<1>4. Coordinates(p)'
    <2>1. ASSUME sound[p]
          PROVE  pos'[p] <= written' /\ rows'[p] = 1..pos'[p]
        <3>1. rows[p] = 1..pos[p]
            BY <1>0, <2>1 DEF PodInv, Coordinates, Before
        <3>2. rows'[p] = 1..pos'[p]
            BY <1>b, <1>c, <3>1
        <3>3. pos'[p] <= written'
            BY <1>a
        <3> QED
            BY <3>2, <3>3
    <2> QED
        BY <1>c, <2>1 DEF Coordinates, Before, NoInput
<1>5. Fresh(p)'
    BY <1>0 DEF PodInv, Fresh
<1>6. Master'
    BY DEF Master
<1> QED
    BY <1>0, <1>1, <1>2, <1>3, <1>4, <1>5, <1>6, StepLemma DEF PodInv

\* Of the three files at most one has coordinates, so that no branch of the
\* script finds a second copy of those it moves.
LEMMA InspectInv ==
    ASSUME IInv, NEW p \in Pods, Inspect(p)
    PROVE  IInv'
<1> USE DEF IInv, Inspect, SidecarGoto
<1>0. 0 \in Pods
    BY ReplicasAssumption DEF Pods
<1>a. \/ /\ file[p]["slave_info"] # None /\ file[p]["in"] = None
         /\ sidecar' = [sidecar EXCEPT ![p] = "drop"]
         /\ file' = [file EXCEPT ![p]["in"] = file[p]["slave_info"],
                                 ![p]["slave_info"] = None]
         /\ match' = match
      \/ /\ file[p]["slave_info"] = None /\ file[p]["binlog_info"] # None
         /\ file[p]["in"] = None
         /\ sidecar' = [sidecar EXCEPT ![p] = "echo"]
         /\ file' = [file EXCEPT ![p]["binlog_info"] = None]
         /\ match' = [match EXCEPT ![p] = file[p]["binlog_info"]]
      \/ /\ file[p]["slave_info"] = None /\ file[p]["binlog_info"] = None
         /\ sidecar' = [sidecar EXCEPT ![p] = "check"]
         /\ file' = file /\ match' = match
    BY DEF PodInv, Once
<1>b. \A f \in Files : file[p][f] \in Positions \cup {None}
    BY DEF TypeOK
<1>c. file' \in [Pods -> [Files -> Positions \cup {None}]]
    <2>1. CASE file' = [file EXCEPT ![p]["in"] = file[p]["slave_info"],
                                    ![p]["slave_info"] = None]
        BY <1>0, <1>b, <2>1 DEF TypeOK, Files
    <2>2. CASE file' = [file EXCEPT ![p]["binlog_info"] = None]
        BY <2>2 DEF TypeOK
    <2>3. CASE file' = file
        BY <2>3 DEF TypeOK
    <2> QED
        BY <2>1, <2>2, <2>3
<1>d. match' \in [Pods -> Positions \cup {None}]
    BY DEF TypeOK, Files
<1>e. init[p] = "done"
    OBVIOUS
<1>1. TypeOK'
    <2>1. \E s \in {"drop", "echo", "check"} :
                sidecar' = [sidecar EXCEPT ![p] = s]
        OBVIOUS
    <2>2. sidecar' \in [Pods -> SidecarSteps]
        BY <2>1 DEF TypeOK, SidecarSteps
    <2> QED
        BY <1>c, <1>d, <2>2 DEF TypeOK
<1>2. Grows /\ \A q \in Pods : q # p => Same(q)
    BY DEF Grows, Same, TypeOK, Positions
<1>3. Once(p)'
    BY DEF TypeOK, PodInv, Once, NoInput, Files
<1>4. Coordinates(p)'
    BY DEF TypeOK, PodInv, Coordinates, Before, Files
<1>5. Fresh(p)'
    <2>1. dir[p] = "empty" => sidecar'[p] = "check" /\ file'[p] = file[p]
        BY DEF TypeOK, PodInv, Fresh, NoFiles, Files
    <2> QED
        BY <2>1 DEF PodInv, Fresh
<1>6. Master'
    <2>1. CASE p = 0
        <3>1. sidecar'[0] = "check" /\ file'[0] = file[0]
            BY <2>1 DEF TypeOK, Master, NoFiles, Files
        <3> QED
            BY <3>1 DEF Master
    <2>2. CASE p # 0
        BY <1>0, <1>2, <2>2 DEF Master, Same
    <2> QED
        BY <2>1, <2>2
<1> QED
    BY <1>1, <1>2, <1>3, <1>4, <1>5, <1>6, StepLemma DEF PodInv

LEMMA DropBinlogInfoInv ==
    ASSUME IInv, NEW p \in Pods, DropBinlogInfo(p)
    PROVE  IInv'
<1> USE DEF IInv, DropBinlogInfo, SidecarGoto
<1>1. TypeOK'
    BY DEF TypeOK, SidecarSteps
<1>2. Grows /\ \A q \in Pods : q # p => Same(q)
    BY DEF Grows, Same, TypeOK, Positions
<1>3. Once(p)'
    BY DEF PodInv, Once
<1>4. Coordinates(p)'
    BY DEF PodInv, Coordinates, Before
<1>5. Fresh(p)'
    BY DEF PodInv, Fresh, NoFiles
<1>6. Master'
    BY DEF Master
<1> QED
    BY <1>1, <1>2, <1>3, <1>4, <1>5, <1>6, StepLemma DEF PodInv

LEMMA EchoChangeMasterInv ==
    ASSUME IInv, NEW p \in Pods, EchoChangeMaster(p)
    PROVE  IInv'
<1> USE DEF IInv, EchoChangeMaster, SidecarGoto
<1>1. TypeOK'
    BY DEF TypeOK, SidecarSteps
<1>2. Grows /\ \A q \in Pods : q # p => Same(q)
    BY DEF Grows, Same, TypeOK, Positions
<1>3. Once(p)'
    BY DEF TypeOK, PodInv, Once, NoInput
<1>4. Coordinates(p)'
    BY DEF TypeOK, PodInv, Coordinates, Before
<1>5. Fresh(p)'
    BY DEF PodInv, Fresh
<1>6. Master'
    BY DEF Master
<1> QED
    BY <1>1, <1>2, <1>3, <1>4, <1>5, <1>6, StepLemma DEF PodInv

LEMMA CheckInInv ==
    ASSUME IInv, NEW p \in Pods, CheckIn(p)
    PROVE  IInv'
<1> USE DEF IInv, CheckIn, SidecarGoto, volume
<1>1. TypeOK'
    BY DEF TypeOK, SidecarSteps
<1>2. Grows /\ \A q \in Pods : q # p => Same(q)
    BY DEF Grows, Same, TypeOK, Positions
<1>3. Once(p)'
    BY DEF PodInv, Once, NoInput
<1>4. Coordinates(p)'
    BY DEF PodInv, Coordinates, Before
<1>5. Fresh(p)'
    BY DEF PodInv, Fresh
<1>6. Master'
    BY DEF Master, NoFiles, Files
<1> QED
    BY <1>1, <1>2, <1>3, <1>4, <1>5, <1>6, StepLemma DEF PodInv

LEMMA WaitForMysqldInv ==
    ASSUME IInv, NEW p \in Pods, WaitForMysqld(p)
    PROVE  IInv'
<1> USE DEF IInv, WaitForMysqld, SidecarGoto, volume
<1>1. TypeOK'
    BY DEF TypeOK, SidecarSteps
<1>2. Grows /\ \A q \in Pods : q # p => Same(q)
    BY DEF Grows, Same, TypeOK, Positions
<1>3. Once(p)'
    BY DEF PodInv, Once
<1>4. Coordinates(p)'
    BY DEF PodInv, Coordinates, Before
<1>5. Fresh(p)'
    BY DEF PodInv, Fresh
<1>6. Master'
    BY DEF Master
<1> QED
    BY <1>1, <1>2, <1>3, <1>4, <1>5, <1>6, StepLemma DEF PodInv

LEMMA MoveToOrigInv ==
    ASSUME IInv, NEW p \in Pods, MoveToOrig(p)
    PROVE  IInv'
<1> USE DEF IInv, MoveToOrig, SidecarGoto
<1>0. 0 \in Pods
    BY ReplicasAssumption DEF Pods
<1>a. file[p]["in"] \in Positions \cup {None}
    BY DEF TypeOK, Files
<1>1. TypeOK'
    <2>1. file' \in [Pods -> [Files -> Positions \cup {None}]]
        BY <1>a DEF TypeOK
    <2>2. sidecar' \in [Pods -> SidecarSteps]
        BY DEF TypeOK, SidecarSteps
    <2> QED
        BY <2>1, <2>2 DEF TypeOK
<1>2. Grows /\ \A q \in Pods : q # p => Same(q)
    BY DEF Grows, Same, TypeOK, Positions
<1>3. Once(p)'
    BY DEF TypeOK, PodInv, Once, Files
<1>4. Coordinates(p)'
    BY DEF TypeOK, PodInv, Once, Files
<1>5. Fresh(p)'
    BY DEF PodInv, Once, Fresh, NoFiles, Files
<1>6. Master'
    BY <1>0, <1>2 DEF Master, Same
<1> QED
    BY <1>1, <1>2, <1>3, <1>4, <1>5, <1>6, StepLemma DEF PodInv

\* The first attempt since the clone: nothing leads back to this command.
LEMMA ChangeMasterInv ==
    ASSUME IInv, NEW p \in Pods, ChangeMaster(p)
    PROVE  IInv'
<1> USE DEF IInv, ChangeMaster, SidecarGoto
<1>0. 0 \in Pods
    BY ReplicasAssumption DEF Pods
<1>a. file[p]["orig"] \in Positions
    BY DEF TypeOK, Files, PodInv, Once
<1>1. TypeOK'
    <2>1. \E s \in {"start_slave", "inspect"} :
                sidecar' = [sidecar EXCEPT ![p] = s]
        OBVIOUS
    <2>2. sidecar' \in [Pods -> SidecarSteps]
        BY <2>1 DEF TypeOK, SidecarSteps
    <2>3. pos' \in [Pods -> Positions]
        BY <1>a DEF TypeOK
    <2>4. attempts' \in [Pods -> 0..2]
        <3>1. attempts[p] \in 0..2
            BY DEF TypeOK
        <3>2. (IF attempts[p] = 2 THEN 2 ELSE attempts[p] + 1) \in 0..2
            BY <3>1
        <3> QED
            BY <3>2 DEF TypeOK
    <2> QED
        BY <2>2, <2>3, <2>4 DEF TypeOK
<1>2. Grows /\ \A q \in Pods : q # p => Same(q)
    BY DEF Grows, Same, TypeOK, Positions
<1>3. Once(p)'
    BY DEF TypeOK, PodInv, Once, NoInput
<1>4. Coordinates(p)'
    BY DEF TypeOK, PodInv, Coordinates, Before
<1>5. Fresh(p)'
    BY DEF PodInv, Once, Fresh, NoFiles, Files
<1>6. Master'
    BY <1>0, <1>2 DEF Master, Same
<1> QED
    BY <1>1, <1>2, <1>3, <1>4, <1>5, <1>6, StepLemma DEF PodInv

LEMMA StartSlaveInv ==
    ASSUME IInv, NEW p \in Pods, StartSlave(p)
    PROVE  IInv'
<1> USE DEF IInv, StartSlave, SidecarGoto
<1>1. TypeOK'
    BY DEF TypeOK, SidecarSteps
<1>2. Grows /\ \A q \in Pods : q # p => Same(q)
    BY DEF Grows, Same, TypeOK, Positions
<1>3. Once(p)'
    BY DEF PodInv, Once, NoInput
<1>4. Coordinates(p)'
    BY DEF PodInv, Once, Coordinates, Before
<1>5. Fresh(p)'
    BY DEF PodInv, Once, Fresh
<1>6. Master'
    BY DEF Master
<1> QED
    BY <1>1, <1>2, <1>3, <1>4, <1>5, <1>6, StepLemma DEF PodInv

LEMMA InterruptCloneInv ==
    ASSUME IInv, NEW p \in Slaves, InterruptClone(p)
    PROVE  IInv'
<1> USE DEF IInv, InterruptClone, InitGoto, Fault
<1>0. p \in Pods /\ p # 0 /\ 0 \in Pods
    BY ReplicasAssumption DEF Slaves, Pods
<1>1. TypeOK'
    <2>1. faults' \in 0..MaxFaults
        BY BoundAssumption DEF TypeOK
    <2> QED
        BY <2>1 DEF TypeOK, InitSteps
<1>2. Grows /\ \A q \in Pods : q # p => Same(q)
    BY DEF Grows, Same, TypeOK, Positions
<1>3. Once(p)'
    BY <1>0 DEF PodInv, Once, NoInput
<1>4. Coordinates(p)'
    BY <1>0 DEF PodInv, Coordinates, Before, Fresh, NoFiles, Files
<1>5. Fresh(p)'
    BY <1>0 DEF TypeOK, PodInv, Fresh
<1>6. Master'
    BY DEF Master
<1> QED
    BY <1>0, <1>1, <1>2, <1>3, <1>4, <1>5, <1>6, StepLemma DEF PodInv

LEMMA KillMysqldInv ==
    ASSUME IInv, NEW p \in Pods, KillMysqld(p)
    PROVE  IInv'
<1> USE DEF IInv, KillMysqld, Fault, Stopped
<1>1. TypeOK'
    BY BoundAssumption DEF TypeOK, SidecarSteps
<1>2. Grows /\ \A q \in Pods : q # p => Same(q)
    BY DEF Grows, Same, TypeOK, Positions
<1>3. Once(p)'
    BY DEF PodInv, Once, NoInput
<1>4. Coordinates(p)'
    BY DEF PodInv, Coordinates, Before
<1>5. Fresh(p)'
    BY DEF PodInv, Fresh
<1>6. Master'
    BY DEF Master
<1> QED
    BY <1>1, <1>2, <1>3, <1>4, <1>5, <1>6, StepLemma DEF PodInv

LEMMA KillSidecarInv ==
    ASSUME IInv, NEW p \in Pods, KillSidecar(p)
    PROVE  IInv'
<1> USE DEF IInv, KillSidecar, SidecarGoto, Fault, volume
<1>1. TypeOK'
    BY BoundAssumption DEF TypeOK, SidecarSteps
<1>2. Grows /\ \A q \in Pods : q # p => Same(q)
    BY DEF Grows, Same, TypeOK, Positions
<1>3. Once(p)'
    BY DEF TypeOK, PodInv, Once, NoInput
<1>4. Coordinates(p)'
    BY DEF TypeOK, PodInv, Coordinates, Before
<1>5. Fresh(p)'
    BY DEF PodInv, Fresh
<1>6. Master'
    BY DEF Master
<1> QED
    BY <1>1, <1>2, <1>3, <1>4, <1>5, <1>6, StepLemma DEF PodInv

LEMMA DeletePodInv ==
    ASSUME IInv, NEW p \in Pods, DeletePod(p)
    PROVE  IInv'
<1> USE DEF IInv, DeletePod, Fault, Stopped
<1>1. TypeOK'
    BY BoundAssumption DEF TypeOK, InitSteps, SidecarSteps
<1>2. Grows /\ \A q \in Pods : q # p => Same(q)
    BY DEF Grows, Same, TypeOK, Positions
<1>3. Once(p)'
    BY DEF TypeOK, PodInv, Once, NoInput
<1>4. Coordinates(p)'
    BY DEF TypeOK, PodInv, Coordinates, Before
<1>5. Fresh(p)'
    BY DEF TypeOK, PodInv, Fresh
<1>6. Master'
    BY DEF Master
<1> QED
    BY <1>1, <1>2, <1>3, <1>4, <1>5, <1>6, StepLemma DEF PodInv

LEMMA LoseVolumeInv ==
    ASSUME IInv, NEW p \in Slaves, LoseVolume(p)
    PROVE  IInv'
<1> USE DEF IInv, LoseVolume, Fault, container
<1>0. p \in Pods /\ p # 0 /\ 0 \in Pods
    BY ReplicasAssumption DEF Slaves, Pods
<1>1. TypeOK'
    <2>1. NoFiles \in [Files -> Positions \cup {None}] /\ 0 \in Positions
        BY BoundAssumption DEF NoFiles, Positions
    <2>2. faults' \in 0..MaxFaults
        BY BoundAssumption DEF TypeOK
    <2> QED
        BY <1>0, <2>1, <2>2 DEF TypeOK
<1>2. Grows /\ \A q \in Pods : q # p => Same(q)
    BY DEF Grows, Same, TypeOK, Positions
<1>3. Once(p)'
    BY <1>0 DEF TypeOK, PodInv, Once, NoInput, Fresh, NoFiles, Files
<1>4. Coordinates(p)'
    BY <1>0
    DEF TypeOK, PodInv, Once, NoInput, Coordinates, Fresh, NoFiles, Files
<1>5. Fresh(p)'
    BY <1>0 DEF TypeOK, PodInv, Fresh
<1>6. Master'
    BY <1>0 DEF Master
<1> QED
    BY <1>0, <1>1, <1>2, <1>3, <1>4, <1>5, <1>6, StepLemma DEF PodInv

-----------------------------------------------------------------------------
(***************************************************************************)
(* Every step keeps the invariant.                                         *)
(***************************************************************************)
LEMMA NextInv == IInv /\ [Next]_vars => IInv'
<1> SUFFICES ASSUME IInv, [Next]_vars PROVE IInv'
    OBVIOUS
<1>1. ASSUME NEW p \in Pods, PodStep(p) PROVE IInv'
    BY <1>1, CreatePodInv, InitMysqlInv, CloneMysqlInv, StartMysqldInv
    DEF PodStep
<1>2. ASSUME NEW p \in Pods, SidecarStep(p) PROVE IInv'
    BY <1>2, InspectInv, DropBinlogInfoInv, EchoChangeMasterInv, CheckInInv,
       WaitForMysqldInv, MoveToOrigInv, ChangeMasterInv, StartSlaveInv
    DEF SidecarStep
<1>3. ASSUME NEW p \in Slaves, CloneStep(p) PROVE IInv'
    BY <1>3, ReceiveNothingInv, ReceiveAllInv, PrepareInv DEF CloneStep
<1>4. ASSUME NEW p \in Pods,
             Write(p) \/ KillMysqld(p) \/ KillSidecar(p) \/ DeletePod(p)
      PROVE  IInv'
    BY <1>4, WriteInv, KillMysqldInv, KillSidecarInv, DeletePodInv
<1>5. ASSUME NEW p \in Slaves,
             Replicate(p) \/ InterruptClone(p) \/ LoseVolume(p)
      PROVE  IInv'
    BY <1>5, ReplicateInv, InterruptCloneInv, LoseVolumeInv
<1>6. CASE UNCHANGED vars
    <2>1. Grows /\ \A q \in Pods : Same(q)
        BY <1>6, BoundAssumption
        DEF IInv, TypeOK, Grows, Same, vars, container, volume, Positions
    <2>2. ASSUME NEW q \in Pods PROVE PodInv(q)'
        BY <2>1, <2>2, SameLemma DEF IInv
    <2>3. TypeOK' /\ Master'
        BY <1>6 DEF IInv, TypeOK, Master, vars, container, volume
    <2> QED
        BY <2>2, <2>3 DEF IInv
<1> QED
    BY <1>1, <1>2, <1>3, <1>4, <1>5, <1>6 DEF Next

THEOREM Invariant == Spec => []IInv
<1>1. Init => IInv
    BY InitInv
<1>2. IInv /\ [Next]_vars => IInv'
    BY NextInv
<1> QED
    BY <1>1, <1>2, PTL DEF Spec

-----------------------------------------------------------------------------
(***************************************************************************)
(* Every variable keeps its type: in particular CHANGE MASTER is never run *)
(* from a file that is missing, which would set the position to None.      *)
(***************************************************************************)
THEOREM TypeCorrect == Spec => []TypeOK
<1>1. IInv => TypeOK
    BY DEF IInv
<1> QED
    BY <1>1, Invariant, PTL

(***************************************************************************)
(* A server with sound tables that replicates holds exactly the log before *)
(* its position, whatever restarts its coordinates went through.           *)
(***************************************************************************)
THEOREM PrefixOfLog == Spec => []ReplicaIsPrefix
<1>1. IInv => ReplicaIsPrefix
    BY DEF IInv, Master, PodInv, Coordinates, Before, ReplicaIsPrefix, Slaves
<1> QED
    BY <1>1, Invariant, PTL

(***************************************************************************)
(* However often and wherever the containers die, a clone is followed by   *)
(* at most one CHANGE MASTER.                                              *)
(***************************************************************************)
THEOREM AtMostOnce == Spec => []AttemptedAtMostOnce
<1>1. IInv => AttemptedAtMostOnce
    BY DEF IInv, PodInv, Once, AttemptedAtMostOnce
<1> QED
    BY <1>1, Invariant, PTL

(***************************************************************************)
(* A step that shrinks the tables of a pod is the clone that replaces      *)
(* them, which only an empty directory receives, or the loss of the volume.*)
(***************************************************************************)
LEMMA KeepsRows ==
    ASSUME IInv, [Next]_vars, NEW q \in Pods,
           dir[q] = "prepared", dir'[q] # "empty"
    PROVE  rows[q] \subseteq rows'[q]
<1>1. ASSUME NEW p \in Pods, PodStep(p) \/ SidecarStep(p) PROVE rows' = rows
    BY <1>1 DEF PodStep, SidecarStep, CreatePod, InitMysql, CloneMysql,
                StartMysqld, Inspect, DropBinlogInfo, EchoChangeMaster, CheckIn,
                WaitForMysqld, MoveToOrig, ChangeMaster, StartSlave, volume
<1>2. ASSUME NEW p \in Pods, KillMysqld(p) \/ KillSidecar(p) \/ DeletePod(p)
      PROVE  rows' = rows
    BY <1>2 DEF KillMysqld, KillSidecar, DeletePod, volume
<1>3. ASSUME NEW p \in Slaves,
             ReceiveNothing(p) \/ Prepare(p) \/ InterruptClone(p)
      PROVE  rows' = rows
    BY <1>3 DEF ReceiveNothing, Prepare, InterruptClone, volume
<1>4. ASSUME NEW p \in Pods, Write(p) \/ Replicate(p)
      PROVE  rows[q] \subseteq rows'[q]
    BY <1>4 DEF Write, Replicate, IInv, TypeOK
<1>5. ASSUME NEW p \in Slaves, ReceiveAll(p) PROVE rows[q] \subseteq rows'[q]
    <2>1. p \in Pods /\ dir[p] = "empty"
        BY <1>5 DEF Slaves, ReceiveAll, InitGoto, IInv, PodInv, Fresh
    <2> QED
        BY <1>5, <2>1 DEF ReceiveAll, IInv, TypeOK
<1>6. ASSUME NEW p \in Slaves, LoseVolume(p) PROVE rows[q] \subseteq rows'[q]
    BY <1>6 DEF LoseVolume, IInv, TypeOK
<1>7. CASE UNCHANGED vars
    BY <1>7 DEF vars, volume
<1> QED
    BY <1>1, <1>2, <1>3, <1>4, <1>5, <1>6, <1>7 DEF Next, CloneStep, Slaves

THEOREM NeverBack == Spec => NeverGoesBack
<1> DEFINE Keeps == \A p \in Pods :
                       dir[p] = "prepared" /\ dir'[p] # "empty"
                           => rows[p] \subseteq rows'[p]
<1>1. IInv /\ [Next]_vars => [Keeps]_vars
    BY KeepsRows
<1> QED
    BY <1>1, Invariant, PTL DEF Spec, NeverGoesBack
=============================================================================
