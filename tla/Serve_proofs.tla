---------------------------- MODULE Serve_proofs ----------------------------
(***************************************************************************)
(* Proofs about Serve, for any clients, payments, backups and settings:    *)
(* the store redeems a payment once for each loss of its file and once     *)
(* besides, and the rate limiter lets in who waited and less than twice    *)
(* its maximum.                                                            *)
(***************************************************************************)
EXTENDS Serve, Integers, TLAPS

-----------------------------------------------------------------------------
(* The store *)

\* What a step may do to the files.
FilesStep ==
  \/ UNCHANGED files
  \/ CloseLast /\ UNCHANGED <<backup, granted, losses>>
  \/ \E p \in Payments : Redeem(p)
  \/ LosePower
  \/ Checkpoint
  \/ \E b \in Backups, running \in BOOLEAN : Backup(b, running)
  \/ \E b \in Backups : Restore(b)

LEMMA StepsOfFiles == [Next]_vars => FilesStep
  <1> SUFFICES ASSUME [Next]_vars PROVE FilesStep
    OBVIOUS
  <1> USE DEF FilesStep, files
  <1>1. CASE UNCHANGED vars
    BY <1>1 DEF vars
  <1>2. CASE Start
    BY <1>2 DEF Start, LeaveStore
  <1>3. ASSUME NEW r \in Requests, NEW c \in Clients, NEW o \in BOOLEAN, Arrive(r, c, o)
        PROVE  FilesStep
    BY <1>3 DEF Arrive
  <1>4. ASSUME NEW r \in Requests, ArriveClosing(r) \/ TurnAway(r) \/ Deliver(r) PROVE FilesStep
    BY <1>4 DEF ArriveClosing, TurnAway, Deliver
  <1>5. ASSUME NEW r \in Requests, NEW p \in Payments, Consume(r, p) PROVE FilesStep
    BY <1>5 DEF Consume
  <1>6. ASSUME NEW s \in Signals, Signal(s) \/ OtherSignal(s) \/ Killed(s) PROVE FilesStep
    BY <1>6 DEF Signal, OtherSignal, Killed
  <1>7. CASE Drained \/ GraceElapsed
    BY <1>7 DEF Drained, GraceElapsed, LeaveStore
  <1>8. CASE Crash \/ PowerCut \/ Tick
    BY <1>8 DEF Crash, PowerCut, Tick
  <1>9. CASE Store
    <2>1. Running \in BOOLEAN
      BY DEF Running
    <2>2. CASE \E b \in Backups : Backup(b, Running)
      BY <2>1, <2>2
    <2>3. CASE Inspect(Running)
      BY <2>3 DEF Inspect, Closes
    <2>4. CASE \E b \in Backups : Restore(b)
      BY <2>4
    <2> QED BY <1>9, <2>2, <2>3, <2>4 DEF Store
  <1>10. CASE BootstrapStep /\ UNCHANGED <<files, limiter, req, shutdown>>
    BY <1>10
  <1> QED
    BY <1>1, <1>2, <1>3, <1>4, <1>5, <1>6, <1>7, <1>8, <1>9, <1>10 DEF Next

\* A payment was redeemed at most once for each loss, and once more only while its
\* row is there: without the second conjunct nothing would keep Redeem out.
LossesPay ==
  /\ main \subseteq Payments
  /\ wal \in Seq(Payments)
  /\ \A b \in Backups : backup[b] = Missing \/ backup[b] \subseteq Payments
  /\ granted \in [Payments -> Nat]
  /\ losses \in Nat
  /\ \A p \in Payments : granted[p] <= 1 + losses
  /\ \A p \in Payments : p \notin Rows => granted[p] <= losses

\* A checkpoint and the last close keep the rows.
LEMMA CheckpointedRows ==
  ASSUME main' = Rows, wal' = <<>>
  PROVE  Rows' = Rows
  BY DEF Rows, Committed

LEMMA AppendedRows ==
  ASSUME NEW p \in Payments, wal \in Seq(Payments), wal' = Append(wal, p), UNCHANGED main
  PROVE  Rows' = Rows \cup {p}
  <1>1. /\ Len(wal) \in Nat
        /\ Len(wal') = Len(wal) + 1
        /\ wal'[Len(wal) + 1] = p
        /\ \A i \in 1 .. Len(wal) : wal'[i] = wal[i]
    OBVIOUS
  <1>2. 1 .. Len(wal') = (1 .. Len(wal)) \cup {Len(wal) + 1}
    BY <1>1
  <1>3. Committed(Len(wal))' = Committed(Len(wal)) \cup {p}
    BY <1>1, <1>2 DEF Committed
  <1> QED BY <1>3 DEF Rows

LEMMA RowsArePayments ==
  ASSUME main \subseteq Payments, wal \in Seq(Payments)
  PROVE  Rows \subseteq Payments
  BY DEF Rows, Committed

LEMMA LossesPayInitially == Init => LossesPay
  <1> SUFFICES ASSUME Init PROVE LossesPay
    OBVIOUS
  <1> USE DEF Init, FilesInit
  <1>1. losses = 0 /\ granted = [p \in Payments |-> 0]
    OBVIOUS
  <1>2. \A b \in Backups : backup[b] = Missing
    OBVIOUS
  <1> QED BY <1>1, <1>2 DEF LossesPay

\* A step that keeps the rows and the counts keeps the invariant.
LEMMA RowsKept ==
  ASSUME LossesPay, Rows' = Rows, main' \subseteq Payments, wal' \in Seq(Payments),
         \A b \in Backups : backup'[b] = Missing \/ backup'[b] \subseteq Payments,
         UNCHANGED <<granted, losses>>
  PROVE  LossesPay'
  BY DEF LossesPay

\* A loss pays for every row it may have taken.
LEMMA LossPaid ==
  ASSUME LossesPay, main' \subseteq Payments, wal' \in Seq(Payments), losses' = losses + 1,
         UNCHANGED <<backup, granted>>
  PROVE  LossesPay'
  <1>1. \A p \in Payments : granted'[p] <= losses'
    BY DEF LossesPay
  <1>2. \A p \in Payments : granted'[p] <= 1 + losses'
    BY <1>1 DEF LossesPay
  <1> QED BY <1>1, <1>2 DEF LossesPay

LEMMA LossesPayInductive == LossesPay /\ [Next]_vars => LossesPay'
  <1> SUFFICES ASSUME LossesPay, FilesStep PROVE LossesPay'
    BY StepsOfFiles
  <1>0. /\ Rows \subseteq Payments
        /\ <<>> \in Seq(Payments)
    BY RowsArePayments DEF LossesPay
  <1>1. CASE UNCHANGED files
    BY <1>1 DEF files, LossesPay, Rows, Committed
  <1>2. CASE CloseLast /\ UNCHANGED <<backup, granted, losses>>
    BY <1>0, <1>2, CheckpointedRows, RowsKept DEF CloseLast, LossesPay
  <1>3. ASSUME NEW p \in Payments, Redeem(p) PROVE LossesPay'
    <2>1. Rows' = Rows \cup {p}
      BY <1>3, AppendedRows DEF Redeem, LossesPay
    <2>2. /\ wal' \in Seq(Payments)
          /\ UNCHANGED <<main, backup, losses>>
          /\ p \notin Rows
      BY <1>3 DEF Redeem, LossesPay
    <2>3. /\ granted' \in [Payments -> Nat]
          /\ granted'[p] <= 1 + losses
          /\ \A q \in Payments : q # p => granted'[q] = granted[q]
      BY <1>3 DEF Redeem, LossesPay
    <2> QED BY <2>1, <2>2, <2>3 DEF LossesPay
  <1>4. CASE LosePower
    <2>1. PICK n \in 0 .. Len(wal) :
            /\ wal' = SubSeq(wal, 1, n)
            /\ losses' = IF n < Len(wal) THEN losses + 1 ELSE losses
      BY <1>4 DEF LosePower
    <2>2. UNCHANGED <<main, backup, granted>> /\ main \subseteq Payments /\ wal \in Seq(Payments)
      BY <1>4 DEF LosePower, LossesPay
    <2>3. wal' \in Seq(Payments)
      BY <2>1, <2>2
    <2>4. CASE n < Len(wal)
      BY <2>1, <2>2, <2>3, <2>4, LossPaid
    <2>5. CASE ~(n < Len(wal))
      <3>1. n = Len(wal)
        BY <2>2, <2>5
      <3>2. wal' = wal
        BY <2>1, <2>2, <3>1
      <3> QED BY <2>1, <2>2, <2>5, <3>2, RowsKept DEF Rows, Committed, LossesPay
    <2> QED BY <2>4, <2>5
  <1>5. CASE Checkpoint
    BY <1>0, <1>5, CheckpointedRows, RowsKept DEF Checkpoint, LossesPay
  <1>6. ASSUME NEW b \in Backups, NEW running \in BOOLEAN, Backup(b, running) PROVE LossesPay'
    <2>1. /\ backup' = [backup EXCEPT ![b] = Rows]
          /\ UNCHANGED <<granted, losses>>
          /\ Closes(running)
      BY <1>6 DEF Backup
    <2>2. \A c \in Backups : backup'[c] = Missing \/ backup'[c] \subseteq Payments
      BY <1>0, <2>1 DEF LossesPay
    <2>3. CASE UNCHANGED <<main, wal, hot>>
      BY <2>1, <2>2, <2>3, RowsKept DEF LossesPay, Rows, Committed
    <2>4. CASE CloseLast
      BY <1>0, <2>1, <2>2, <2>4, CheckpointedRows, RowsKept DEF CloseLast
    <2> QED BY <2>1, <2>3, <2>4 DEF Closes
  <1>7. ASSUME NEW b \in Backups, Restore(b) PROVE LossesPay'
    <2>1. backup[b] # Missing /\ backup[b] \subseteq Payments
      BY <1>7 DEF Restore, LossesPay
    <2>2. main' \subseteq Payments
      BY <1>0, <1>7, <2>1 DEF Restore
    <2> QED BY <1>0, <1>7, <2>2, LossPaid DEF Restore
  <1> QED BY <1>1, <1>2, <1>3, <1>4, <1>5, <1>6, <1>7 DEF FilesStep

\* The file remembers: whatever the gateway, its clients, a power cut and the operator
\* do, a payment is redeemed once, and once more at most for each restore and each power
\* cut that lost a commit (consumeRedemption, backupSqliteStore, restoreSqliteStore).
THEOREM RedemptionsCostLosses == Spec => []RedeemedOncePerLoss
  <1>1. LossesPay => RedeemedOncePerLoss
    BY DEF LossesPay, RedeemedOncePerLoss
  <1> QED BY <1>1, LossesPayInitially, LossesPayInductive, PTL DEF Spec

\* Until a loss, the rows are the payments that were redeemed.
RowsAreGrants ==
  /\ LossesPay
  /\ losses = 0 => \A p \in Payments : p \in Rows <=> granted[p] > 0

LEMMA RowsAreGrantsInductive == RowsAreGrants /\ [Next]_vars => RowsAreGrants'
  <1> SUFFICES ASSUME RowsAreGrants, [Next]_vars, losses' = 0, NEW p \in Payments
               PROVE  p \in Rows' <=> granted'[p] > 0
    BY LossesPayInductive DEF RowsAreGrants
  <1>1. /\ LossesPay
        /\ losses \in Nat
        /\ granted \in [Payments -> Nat]
        /\ losses = 0 => (p \in Rows <=> granted[p] > 0)
    BY DEF RowsAreGrants, LossesPay
  <1>2. CASE losses = 0 /\ Rows' = Rows /\ UNCHANGED granted
    BY <1>1, <1>2
  <1>3. CASE UNCHANGED files
    BY <1>2, <1>3 DEF files, Rows, Committed
  <1>4. CASE CloseLast /\ UNCHANGED <<backup, granted, losses>>
    BY <1>2, <1>4, CheckpointedRows DEF CloseLast
  <1>5. ASSUME NEW q \in Payments, Redeem(q) PROVE p \in Rows' <=> granted'[p] > 0
    <2>1. Rows' = Rows \cup {q} /\ losses = 0
      BY <1>1, <1>5, AppendedRows DEF Redeem, LossesPay
    <2>2. granted' = [granted EXCEPT ![q] = @ + 1]
      BY <1>5 DEF Redeem
    <2> QED BY <1>1, <2>1, <2>2
  <1>6. CASE LosePower
    <2>1. PICK n \in 0 .. Len(wal) :
            /\ wal' = SubSeq(wal, 1, n)
            /\ losses' = IF n < Len(wal) THEN losses + 1 ELSE losses
      BY <1>6 DEF LosePower
    <2>2. wal \in Seq(Payments) /\ Len(wal) \in Nat
      BY <1>1 DEF LossesPay
    <2>3. n = Len(wal) /\ losses = 0
      BY <1>1, <2>1, <2>2
    <2>4. wal' = wal
      BY <2>1, <2>2, <2>3
    <2> QED BY <1>2, <1>6, <2>3, <2>4 DEF LosePower, Rows, Committed
  <1>7. CASE Checkpoint
    BY <1>2, <1>7, CheckpointedRows DEF Checkpoint
  <1>8. ASSUME NEW b \in Backups, NEW running \in BOOLEAN, Backup(b, running)
        PROVE  p \in Rows' <=> granted'[p] > 0
    <2>1. Closes(running) /\ UNCHANGED <<granted, losses>>
      BY <1>8 DEF Backup
    <2>2. CASE UNCHANGED <<main, wal, hot>>
      BY <1>2, <2>1, <2>2 DEF Rows, Committed
    <2>3. CASE CloseLast
      BY <1>2, <2>1, <2>3, CheckpointedRows DEF CloseLast
    <2> QED BY <2>1, <2>2, <2>3 DEF Closes
  <1>9. ASSUME NEW b \in Backups, Restore(b) PROVE p \in Rows' <=> granted'[p] > 0
    BY <1>1, <1>9 DEF Restore
  <1> QED
    BY <1>3, <1>4, <1>5, <1>6, <1>7, <1>8, <1>9, StepsOfFiles DEF FilesStep

\* A backup made before any loss has every redemption made until then, those of the -wal
\* file and of a running gateway included (backupSqliteStore: VACUUM INTO).
THEOREM BackupsAreComplete == Spec => BackupIsComplete
  <1> DEFINE Complete == losses = 0 => \A b \in Backups : backup'[b] # backup[b] =>
                             backup'[b] = {p \in Payments : granted[p] > 0}
  <1>1. RowsAreGrants /\ [Next]_vars => Complete
    <2> SUFFICES ASSUME RowsAreGrants, [Next]_vars, losses = 0,
                        NEW b \in Backups, backup'[b] # backup[b]
                 PROVE  backup'[b] = {p \in Payments : granted[p] > 0}
      OBVIOUS
    <2>1. PICK d \in Backups, running \in BOOLEAN : Backup(d, running)
      BY StepsOfFiles DEF FilesStep, files, Redeem, LosePower, Checkpoint, Restore
    <2>2. backup'[b] = Rows
      BY <2>1 DEF Backup
    <2>3. Rows \subseteq Payments
      BY RowsArePayments DEF RowsAreGrants, LossesPay
    <2> QED BY <2>2, <2>3 DEF RowsAreGrants
  <1>2. Init => RowsAreGrants
    <2> SUFFICES ASSUME Init PROVE RowsAreGrants
      OBVIOUS
    <2>1. Rows = {}
      BY DEF Init, FilesInit, Rows, Committed
    <2>2. \A p \in Payments : ~(granted[p] > 0)
      BY DEF Init, FilesInit
    <2> QED BY <2>1, <2>2, LossesPayInitially DEF RowsAreGrants
  <1>3. RowsAreGrants /\ [Next]_vars => [Complete]_files
    BY <1>1
  <1> QED BY <1>2, <1>3, RowsAreGrantsInductive, PTL DEF Spec, BackupIsComplete

-----------------------------------------------------------------------------
(* The doctor and the start *)

\* What a step may do to the commands and to what they look at.
LEMMA StepsOfBootstrap ==
  [Next]_vars =>
    \/ UNCHANGED bootstrap /\ (proc = "off" => proc' = "off")
    \/ BootstrapStep
    \/ Starts
    \/ /\ probe["serve"] = None
       /\ probe' = [who \in DOMAIN probe |-> None]
       /\ said' = None
       /\ UNCHANGED <<config, node, changes>>
  <1> DEFINE CommandStep ==
        \/ UNCHANGED bootstrap /\ (proc = "off" => proc' = "off")
        \/ BootstrapStep
        \/ Starts
        \/ /\ probe["serve"] = None
           /\ probe' = [who \in DOMAIN probe |-> None]
           /\ said' = None
           /\ UNCHANGED <<config, node, changes>>
  <1> SUFFICES ASSUME [Next]_vars PROVE CommandStep
    OBVIOUS
  <1>1. CASE UNCHANGED vars
    BY <1>1 DEF vars
  <1>2. CASE Start
    BY <1>2 DEF Start
  <1>3. ASSUME NEW r \in Requests, NEW c \in Clients, NEW o \in BOOLEAN, Arrive(r, c, o)
        PROVE  CommandStep
    BY <1>3 DEF Arrive
  <1>4. ASSUME NEW r \in Requests, ArriveClosing(r) \/ TurnAway(r) \/ Deliver(r) PROVE CommandStep
    BY <1>4 DEF ArriveClosing, TurnAway, Deliver
  <1>5. ASSUME NEW r \in Requests, NEW p \in Payments, Consume(r, p) PROVE CommandStep
    BY <1>5 DEF Consume
  <1>6. ASSUME NEW s \in Signals, Signal(s) \/ OtherSignal(s) \/ Killed(s) PROVE CommandStep
    BY <1>6 DEF Signal, OtherSignal, Killed, Gone
  <1>7. CASE Drained \/ GraceElapsed \/ Crash \/ Tick
    BY <1>7 DEF Drained, GraceElapsed, Crash, Tick, Gone
  <1>8. CASE PowerCut
    BY <1>8 DEF PowerCut
  <1>9. CASE Store
    BY <1>9 DEF Store
  <1>10. CASE BootstrapStep /\ UNCHANGED <<files, limiter, req, shutdown>>
    BY <1>10
  <1>11. CASE Checkpoint /\ UNCHANGED <<bootstrap, proc, limiter, req, shutdown>>
    BY <1>11
  <1> QED
    BY <1>1, <1>2, <1>3, <1>4, <1>5, <1>6, <1>7, <1>8, <1>9, <1>10, <1>11 DEF Next

\* While nothing changed, a command has read what is there, and has found what a node
\* that is what it is makes it find.
CommandKnows(q) ==
  /\ q.at = "report" \/ q.at \in Rpcs
  /\ ~q.stale =>
       /\ q.plain => q.read = config
       /\ q.at \in {"report", "node_info"} => ~q.blocked
       /\ q.at = "list_peers" => ~q.blocked /\ "node_info" \notin node
       /\ q.at = "list_channels" => /\ q.blocked <=> "list_peers" \in node
                                    /\ "node_info" \notin node

\* What the doctor said is what it would say now.
SaidHolds ==
  /\ said = "ready" => ~DoctorBlocks(config) /\ node = {}
  /\ said = "blocked" => DoctorBlocks(config) \/ node # {}

BootstrapOK ==
  /\ config \in Configs
  /\ node \in NodeStates
  /\ probe \in [{"doctor", "serve"} -> Command \cup {None}]
  /\ \A who \in {"doctor", "serve"} : probe[who] # None => CommandKnows(probe[who])
  /\ probe["doctor"] # None =>
         /\ probe["doctor"].plain
         /\ probe["doctor"].at # "report" => ~DoctorBlocks(probe["doctor"].read)
  /\ probe["serve"] # None /\ probe["serve"].at # "report" => ~ServeBlocks(probe["serve"].read)
  /\ probe["serve"] # None => proc = "off"
  /\ SaidHolds

LEMMA BootstrapInitially == Init => BootstrapOK
  BY NoneAssumption DEF Init, BootstrapInit, BootstrapOK, SaidHolds

\* Which values a question leaves.
LEMMA AskedKnows ==
  ASSUME BootstrapOK, NEW q \in Command, CommandKnows(q), q.at # "report", ~Last(q)
  PROVE  /\ Asked(q) \in Command
         /\ CommandKnows(Asked(q))
         /\ Asked(q).at # "report"
         /\ Asked(q).read = q.read /\ Asked(q).plain = q.plain
  BY DEF Asked, Blocked, Last, Rejected, Command, CommandKnows, Rpcs

\* At the last question a command knows the node, when nothing changed.
LEMMA LastKnows ==
  ASSUME BootstrapOK, NEW q \in Command, CommandKnows(q), q.at # "report", Last(q), ~q.stale
  PROVE  Blocked(q) <=> node # {}
  <1>1. node \subseteq Rpcs
    BY NodesAssumption DEF BootstrapOK
  <1>2. CASE q.at = "list_channels"
    BY <1>1, <1>2 DEF Blocked, Rejected, CommandKnows, Rpcs
  <1>3. CASE q.at = "node_info" /\ "node_info" \in node
    BY <1>3 DEF Blocked, Rejected
  <1> QED BY <1>2, <1>3 DEF Last, Rejected

LEMMA BootstrapInductive == BootstrapOK /\ [Next]_vars => BootstrapOK'
  <1> SUFFICES ASSUME BootstrapOK, [Next]_vars PROVE BootstrapOK'
    OBVIOUS
  <1>1. CASE UNCHANGED bootstrap /\ (proc = "off" => proc' = "off")
    BY <1>1 DEF bootstrap, BootstrapOK, CommandKnows, SaidHolds
  <1> USE NoneAssumption
  <1>2. CASE Starts
    BY <1>2 DEF Starts, BootstrapOK, SaidHolds
  <1>3. CASE /\ probe' = [who \in DOMAIN probe |-> None]
             /\ said' = None
             /\ UNCHANGED <<config, node, changes>>
    BY <1>3 DEF BootstrapOK, SaidHolds
  <1>4. CASE Doctor
    <2>1. Begun(config, TRUE) \in Command /\ CommandKnows(Begun(config, TRUE))
      BY ConfigsAssumption DEF Begun, Command, CommandKnows, BootstrapOK
    <2>2. Begun(config, TRUE).plain /\ Begun(config, TRUE).at = "report"
      BY DEF Begun
    <2> QED BY <1>4, <2>1, <2>2 DEF Doctor, Goes, BootstrapOK, SaidHolds, CommandKnows
  <1>5. CASE DoctorReports
    <2> DEFINE q == probe["doctor"]
               p == [q EXCEPT !.at = "node_info"]
    <2>1. /\ q \in Command /\ CommandKnows(q) /\ q.plain /\ q.at = "report"
          /\ UNCHANGED <<config, node, proc>>
      BY <1>5 DEF DoctorReports, BootstrapOK
    <2>2. CASE DoctorBlocks(q.read)
      <3>1. probe' = [probe EXCEPT !["doctor"] = None]
        BY <1>5, <2>2 DEF DoctorReports, Goes
      <3>2. said' = IF q.stale THEN None ELSE "blocked"
        BY <1>5, <2>2 DEF DoctorReports, Report
      <3>3. ~q.stale => DoctorBlocks(config)
        BY <2>1, <2>2 DEF CommandKnows
      <3> QED BY <2>1, <3>1, <3>2, <3>3 DEF BootstrapOK, SaidHolds, CommandKnows, DoctorBlocks
    <2>3. CASE ~DoctorBlocks(q.read)
      <3>1. probe' = [probe EXCEPT !["doctor"] = p] /\ UNCHANGED said
        BY <1>5, <2>3 DEF DoctorReports, Goes
      <3>2. p \in Command /\ CommandKnows(p) /\ p.plain /\ p.read = q.read
        BY <2>1 DEF Command, CommandKnows, Rpcs
      <3> HIDE DEF p
      <3> QED BY <2>1, <2>3, <3>1, <3>2 DEF BootstrapOK, SaidHolds, CommandKnows, DoctorBlocks
    <2> QED BY <2>2, <2>3
  <1>6. CASE DoctorAsks
    <2> DEFINE q == probe["doctor"]
    <2>1. /\ q \in Command /\ CommandKnows(q) /\ q.plain /\ q.at # "report"
          /\ ~DoctorBlocks(q.read)
          /\ UNCHANGED <<config, node, proc>>
      BY <1>6 DEF DoctorAsks, BootstrapOK
    <2>2. CASE Last(q)
      <3>1. probe' = [probe EXCEPT !["doctor"] = None]
        BY <1>6, <2>2 DEF DoctorAsks, Goes
      <3>2. said' = IF q.stale THEN None ELSE IF Blocked(q) THEN "blocked" ELSE "ready"
        BY <1>6, <2>2 DEF DoctorAsks, Report
      <3>3. ~q.stale => ~DoctorBlocks(config) /\ (Blocked(q) <=> node # {})
        BY <2>1, <2>2, LastKnows DEF CommandKnows
      <3> QED BY <2>1, <3>1, <3>2, <3>3 DEF BootstrapOK, SaidHolds, CommandKnows, DoctorBlocks
    <2>3. CASE ~Last(q)
      <3>1. probe' = [probe EXCEPT !["doctor"] = Asked(q)] /\ UNCHANGED said
        BY <1>6, <2>3 DEF DoctorAsks, Goes
      <3>2. /\ Asked(q) \in Command /\ CommandKnows(Asked(q))
            /\ Asked(q).plain /\ Asked(q).read = q.read
        BY <2>1, <2>3, AskedKnows
      <3> QED BY <2>1, <3>1, <3>2 DEF BootstrapOK, SaidHolds, CommandKnows, DoctorBlocks
    <2> QED BY <2>2, <2>3
  <1>7. ASSUME NEW options \in OptionSets, Serve(options) PROVE BootstrapOK'
    <2> DEFINE q == Begun(Effective(config, options), options = {})
    <2>1. q \in Command /\ q.at = "report"
      BY ConfigsAssumption DEF Begun, Effective, Command, BootstrapOK
    <2>2. CommandKnows(q)
      <3>1. options = {} => Effective(config, options) = config
        BY DEF Effective
      <3> QED BY <3>1 DEF Begun, CommandKnows
    <2>3. /\ probe' = [probe EXCEPT !["serve"] = q]
          /\ proc = "off" /\ UNCHANGED <<config, node, said, proc>>
      BY <1>7 DEF Serve, Goes
    <2> HIDE DEF q
    <2> QED BY <2>1, <2>2, <2>3 DEF BootstrapOK, SaidHolds, CommandKnows, DoctorBlocks
  <1>8. CASE ServeReports
    <2> DEFINE q == probe["serve"]
               p == [q EXCEPT !.at = "node_info"]
    <2>1. /\ q \in Command /\ CommandKnows(q) /\ q.at = "report"
          /\ UNCHANGED <<config, node, said, proc>>
      BY <1>8 DEF ServeReports, BootstrapOK
    <2>2. /\ ServeBlocks(q.read) => probe' = [probe EXCEPT !["serve"] = None]
          /\ ~ServeBlocks(q.read) => probe' = [probe EXCEPT !["serve"] = p]
      BY <1>8 DEF ServeReports, Goes
    <2>3. p \in Command /\ CommandKnows(p) /\ p.read = q.read
      BY <2>1 DEF Command, CommandKnows, Rpcs
    <2> HIDE DEF p
    <2> QED BY <2>1, <2>2, <2>3 DEF BootstrapOK, SaidHolds, CommandKnows, DoctorBlocks, ServeBlocks
  <1>9. CASE ServeAsks
    <2> DEFINE q == probe["serve"]
    <2>1. /\ q \in Command /\ CommandKnows(q) /\ q.at # "report" /\ ~ServeBlocks(q.read)
          /\ UNCHANGED <<config, node, said, proc>>
      BY <1>9 DEF ServeAsks, BootstrapOK
    <2>2. /\ Last(q) => probe' = [probe EXCEPT !["serve"] = None]
          /\ ~Last(q) => probe' = [probe EXCEPT !["serve"] = Asked(q)]
      BY <1>9 DEF ServeAsks, Goes
    <2>3. ~Last(q) => Asked(q) \in Command /\ CommandKnows(Asked(q)) /\ Asked(q).read = q.read
      BY <2>1, AskedKnows
    <2> QED BY <2>1, <2>2, <2>3 DEF BootstrapOK, SaidHolds, CommandKnows, DoctorBlocks, ServeBlocks
  <1>10. CASE Edit \/ NodeChanges
    <2>1. /\ config' \in Configs /\ node' \in NodeStates
          /\ said' = None /\ UNCHANGED proc
          /\ probe' = [who \in DOMAIN probe |-> IF probe[who] = None THEN None
                                                ELSE [probe[who] EXCEPT !.stale = TRUE]]
      BY <1>10 DEF Edit, NodeChanges, Change, BootstrapOK
    <2>2. ASSUME NEW who \in {"doctor", "serve"}, probe[who] # None
          PROVE  /\ probe'[who] \in Command
                 /\ CommandKnows(probe[who])'
                 /\ probe'[who].at = probe[who].at /\ probe'[who].read = probe[who].read
                 /\ probe'[who].plain = probe[who].plain
      <3>1. probe'[who] = [probe[who] EXCEPT !.stale = TRUE] /\ probe[who] \in Command
        BY <2>1, <2>2 DEF BootstrapOK
      <3> QED BY <2>2, <3>1 DEF Command, CommandKnows, BootstrapOK
    <2>3. \A who \in {"doctor", "serve"} : probe[who] = None => probe'[who] = None
      BY <2>1 DEF BootstrapOK
    <2>4. probe' \in [{"doctor", "serve"} -> Command \cup {None}]
      BY <2>1, <2>2, <2>3 DEF BootstrapOK
    <2> QED BY <2>1, <2>2, <2>3, <2>4 DEF BootstrapOK, SaidHolds
  <1> QED
    BY <1>1, <1>2, <1>3, <1>4, <1>5, <1>6, <1>7, <1>8, <1>9, <1>10, StepsOfBootstrap
       DEF BootstrapStep

\* A doctor's verdict on a configuration and a node that did not change since is the
\* verdict of the start, but for what the doctor does not look at and what the start
\* completes (doctorReport, resolveGatewayConfig, assertGatewayRpcReady).
THEOREM DoctorKnows == Spec => DoctorAgrees
  <1> DEFINE q == probe["serve"]
             Agrees == q # None /\ probe'["serve"] = None /\ q.plain /\ ~q.stale =>
                         /\ said = "ready" /\ proc' = "off" => q.read \cap Unseen # {}
                         /\ said = "blocked" /\ proc' = "up" => "plainPath" \in q.read
  <1>1. BootstrapOK /\ [Next]_vars => Agrees
    <2> SUFFICES ASSUME BootstrapOK, [Next]_vars, q # None, probe'["serve"] = None,
                        q.plain, ~q.stale
                 PROVE  /\ said = "ready" /\ proc' = "off" => q.read \cap Unseen # {}
                        /\ said = "blocked" /\ proc' = "up" => "plainPath" \in q.read
      OBVIOUS
    <2>1. q \in Command /\ CommandKnows(q) /\ q.read = config /\ SaidHolds
      BY DEF BootstrapOK, CommandKnows
    <2>2. q.read \subseteq Defects
      BY <2>1 DEF Command
    <2>3. CASE Starts
      <3>1. /\ q.at # "report" /\ node = {}
            /\ proc' = IF q.read \cap StartDefects # {} THEN "off" ELSE "up"
        BY <2>1, <2>3, LastKnows DEF Starts, Last
      <3>2. ~ServeBlocks(q.read)
        BY <3>1 DEF BootstrapOK
      <3> QED BY <2>1, <3>1, <3>2 DEF SaidHolds, DoctorBlocks, ServeBlocks, Unseen
    <2>4. CASE ServeReports
      <3>1. ServeBlocks(q.read) /\ proc' = "off"
        <4>1. q.at = "report" /\ [q EXCEPT !.at = "node_info"] \in Command
          BY <2>1, <2>4 DEF ServeReports, Command, Rpcs
        <4> QED BY <2>4, <4>1, NoneAssumption DEF ServeReports, Goes, BootstrapOK
      <3> QED BY <2>1, <2>2, <3>1 DEF SaidHolds, DoctorBlocks, ServeBlocks, Unseen, Defects
    <2>5. CASE ServeAsks
      <3>1. q.at # "report" /\ Last(q) /\ Blocked(q) /\ proc' = "off"
        <4>1. q.at # "report" /\ (~Last(q) => Asked(q) \in Command)
          BY <2>1, <2>5, AskedKnows DEF ServeAsks
        <4> QED BY <2>5, <4>1, NoneAssumption DEF ServeAsks, Goes, BootstrapOK
      <3>2. node # {}
        BY <2>1, <3>1, LastKnows
      <3> QED BY <2>1, <3>1, <3>2 DEF SaidHolds
    <2>6. ASSUME UNCHANGED probe["serve"] PROVE FALSE
      BY <2>6
    <2>7. CASE Doctor \/ DoctorReports \/ DoctorAsks
      BY <2>6, <2>7 DEF Doctor, DoctorReports, DoctorAsks, Goes, BootstrapOK
    <2>8. ASSUME NEW options \in OptionSets, Serve(options) PROVE FALSE
      BY <2>8 DEF Serve
    <2>9. CASE Edit \/ NodeChanges
      <3>1. probe'["serve"] = [q EXCEPT !.stale = TRUE] /\ [q EXCEPT !.stale = TRUE] \in Command
        BY <2>1, <2>9 DEF Edit, NodeChanges, Change, BootstrapOK, Command
      <3> QED BY <3>1, NoneAssumption
    <2>10. CASE UNCHANGED bootstrap
      BY <2>6, <2>10 DEF bootstrap
    <2> QED
      BY <2>3, <2>4, <2>5, <2>7, <2>8, <2>9, <2>10, StepsOfBootstrap DEF BootstrapStep
  <1> QED BY <1>1, BootstrapInitially, BootstrapInductive, PTL DEF Spec, DoctorAgrees

-----------------------------------------------------------------------------
(* The rate limiter *)

\* What a step may do to the limiter.
LEMMA StepsOfLimiter ==
  [Next]_vars =>
    \/ UNCHANGED limiter
    \/ NothingKnown
    \/ \E r \in Requests, c \in Clients, o \in BOOLEAN : Arrive(r, c, o)
    \/ Tick
  <1> DEFINE LimiterStep ==
        \/ UNCHANGED limiter
        \/ NothingKnown
        \/ \E r \in Requests, c \in Clients, o \in BOOLEAN : Arrive(r, c, o)
        \/ Tick
  <1> SUFFICES ASSUME [Next]_vars PROVE LimiterStep
    OBVIOUS
  <1>1. CASE UNCHANGED vars
    BY <1>1 DEF vars
  <1>2. CASE Start
    BY <1>2 DEF Start
  <1>3. ASSUME NEW r \in Requests, NEW c \in Clients, NEW o \in BOOLEAN, Arrive(r, c, o)
        PROVE  LimiterStep
    BY <1>3
  <1>4. ASSUME NEW r \in Requests, ArriveClosing(r) \/ TurnAway(r) \/ Deliver(r) PROVE LimiterStep
    BY <1>4 DEF ArriveClosing, TurnAway, Deliver
  <1>5. ASSUME NEW r \in Requests, NEW p \in Payments, Consume(r, p) PROVE LimiterStep
    BY <1>5 DEF Consume
  <1>6. ASSUME NEW s \in Signals, Signal(s) \/ OtherSignal(s) \/ Killed(s) PROVE LimiterStep
    BY <1>6 DEF Signal, OtherSignal, Killed, Gone
  <1>7. CASE Drained \/ GraceElapsed \/ Crash \/ PowerCut
    BY <1>7 DEF Drained, GraceElapsed, Crash, PowerCut, Gone
  <1>8. CASE Tick
    BY <1>8
  <1>9. CASE Store
    BY <1>9 DEF Store
  <1>10. CASE BootstrapStep /\ UNCHANGED <<files, limiter, req, shutdown>>
    BY <1>10
  <1>11. CASE Checkpoint /\ UNCHANGED <<bootstrap, proc, limiter, req, shutdown>>
    BY <1>11
  <1> QED
    BY <1>1, <1>2, <1>3, <1>4, <1>5, <1>6, <1>7, <1>8, <1>9, <1>10, <1>11 DEF Next

Windows == [left : 0 .. Window, count : 0 .. Max + 1]

\* A span of admissions against the window it meets: begun in this window, or in the
\* one before, whose first request it missed.
SpanFits(span, w) ==
  /\ span \in [left : 1 .. Window, n : Nat]
  /\ w.left = 0 => span.left < Window /\ span.n <= Max - 1
  /\ 0 < w.left /\ w.left < span.left => span.n <= Max - 1 /\ span.n <= w.count - 1
  /\ w.left = span.left => span.n <= Max /\ span.n <= w.count
  /\ w.left > span.left => span.n <= Max - 1 + w.count /\ span.n <= Max - 1 + Max

\* Who was told to wait waits for the end of the window; an open window has counted
\* the request that opened it.
LimiterOK ==
  /\ windows \in [Clients -> Windows]
  /\ \A c \in Clients : windows[c].left > 0 => windows[c].count >= 1
  /\ told \in [Clients -> Nat \cup {None}]
  /\ \A c \in Clients : told[c] # None => windows[c].left <= told[c]
  /\ meter # None => SpanFits(meter, windows[Observed])

LEMMA Numbers ==
  /\ Second \in Nat /\ Second >= 1
  /\ Window \in Nat /\ Window >= 1
  /\ Max \in Nat /\ Max >= 1
  BY LimitsAssumption

\* Counting opens a window or adds to it.
LEMMA CountedWindow ==
  ASSUME NEW w \in Windows
  PROVE  /\ Counted(w) \in Windows
         /\ w.left = 0 => Counted(w).left = Window /\ Counted(w).count = 1
         /\ w.left > 0 => /\ Counted(w).left = w.left
                          /\ Counted(w).count >= w.count
                          /\ Counted(w).count <= Max => Counted(w).count = w.count + 1
  BY Numbers DEF Counted, Windows

\* Whole seconds, rounded up, cover the ticks.
LEMMA SecondsCover ==
  ASSUME NEW t \in Nat
  PROVE  /\ Second * RetryAfter(t) \in Nat
         /\ t <= Second * RetryAfter(t)
  <1>1. CASE t < Second
    BY <1>1, Numbers DEF RetryAfter
  <1>2. CASE t >= Second
    <2> DEFINE d == t + Second - 1
               q == d \div Second
    <2>1. d \in Nat /\ d >= Second
      BY <1>2, Numbers
    <2> HIDE DEF d
    <2>2. q \in Int /\ q * Second <= d /\ d < q * Second + Second
      BY <2>1, Numbers, SMTT(60)
    <2>3. q >= 1
      BY <2>1, <2>2, Numbers, SMTT(60)
    <2>4. Second * q = q * Second /\ q * Second \in Nat
      BY <2>2, <2>3, Numbers, SMTT(60)
    <2>5. RetryAfter(t) = q
      BY <1>2, Numbers DEF RetryAfter, d
    <2> HIDE DEF q
    <2>6. t <= q * Second
      BY <2>2, <2>4, Numbers DEF d
    <2> QED BY <2>4, <2>5, <2>6
  <1> QED BY <1>1, <1>2, Numbers

LEMMA LimiterInitially == Init => LimiterOK
  BY Numbers DEF Init, LimiterOK, NoWindow, Windows

LEMMA ArriveKeepsLimiter ==
  ASSUME LimiterOK, NEW r \in Requests, NEW c \in Clients, NEW o \in BOOLEAN, Arrive(r, c, o)
  PROVE  LimiterOK'
  <1> DEFINE w == Counted(windows[c])
             Allowed == w.count <= Max
  <1>1. /\ windows' = [windows EXCEPT ![c] = w]
        /\ told' = [told EXCEPT ![c] =
               IF Allowed \/ o THEN None ELSE Second * RetryAfter(w.left)]
        /\ Metered(c = Observed /\ Allowed)
    BY DEF Arrive
  <1>2. /\ windows[c] \in Windows
        /\ windows[c].left \in 0 .. Window
        /\ windows[c].count \in 0 .. Max + 1
        /\ windows[c].left > 0 => windows[c].count >= 1
    BY DEF LimiterOK, Windows
  <1>3. /\ w \in Windows
        /\ w.left \in 0 .. Window
        /\ w.count \in 0 .. Max + 1
        /\ windows[c].left = 0 => w.left = Window /\ w.count = 1
        /\ windows[c].left > 0 => /\ w.left = windows[c].left
                                  /\ w.count >= windows[c].count
                                  /\ Allowed => w.count = windows[c].count + 1
    <2>1. w \in Windows
      BY <1>2, CountedWindow
    <2> QED BY <1>2, <2>1, CountedWindow DEF Windows
  <1> HIDE DEF w
  <1>4. windows' \in [Clients -> Windows]
    BY <1>1, <1>3 DEF LimiterOK
  <1>5. windows'[c] = w /\ \A d \in Clients : d # c => windows'[d] = windows[d]
    BY <1>1 DEF LimiterOK
  <1>6. \A d \in Clients : windows'[d].left > 0 => windows'[d].count >= 1
    BY <1>2, <1>3, <1>5, Numbers DEF LimiterOK
  <1>7. Second * RetryAfter(w.left) \in Nat /\ w.left <= Second * RetryAfter(w.left)
    BY <1>3, SecondsCover, Numbers
  <1>8. told' \in [Clients -> Nat \cup {None}]
    BY <1>1, <1>7 DEF LimiterOK
  <1>9. \A d \in Clients : told'[d] # None => windows'[d].left <= told'[d]
    <2> SUFFICES ASSUME NEW d \in Clients, told'[d] # None
                 PROVE  windows'[d].left <= told'[d]
      OBVIOUS
    <2>1. CASE d = c
      BY <1>1, <1>5, <1>7, <2>1 DEF LimiterOK
    <2>2. CASE d # c
      BY <1>1, <1>5, <2>2 DEF LimiterOK
    <2> QED BY <2>1, <2>2
  <1>10. meter' # None => SpanFits(meter', windows'[Observed])
    <2> SUFFICES ASSUME meter' # None PROVE SpanFits(meter', windows'[Observed])
      OBVIOUS
    <2>1. CASE c # Observed
      BY <1>1, <1>5, <2>1, ObservedAssumption DEF Metered, LimiterOK
    <2>2. CASE c = Observed /\ ~Allowed
      <3>1. meter' = meter /\ SpanFits(meter, windows[c])
        BY <1>1, <2>2 DEF Metered, LimiterOK
      <3>2. windows[c].left > 0
        BY <1>2, <1>3, <2>2, Numbers
      <3> QED BY <1>2, <1>3, <1>5, <2>2, <3>1, <3>2, Numbers DEF SpanFits
    <2>3. CASE c = Observed /\ Allowed /\ meter = None
      <3>1. meter' = [left |-> Window, n |-> 1]
        BY <1>1, <2>3 DEF Metered
      <3>2. /\ meter' \in [left : 1 .. Window, n : Nat]
            /\ meter'.left = Window /\ meter'.n = 1
        BY <3>1, Numbers
      <3> QED BY <1>2, <1>3, <1>5, <2>3, <3>2, Numbers DEF SpanFits
    <2>4. CASE c = Observed /\ Allowed /\ meter # None
      <3>1. meter' = [meter EXCEPT !.n = @ + 1] /\ SpanFits(meter, windows[c])
        BY <1>1, <2>4 DEF Metered, LimiterOK
      <3>2. meter'.left = meter.left /\ meter'.n = meter.n + 1
        BY <3>1
      <3> QED BY <1>2, <1>3, <1>5, <2>4, <3>1, <3>2, Numbers DEF SpanFits
    <2> QED BY <2>1, <2>2, <2>3, <2>4
  <1> QED BY <1>4, <1>6, <1>8, <1>9, <1>10 DEF LimiterOK

LEMMA TickKeepsLimiter ==
  ASSUME LimiterOK, Tick
  PROVE  LimiterOK'
  <1>1. /\ windows' = [c \in Clients |-> IF windows[c].left <= 1 THEN NoWindow
                                        ELSE [windows[c] EXCEPT !.left = @ - 1]]
        /\ told' = [c \in Clients |-> IF told[c] = None THEN None ELSE Less(told[c])]
        /\ meter' = IF meter = None \/ meter.left = 1 THEN None
                    ELSE [meter EXCEPT !.left = @ - 1]
    BY DEF Tick
  <1>2. \A c \in Clients : /\ windows[c] \in Windows
                           /\ windows[c].left \in 0 .. Window
                           /\ windows[c].count \in 0 .. Max + 1
    BY DEF LimiterOK, Windows
  <1>3. ASSUME NEW c \in Clients
        PROVE  /\ windows'[c] \in Windows
               /\ windows[c].left <= 1 => windows'[c].left = 0
               /\ windows[c].left > 1 => /\ windows'[c].left = windows[c].left - 1
                                         /\ windows'[c].count = windows[c].count
    BY <1>1, <1>2, Numbers DEF NoWindow, Windows
  <1>4. windows' \in [Clients -> Windows]
    BY <1>1, <1>3
  <1>5. \A c \in Clients : windows'[c].left > 0 => windows'[c].count >= 1
    BY <1>2, <1>3 DEF LimiterOK
  <1>6. told' \in [Clients -> Nat \cup {None}]
    <2>1. ASSUME NEW n \in Nat PROVE Less(n) \in Nat
      BY DEF Less
    <2>2. ASSUME NEW c \in Clients, told[c] # None PROVE Less(told[c]) \in Nat
      BY <2>1, <2>2 DEF LimiterOK
    <2> QED BY <1>1, <2>2
  <1>7. \A c \in Clients : told'[c] # None => windows'[c].left <= told'[c]
    <2> SUFFICES ASSUME NEW c \in Clients, told'[c] # None
                 PROVE  windows'[c].left <= told'[c]
      OBVIOUS
    <2>1. told[c] # None /\ told'[c] = Less(told[c])
      BY <1>1
    <2>2. told[c] \in Nat /\ windows[c].left <= told[c]
      BY <2>1 DEF LimiterOK
    <2> QED BY <1>2, <1>3, <2>1, <2>2 DEF Less
  <1>8. meter' # None => SpanFits(meter', windows'[Observed])
    <2> SUFFICES ASSUME meter' # None PROVE SpanFits(meter', windows'[Observed])
      OBVIOUS
    <2>1. meter # None /\ meter.left # 1 /\ meter' = [meter EXCEPT !.left = @ - 1]
      BY <1>1
    <2>2. SpanFits(meter, windows[Observed]) /\ meter \in [left : 1 .. Window, n : Nat]
      BY <2>1 DEF LimiterOK, SpanFits
    <2>3. /\ meter' \in [left : 1 .. Window, n : Nat]
          /\ meter'.left = meter.left - 1 /\ meter'.n = meter.n
      BY <2>1, <2>2, Numbers
    <2>4. /\ windows[Observed].left \in 0 .. Window
          /\ windows[Observed].count \in 0 .. Max + 1
          /\ windows[Observed].left > 0 => windows[Observed].count >= 1
          /\ windows[Observed].left <= 1 => windows'[Observed].left = 0
          /\ windows[Observed].left > 1 =>
                /\ windows'[Observed].left = windows[Observed].left - 1
                /\ windows'[Observed].count = windows[Observed].count
      BY <1>2, <1>3, ObservedAssumption DEF LimiterOK
    <2>5. meter.left \in 1 .. Window /\ meter.n \in Nat
      BY <2>2
    <2> QED BY <2>1, <2>2, <2>3, <2>4, <2>5, Numbers DEF SpanFits
  <1> QED BY <1>4, <1>5, <1>6, <1>7, <1>8 DEF LimiterOK

LEMMA LimiterInductive == LimiterOK /\ [Next]_vars => LimiterOK'
  <1> SUFFICES ASSUME LimiterOK, [Next]_vars PROVE LimiterOK'
    OBVIOUS
  <1>1. CASE UNCHANGED limiter
    BY <1>1 DEF limiter, LimiterOK, SpanFits
  <1>2. CASE NothingKnown
    BY <1>2, Numbers DEF NothingKnown, LimiterOK, NoWindow, Windows
  <1>3. ASSUME NEW r \in Requests, NEW c \in Clients, NEW o \in BOOLEAN, Arrive(r, c, o)
        PROVE  LimiterOK'
    BY <1>3, ArriveKeepsLimiter
  <1>4. CASE Tick
    BY <1>4, TickKeepsLimiter
  <1> QED BY <1>1, <1>2, <1>3, <1>4, StepsOfLimiter

\* However its requests fall on the windows, a client is let in fewer than twice
\* maxRequests times in any span of windowMs (createRateLimiter).
THEOREM AdmissionsAreBounded == Spec => []AdmissionBound
  <1>1. LimiterOK => AdmissionBound
    <2> SUFFICES ASSUME LimiterOK, meter # None PROVE meter.n < 2 * Max
      BY DEF AdmissionBound
    <2>1. /\ windows[Observed] \in Windows
          /\ SpanFits(meter, windows[Observed])
      BY ObservedAssumption DEF LimiterOK
    <2>2. /\ meter.left \in 1 .. Window /\ meter.n \in Nat
          /\ windows[Observed].left \in 0 .. Window
      BY <2>1 DEF SpanFits, Windows
    <2> QED BY <2>1, <2>2, Numbers DEF SpanFits
  <1> QED BY <1>1, LimiterInitially, LimiterInductive, PTL DEF Spec

\* A request of a client that has waited as long as its 429 told it to is not refused
\* for its rate (createRateLimiter; retry-after is rounded up).
THEOREM WaitersAreAdmitted == Spec => RetryIsAdmitted
  <1>1. LimiterOK /\ [Next]_vars => \A c \in Clients : told[c] = 0 => told'[c] \in {0, None}
    <2> SUFFICES ASSUME LimiterOK, [Next]_vars, NEW c \in Clients, told[c] = 0
                 PROVE  told'[c] \in {0, None}
      OBVIOUS
    <2>1. CASE UNCHANGED limiter
      BY <2>1 DEF limiter
    <2>2. CASE NothingKnown
      BY <2>2 DEF NothingKnown
    <2>3. ASSUME NEW r \in Requests, NEW d \in Clients, NEW o \in BOOLEAN, Arrive(r, d, o)
          PROVE  told'[c] \in {0, None}
      <3>1. told' = [told EXCEPT ![d] =
               IF Counted(windows[d]).count <= Max \/ o THEN None
               ELSE Second * RetryAfter(Counted(windows[d]).left)]
        BY <2>3 DEF Arrive
      <3>2. windows[c] \in Windows /\ windows[c].left <= 0 /\ windows[c].left \in 0 .. Window
        BY NotTicks DEF LimiterOK, Windows
      <3>3. Counted(windows[c]).count <= Max
        BY <3>2, CountedWindow, Numbers
      <3> QED BY <3>1, <3>3 DEF LimiterOK
    <2>4. CASE Tick
      BY <2>4 DEF Tick, Less, LimiterOK
    <2> QED BY <2>1, <2>2, <2>3, <2>4, StepsOfLimiter
  <1>2. LimiterOK /\ [Next]_vars =>
          [\A c \in Clients : told[c] = 0 => told'[c] \in {0, None}]_vars
    BY <1>1
  <1> QED BY <1>2, LimiterInitially, LimiterInductive, PTL DEF Spec, RetryIsAdmitted
=============================================================================
