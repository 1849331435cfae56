---------------------------- MODULE StoreFiles ----------------------------
(* The SQLite store of the gateway as the files it is made of, and the       *)
(* operator's storage commands on them (packages/storage/src/index.ts, the   *)
(* storage command of packages/cli/src/index.ts).  Commits go to the -wal    *)
(* file (journal_mode = WAL) and are synced only by a checkpoint             *)
(* (synchronous = NORMAL); a backup is VACUUM INTO, a restore a plain copy   *)
(* over the main file.  Of the tables only the redemptions are told apart.   *)
EXTENDS Naturals, Sequences, FiniteSets

CONSTANTS
    Payments,   \* payments whose credentials reach the gateway
    Backups,    \* paths of backup files
    Missing,    \* no file at a path
    MaxLosses   \* bound: restores, and power cuts that lose a commit

VARIABLES
    main,       \* redemptions in the main file
    wal,        \* redemptions committed since the last checkpoint, in order
    hot,        \* a -wal file with frames lies beside the main file
    backup,     \* path -> the redemptions in the backup
    granted,    \* history: how often each payment was redeemed
    losses      \* history: restores, and power cuts that lost a commit

files == <<main, wal, hot, backup, granted, losses>>

ASSUME LossesAssumption == MaxLosses \in Nat

Committed(n) == {wal[i] : i \in 1 .. n}

\* What a connection reads.
Rows == main \cup Committed(Len(wal))

FilesTypeOK ==
    /\ main \subseteq Payments
    /\ wal \in Seq(Payments)
    /\ hot \in BOOLEAN
    /\ backup \in [Backups -> {Missing} \cup SUBSET Payments]
    /\ granted \in [Payments -> 0 .. MaxLosses + 1]
    /\ losses \in 0 .. MaxLosses

FilesInit ==
    /\ main = {}
    /\ wal = <<>>
    /\ hot = FALSE
    /\ backup = [b \in Backups |-> Missing]
    /\ granted = [p \in Payments |-> 0]
    /\ losses = 0

\* Mutant: the last connection deletes the -wal file without a checkpoint.
DropWal ==
    /\ main' = main
    /\ wal' = <<>>
    /\ hot' = FALSE

\* The last connection to close checkpoints and deletes the -wal file.
CloseLast ==
    /\ main' = Rows
    /\ wal' = <<>>
    /\ hot' = FALSE

\* SQLite's automatic checkpoint; the frames stay in the file.
Checkpoint ==
    /\ wal # <<>>
    /\ main' = Rows
    /\ wal' = <<>>
    /\ UNCHANGED <<hot, backup, granted, losses>>

\* consumeRedemption, for a payment that has no row yet.
Redeem(p) ==
    /\ p \notin Rows
    /\ wal' = Append(wal, p)
    /\ hot' = TRUE
    /\ granted' = [granted EXCEPT ![p] = @ + 1]
    /\ UNCHANGED <<main, backup, losses>>

\* The machine stops: commits that were not synced may be gone, the last ones first.
LosePower ==
    /\ \E n \in 0 .. Len(wal) :
           /\ n < Len(wal) => losses < MaxLosses
           /\ wal' = SubSeq(wal, 1, n)
           /\ losses' = IF n < Len(wal) THEN losses + 1 ELSE losses
    /\ UNCHANGED <<main, hot, backup, granted>>

-----------------------------------------------------------------------------
(* The storage commands; running: whether the gateway has the store open     *)

\* A command that opened the database closes it again.
Closes(running) == IF running THEN UNCHANGED <<main, wal, hot>> ELSE CloseLast

\* Mutant: a backup copies the main file, as a restore does.
BackupByCopy(b, running) ==
    /\ backup[b] = Missing
    /\ backup' = [backup EXCEPT ![b] = main]
    /\ UNCHANGED <<main, wal, hot, granted, losses>>

\* backupSqliteStore: the destination must not exist.
Backup(b, running) ==
    /\ backup[b] = Missing
    /\ backup' = [backup EXCEPT ![b] = Rows]
    /\ Closes(running)
    /\ UNCHANGED <<granted, losses>>

\* check, list-deliveries, audit-receipts and export-receipts read.
Inspect(running) ==
    /\ Closes(running)
    /\ UNCHANGED <<backup, granted, losses>>

\* restoreSqliteStore over a stopped gateway.  It copies one file: when a -wal file
\* was left behind, SQLite applies its pages to the restored file, and which rows
\* remain is anyone's guess.
Restore(b) ==
    /\ backup[b] # Missing
    /\ losses < MaxLosses
    /\ losses' = losses + 1
    /\ main' \in IF hot THEN SUBSET (Rows \cup backup[b]) ELSE {backup[b]}
    /\ wal' = <<>>
    /\ UNCHANGED <<hot, backup, granted>>

-----------------------------------------------------------------------------
\* The file remembers a redemption through every crash, kill, shutdown, checkpoint,
\* storage command and restart: each restore, and each power cut that loses a commit,
\* lets a payment be redeemed once more, nothing else does (docs/security.md: SQLite
\* redemption is atomic; consumeRedemption, backupSqliteStore, restoreSqliteStore).
RedeemedOncePerLoss == \A p \in Payments : granted[p] <= 1 + losses

\* A backup holds every redemption made before it, those still in the -wal file and
\* those made while the gateway runs included, unless an earlier loss took it.
BackupIsComplete ==
    [][losses = 0 => \A b \in Backups : backup'[b] # backup[b] =>
           backup'[b] = {p \in Payments : granted[p] > 0}]_files
=============================================================================
