------------------------------ MODULE Storage ------------------------------
(***************************************************************************)
(* internal/storage, db.go and schema.go: processes that open the database *)
(* file, bring its schema up to date and write to it.  A name in the file  *)
(* system leads to an inode; a process keeps the inode it opened, whatever *)
(* the name leads to later.  One transaction is one step, and SQLite takes *)
(* transactions of several processes one after the other.                  *)
(*                                                                         *)
(* The database is in WAL mode (db.go:43): beside the path lies a log with *)
(* what is committed but not yet in the file.  It is found by its name, so *)
(* after a restore it may be the log of another inode than the one the     *)
(* path leads to.                                                          *)
(***************************************************************************)
EXTENDS Integers

CONSTANTS
    Processes,      \* digitalwilld and dw, each with its own connection
    Inodes,         \* bound on the database files that exist at once
    SchemaVersion,  \* the version this build migrates to
    Writes,         \* bound: what can be written to the tables
    NULL            \* no inode, no passphrase

ASSUME SchemaAssumption ==
    /\ SchemaVersion \in Nat \ {0}
    /\ NULL \notin Inodes

VARIABLES
    disk,  \* the database files
    at,    \* the inode the path of the database leads to
    wal,   \* the inode whose log lies beside the path, or NULL
    conn   \* the connection of each process, and its place in Migrate

storageVars == <<disk, at, wal, conn>>

(* A newer build has one version more.                                     *)
Versions == 0..(SchemaVersion + 1)

(* PRAGMA user_version, the rows of schema_migrations, the other tables.   *)
Image == [version : Versions, recorded : SUBSET Versions, data : SUBSET Writes]

ImageAt(version) == [version |-> version, recorded |-> 1..version, data |-> {}]

(* A torn file has pages of two states, or of two databases: what SQLite   *)
(* makes of it is not followed any further.  A partial one was cut off     *)
(* while it was written.                                                   *)
Whole(image) == [kind |-> "whole", image |-> image]
Torn         == [kind |-> "torn"]
Partial      == [kind |-> "partial"]
Database     == [kind : {"whole"}, image : Image] \cup {Torn}

Closed          == [pc |-> "closed"]
OpenOn(i)       == [pc |-> "open", inode |-> i]
MigrateOn(i, v) == [pc |-> "migrate", inode |-> i, next |-> v]

Conn == [pc : {"closed"}] \cup
        [pc : {"open"}, inode : Inodes] \cup
        [pc : {"migrate"}, inode : Inodes, next : 1..SchemaVersion]

Holds(p, i) == conn[p].pc # "closed" /\ conn[p].inode = i
InUse       == {at} \cup {i \in Inodes : i = wal \/ \E p \in Processes : Holds(p, i)}

(* The log beside the path is that of another file.                        *)
Foreign == wal \notin {NULL, at}

(* Mutation: the loop of Migrate goes one version too far.                 *)
MigrateBeyond(i, v) == IF v > SchemaVersion + 1 THEN OpenOn(i) ELSE MigrateOn(i, v)

(* The loop of Migrate from version v on.                                  *)
MigrateFrom(i, v) == IF v > SchemaVersion THEN OpenOn(i) ELSE MigrateOn(i, v)

(* The log after process p, the path's log being that of inode log, closes *)
(* inode i: the last one to close a file writes the log back and deletes   *)
(* it, but not when the path leads elsewhere by now.                       *)
LogAfterClose(p, i, log) ==
    IF log = i /\ at = i /\ \A q \in Processes \ {p} : ~Holds(q, i) THEN NULL ELSE log

(* Close of a connection, and the end of a process that does not close it. *)
Hangup(p) ==
    /\ wal' = IF conn[p] = Closed THEN wal ELSE LogAfterClose(p, conn[p].inode, wal)
    /\ conn' = [conn EXCEPT ![p] = Closed]

Die(p) ==
    /\ conn' = [conn EXCEPT ![p] = Closed]
    /\ UNCHANGED wal
----------------------------------------------------------------------------
(* Open reads user_version; a newer one makes it return an error.          *)
ReadVersion(p) ==
    /\ conn[p].pc = "closed"
    /\ ~Foreign
    /\ disk[at].kind = "whole"
    /\ disk[at].image.version <= SchemaVersion
    /\ conn' = [conn EXCEPT ![p] = MigrateFrom(at, disk[at].image.version + 1)]
    /\ wal' = at
    /\ UNCHANGED <<disk, at>>

(* To SQLite a file cut off at its first byte is a new database, and it    *)
(* deletes the log; any other partial file is none, and Open returns an    *)
(* error.                                                                  *)
OpenEmpty(p) ==
    /\ conn[p].pc = "closed"
    /\ disk[at].kind = "partial"
    /\ disk' = [disk EXCEPT ![at] = Whole(ImageAt(0))]
    /\ conn' = [conn EXCEPT ![p] = MigrateFrom(at, 1)]
    /\ wal' = at
    /\ UNCHANGED at

(* SQLite takes the log beside the path for the log of the file it opens:  *)
(* both files now have pages of each other.  Whatever Open reads from a    *)
(* torn file, it returns an error or goes on.                              *)
OpenTorn(p) ==
    /\ conn[p].pc = "closed"
    /\ Foreign \/ disk[at].kind = "torn"
    /\ disk' = [i \in Inodes |-> IF i \in {at, wal} THEN Torn ELSE disk[i]]
    /\ \/ \E v \in 1..(SchemaVersion + 1) : conn' = [conn EXCEPT ![p] = MigrateFrom(at, v)]
          /\ wal' = at
       \/ wal' = LogAfterClose(p, at, at) /\ UNCHANGED conn
    /\ UNCHANGED at

Migrated(content, v) ==
    IF content.kind = "whole"
    THEN [content EXCEPT !.image.version = v, !.image.recorded = @ \cup {v}]
    ELSE content

(* Mutation: schema_migrations without its primary key.                    *)
ApplyAgain(p) ==
    /\ conn[p].pc = "migrate"
    /\ LET i == conn[p].inode
           v == conn[p].next
       IN /\ disk' = [disk EXCEPT ![i] = Migrated(@, v)]
          /\ conn' = [conn EXCEPT ![p] = MigrateFrom(i, v + 1)]
    /\ UNCHANGED <<at, wal>>

(* Mutation: user_version is set outside the transaction, which may fail.  *)
ApplyInParts(p) ==
    /\ conn[p].pc = "migrate"
    /\ LET i == conn[p].inode
           v == conn[p].next
       IN /\ disk[i].kind = "whole"
          /\ v \notin disk[i].image.recorded
          /\ \/ /\ disk' = [disk EXCEPT ![i] = Migrated(@, v)]
                /\ conn' = [conn EXCEPT ![p] = MigrateFrom(i, v + 1)]
             \/ /\ disk' = [disk EXCEPT ![i].image.version = v]
                /\ conn' = [conn EXCEPT ![p] = Closed]
    /\ UNCHANGED <<at, wal>>

(* The transaction of one migration.                                       *)
ApplyMigration(p) ==
    /\ conn[p].pc = "migrate"
    /\ LET i == conn[p].inode
           v == conn[p].next
       IN /\ disk[i].kind = "whole" => v \notin disk[i].image.recorded
          /\ disk' = [disk EXCEPT ![i] = Migrated(@, v)]
          /\ conn' = [conn EXCEPT ![p] = MigrateFrom(i, v + 1)]
    /\ UNCHANGED <<at, wal>>

(* Another process has recorded the migration since user_version was read: *)
(* the INSERT fails on the primary key, the transaction, PRAGMA included,  *)
(* is rolled back, and Open closes the database and returns an error.      *)
RejectMigration(p) ==
    /\ conn[p].pc = "migrate"
    /\ LET content == disk[conn[p].inode]
       IN content.kind = "whole" => conn[p].next \in content.image.recorded
    /\ Hangup(p)
    /\ UNCHANGED <<disk, at>>

(* An open process commits a transaction.                                  *)
Write(p) ==
    /\ conn[p].pc = "open"
    /\ disk[conn[p].inode].kind = "whole"
    /\ \E x \in Writes \ disk[conn[p].inode].image.data :
         disk' = [disk EXCEPT ![conn[p].inode].image.data = @ \cup {x}]
    /\ UNCHANGED <<at, wal, conn>>

OpenOrWrite(p) ==
    \/ ReadVersion(p) \/ OpenEmpty(p) \/ OpenTorn(p)
    \/ ApplyMigration(p) \/ RejectMigration(p) \/ Write(p)
============================================================================
