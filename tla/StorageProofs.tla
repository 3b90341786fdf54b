--------------------------- MODULE StorageProofs ---------------------------
(***************************************************************************)
(* Theorems about the database file for any number of processes, files,    *)
(* migrations, writes and failures: its schema is the recorded one and     *)
(* never falls, only backups that were completed are restored, and while   *)
(* no file operation fails and no other process is on the database during  *)
(* a restore, no log of an old file ever meets a new one.                  *)
(*                                                                         *)
(* The invariant has two layers: IInv holds whatever fails, and CalmInv    *)
(* says what holds on top of it as long as the behaviour is calm.          *)
(***************************************************************************)
EXTENDS Backup, TLAPS

LEMMA PlainKinds ==
    ASSUME NEW x \in Plain
    PROVE  /\ x.kind = "partial" <=> x = Partial
           /\ x.kind = "torn" <=> x = Torn
           /\ x.kind # "partial" <=> x \in Database
           /\ x.kind \in {"whole", "torn", "partial"}
           /\ x.kind = "whole" => x \in [kind : {"whole"}, image : Image]
           /\ x \in Content
           /\ x.kind # "manifest" /\ x.kind # "sealed"
BY DEF Plain, Database, Partial, Torn, Content

LEMMA DatabaseKinds ==
    ASSUME NEW x \in Database
    PROVE  /\ x \in Plain /\ x.kind # "partial" /\ x.kind \in {"whole", "torn"}
           /\ x.kind = "whole" => /\ x \in [kind : {"whole"}, image : Image]
                                  /\ x.image \in Image /\ x.image.version \in Versions
                                  /\ x.image.version \in Int
BY SchemaAssumption DEF Plain, Database, Partial, Torn, Image, Versions

LEMMA TornIs ==
    /\ Torn \in Database /\ Torn \in Plain /\ Torn.kind = "torn" /\ Recorded(Torn)
    /\ \A c : Fits(c, Torn)
BY DEF Torn, Database, Plain, Recorded, Fits

LEMMA Contents ==
    ASSUME NEW pass \in Passphrases, NEW of \in Plain, NEW encrypted \in BOOLEAN
    PROVE  /\ Sealed(pass, of) \in Content
           /\ Manifest(of, encrypted) \in Content
           /\ Partial \in Content /\ Absent \in Content
BY DEF Content, Sealed, Manifest, Plain, Absent

(* The database of a new version.                                          *)
LEMMA ImagesAt ==
    ASSUME NEW v \in Versions
    PROVE  /\ ImageAt(v) \in Image /\ Whole(ImageAt(v)) \in Database
           /\ Whole(ImageAt(v)).kind = "whole" /\ Whole(ImageAt(v)).image.version = v
           /\ Recorded(Whole(ImageAt(v)))
BY SchemaAssumption DEF ImageAt, Image, Versions, Whole, Database, Recorded

LEMMA NewImage ==
    ASSUME NEW x \in [kind : {"whole"}, image : Image], NEW image \in Image
    PROVE  /\ [x EXCEPT !.image = image] \in Database
           /\ [x EXCEPT !.image = image].kind = "whole"
           /\ [x EXCEPT !.image = image].image = image
BY DEF Database
----------------------------------------------------------------------------
(* Where a process goes after version v - 1.                               *)
LEMMA MigrateFromOK ==
    ASSUME NEW i \in Inodes, NEW v \in 1..(SchemaVersion + 1)
    PROVE  /\ MigrateFrom(i, v) \in Conn
           /\ MigrateFrom(i, v).inode = i
           /\ MigrateFrom(i, v).pc = "open" => v = SchemaVersion + 1
           /\ MigrateFrom(i, v).pc = "migrate" => MigrateFrom(i, v).next = v
           /\ MigrateFrom(i, v).pc \in {"open", "migrate"}
BY SchemaAssumption DEF MigrateFrom, OpenOn, MigrateOn, Conn

(* A process that comes from version v fits a database of version v.       *)
LEMMA MigrateFromFits ==
    ASSUME NEW i \in Inodes, NEW v \in 0..SchemaVersion, NEW content,
           content.kind = "whole" => content.image.version = v
    PROVE  Fits(MigrateFrom(i, v + 1), content)
<1>1. v + 1 \in 1..(SchemaVersion + 1) /\ v \in Int /\ v >= (v + 1) - 1
  BY SchemaAssumption
<1>2. MigrateFrom(i, v + 1).pc = "open" => v = SchemaVersion
  BY <1>1, MigrateFromOK, SchemaAssumption
<1>3. MigrateFrom(i, v + 1).pc = "migrate" => MigrateFrom(i, v + 1).next = v + 1
  BY <1>1, MigrateFromOK
<1> QED BY <1>1, <1>2, <1>3 DEF Fits

LEMMA ConnOK ==
    ASSUME DatabaseOK, NEW p \in Processes, conn[p].pc # "closed"
    PROVE  /\ conn[p].inode \in Inodes
           /\ disk[conn[p].inode] \in Database
           /\ conn[p].pc \in {"open", "migrate"}
           /\ conn[p].pc = "migrate" => conn[p].next \in 1..SchemaVersion
BY DEF DatabaseOK, Conn

(* What a storage step comes to: database i becomes x, which is no older,  *)
(* and process p gets connection c; both fit.                              *)
LEMMA Advance ==
    ASSUME DatabaseOK, SchemaInv,
           NEW p \in Processes, NEW i \in Inodes, NEW x \in Database, NEW c \in Conn,
           disk' = [disk EXCEPT ![i] = x], conn' = [conn EXCEPT ![p] = c],
           at' = at, wal' \in Inodes \cup {NULL},
           Recorded(x),
           disk[i].kind = "whole" => NotOlder(disk[i], x),
           \A q \in Processes \ {p} : Holds(q, i) => Fits(conn[q], x),
           c.pc # "closed" => c.inode = i /\ Fits(c, x)
    PROVE  /\ DatabaseOK' /\ SchemaInv'
           /\ \A j \in Inodes : disk[j].kind = "whole" => NotOlder(disk[j], disk'[j])
<1>1. x \in Plain
  BY DatabaseKinds
<1>2. disk' \in [Inodes -> Plain] /\ conn' \in [Processes -> Conn]
  BY <1>1 DEF DatabaseOK
<1>3. /\ disk'[i] = x
      /\ \A j \in Inodes \ {i} : disk'[j] = disk[j]
      /\ conn'[p] = c
      /\ \A q \in Processes \ {p} : conn'[q] = conn[q]
  BY DEF DatabaseOK
<1>4. \A j \in Inodes : Recorded(disk'[j])
  BY <1>3 DEF SchemaInv
<1>5. ASSUME NEW q \in Processes, conn'[q].pc # "closed"
      PROVE  disk'[conn'[q].inode] \in Database /\ Fits(conn'[q], disk'[conn'[q].inode])
  <2>1. CASE q = p
    BY <1>3, <1>5, <2>1
  <2>2. CASE q # p /\ conn[q].inode = i
    BY <1>3, <1>5, <2>2 DEF Holds
  <2>3. CASE q # p /\ conn[q].inode # i
    BY <1>3, <1>5, <2>3, ConnOK DEF SchemaInv
  <2> QED BY <2>1, <2>2, <2>3
<1>6. DatabaseOK' /\ SchemaInv'
  BY <1>2, <1>4, <1>5 DEF DatabaseOK, SchemaInv, Fits, Recorded
<1>7. ASSUME NEW j \in Inodes, disk[j].kind = "whole"
      PROVE  NotOlder(disk[j], disk'[j])
  <2>1. CASE j = i
    BY <1>3, <1>7, <2>1
  <2>2. CASE j # i
    <3>1. disk[j] \in Plain
      BY DEF DatabaseOK
    <3>2. disk[j].image.version \in Int /\ disk'[j] = disk[j]
      BY <1>3, <1>7, <2>2, <3>1, PlainKinds, DatabaseKinds
    <3> QED BY <1>7, <3>2 DEF NotOlder
  <2> QED BY <2>1, <2>2
<1> QED BY <1>6, <1>7

LEMMA SameDisk ==
    ASSUME DatabaseOK, UNCHANGED disk
    PROVE  \A j \in Inodes : disk[j].kind = "whole" => NotOlder(disk[j], disk'[j])
<1> SUFFICES ASSUME NEW j \in Inodes, disk[j].kind = "whole"
             PROVE  NotOlder(disk[j], disk'[j])
  OBVIOUS
<1>1. disk[j] \in Plain
  BY DEF DatabaseOK
<1>2. disk[j].image.version \in Int
  BY <1>1, PlainKinds, DatabaseKinds
<1> QED BY <1>2 DEF NotOlder

(* A process that closes the database, or ends.                            *)
LEMMA LogOK ==
    ASSUME DatabaseOK, NEW p \in Processes, Hangup(p) \/ Die(p)
    PROVE  wal' \in Inodes \cup {NULL} /\ wal' \in {wal, NULL}
           /\ conn' = [conn EXCEPT ![p] = Closed]
BY DEF Hangup, Die, LogAfterClose, DatabaseOK

LEMMA Quit ==
    ASSUME DatabaseOK, SchemaInv, NEW p \in Processes,
           Hangup(p) \/ Die(p), UNCHANGED <<disk, at>>
    PROVE  DatabaseOK' /\ SchemaInv'
<1>1. conn' = [conn EXCEPT ![p] = Closed] /\ wal' \in Inodes \cup {NULL}
  BY LogOK
<1>2. conn' \in [Processes -> Conn]
  BY <1>1 DEF DatabaseOK, Conn, Closed
<1>3. \A q \in Processes : conn'[q].pc # "closed" => conn'[q] = conn[q]
  BY <1>1 DEF DatabaseOK, Closed
<1>4. DatabaseOK'
  BY <1>1, <1>2, <1>3 DEF DatabaseOK
<1> QED BY <1>3, <1>4 DEF SchemaInv, Fits, Recorded

LEMMA Stay ==
    ASSUME DatabaseOK, SchemaInv, UNCHANGED storageVars
    PROVE  DatabaseOK' /\ SchemaInv'
<1>1. DatabaseOK'
  BY DEF DatabaseOK, storageVars
<1> QED BY <1>1 DEF SchemaInv, Fits, Recorded, storageVars

(* The log a failing Open leaves is that of the file it opened, or none.   *)
LEMMA LogAfterCloseIs ==
    ASSUME NEW p, NEW i, NEW log
    PROVE  LogAfterClose(p, i, log) \in {NULL, log}
BY DEF LogAfterClose

LEMMA ReadVersionStep ==
    ASSUME DatabaseOK, SchemaInv, NEW p \in Processes, ReadVersion(p)
    PROVE  /\ DatabaseOK' /\ SchemaInv'
           /\ \A j \in Inodes : disk[j].kind = "whole" => NotOlder(disk[j], disk'[j])
<1> DEFINE v == disk[at].image.version
           c == MigrateFrom(at, v + 1)
<1>1. at \in Inodes /\ disk[at] \in Database /\ disk[at].kind = "whole" /\ disk \in [Inodes -> Plain]
  BY PlainKinds DEF ReadVersion, DatabaseOK
<1>2. v \in 0..SchemaVersion
  BY <1>1, DatabaseKinds, SchemaAssumption DEF ReadVersion, Versions
<1>3. v + 1 \in 1..(SchemaVersion + 1)
  BY <1>2, SchemaAssumption
<1>4. c \in Conn /\ c.inode = at /\ Fits(c, disk[at])
  BY <1>1, <1>2, <1>3, MigrateFromOK, MigrateFromFits
<1>5. /\ disk' = [disk EXCEPT ![at] = disk[at]]
      /\ conn' = [conn EXCEPT ![p] = c] /\ at' = at /\ wal' \in Inodes \cup {NULL}
  BY <1>1 DEF ReadVersion
<1>6. Recorded(disk[at]) /\ NotOlder(disk[at], disk[at])
  BY <1>1, <1>2 DEF SchemaInv, NotOlder
<1>7. \A q \in Processes \ {p} : Holds(q, at) => Fits(conn[q], disk[at])
  BY DEF SchemaInv, Holds
<1> HIDE DEF c
<1> QED BY <1>1, <1>4, <1>5, <1>6, <1>7, Advance

LEMMA OpenEmptyStep ==
    ASSUME DatabaseOK, SchemaInv, NEW p \in Processes, OpenEmpty(p)
    PROVE  /\ DatabaseOK' /\ SchemaInv'
           /\ \A j \in Inodes : disk[j].kind = "whole" => NotOlder(disk[j], disk'[j])
<1> DEFINE c == MigrateFrom(at, 1)
           x == Whole(ImageAt(0))
<1>1. 0 \in Versions /\ 0 \in 0..SchemaVersion /\ 0 + 1 = 1 /\ 1 \in 1..(SchemaVersion + 1)
  BY SchemaAssumption DEF Versions
<1>2. x \in Database /\ Recorded(x) /\ x.image.version = 0
  BY <1>1, ImagesAt
<1>3. at \in Inodes
  BY DEF DatabaseOK
<1>4. c \in Conn /\ c.inode = at
  BY <1>1, <1>3, MigrateFromOK
<1>5. Fits(c, x)
  BY <1>1, <1>2, <1>3, MigrateFromFits
<1>6. \A q \in Processes : ~Holds(q, at)
  BY DatabaseKinds DEF OpenEmpty, DatabaseOK, Holds
<1>7. /\ disk' = [disk EXCEPT ![at] = x] /\ disk[at].kind # "whole"
      /\ conn' = [conn EXCEPT ![p] = c] /\ at' = at /\ wal' \in Inodes \cup {NULL}
  BY <1>3 DEF OpenEmpty
<1> HIDE DEF c, x
<1> QED BY <1>2, <1>3, <1>4, <1>5, <1>6, <1>7, Advance

LEMMA OpenTornStep ==
    ASSUME DatabaseOK, SchemaInv, NEW p \in Processes, OpenTorn(p)
    PROVE  /\ DatabaseOK' /\ SchemaInv'
           /\ \A j \in Inodes : disk[j].kind = "whole" => NotOlder(disk[j], disk'[j])
<1>1. at \in Inodes /\ disk \in [Inodes -> Plain] /\ conn \in [Processes -> Conn]
  BY DEF DatabaseOK
<1>2. /\ disk' \in [Inodes -> Plain] /\ disk'[at] = Torn
      /\ \A i \in Inodes : disk'[i] = Torn \/ disk'[i] = disk[i]
  BY <1>1, TornIs DEF OpenTorn
<1>3. at' = at /\ at' \in Inodes /\ wal' \in Inodes \cup {NULL}
  BY <1>1, LogAfterCloseIs DEF OpenTorn
<1>4. /\ conn' \in [Processes -> Conn]
      /\ \A q \in Processes : conn'[q].pc # "closed" =>
           conn'[q] = conn[q] \/ conn'[q].inode = at
  <2>1. CASE UNCHANGED conn
    BY <1>1, <2>1
  <2>2. ASSUME NEW v \in 1..(SchemaVersion + 1), conn' = [conn EXCEPT ![p] = MigrateFrom(at, v)]
        PROVE  <1>4!1 /\ <1>4!2
    BY <1>1, <2>2, MigrateFromOK
  <2> QED BY <2>1, <2>2 DEF OpenTorn
<1>5. ASSUME NEW q \in Processes, conn'[q].pc # "closed"
      PROVE  disk'[conn'[q].inode] \in Database /\ Fits(conn'[q], disk'[conn'[q].inode])
  <2>1. CASE conn'[q].inode = at
    BY <1>2, <2>1, TornIs
  <2>2. CASE conn'[q] = conn[q]
    BY <1>2, <1>5, <2>2, TornIs, ConnOK DEF SchemaInv
  <2> QED BY <1>4, <1>5, <2>1, <2>2
<1>6. \A i \in Inodes : Recorded(disk'[i])
  BY <1>2, TornIs DEF SchemaInv
<1>7. DatabaseOK' /\ SchemaInv'
  BY <1>2, <1>3, <1>4, <1>5, <1>6 DEF DatabaseOK, SchemaInv, Fits, Recorded
<1>8. ASSUME NEW j \in Inodes, disk[j].kind = "whole"
      PROVE  NotOlder(disk[j], disk'[j])
  <2>1. disk[j].image.version \in Int
    BY <1>1, <1>8, PlainKinds, DatabaseKinds
  <2> QED BY <1>2, <1>8, <2>1, TornIs DEF NotOlder
<1> QED BY <1>7, <1>8

LEMMA ApplyMigrationStep ==
    ASSUME DatabaseOK, SchemaInv, NEW p \in Processes, ApplyMigration(p)
    PROVE  /\ DatabaseOK' /\ SchemaInv'
           /\ \A j \in Inodes : disk[j].kind = "whole" => NotOlder(disk[j], disk'[j])
<1> DEFINE i == conn[p].inode
           v == conn[p].next
           x == Migrated(disk[i], v)
           c == MigrateFrom(i, v + 1)
<1>1. i \in Inodes /\ v \in 1..SchemaVersion /\ disk[i] \in Database
  BY ConnOK DEF ApplyMigration
<1>2. v \in 0..SchemaVersion /\ v + 1 \in 1..(SchemaVersion + 1) /\ v \in Versions
  BY <1>1, SchemaAssumption DEF Versions
<1>3. c \in Conn /\ c.inode = i
  BY <1>1, <1>2, MigrateFromOK
<1>4. /\ disk' = [disk EXCEPT ![i] = x] /\ conn' = [conn EXCEPT ![p] = c]
      /\ at' = at /\ wal' \in Inodes \cup {NULL}
  BY DEF ApplyMigration, DatabaseOK
<1>5. CASE disk[i].kind = "whole"
  <2> DEFINE image == [disk[i].image EXCEPT !.version = v, !.recorded = @ \cup {v}]
  <2>1. /\ disk[i] \in [kind : {"whole"}, image : Image] /\ disk[i].image \in Image
        /\ disk[i].image.version \in Int /\ disk[i].image.version >= 0
    BY <1>1, <1>5, DatabaseKinds, SchemaAssumption DEF Versions
  <2>2. disk[i].image.recorded = 1..disk[i].image.version
    BY <1>1, <1>5 DEF SchemaInv, Recorded
  <2>3. disk[i].image.version = v - 1
    <3>1. v \notin 1..disk[i].image.version
      BY <1>5, <2>2 DEF ApplyMigration
    <3>2. disk[i].image.version >= v - 1
      BY <1>5 DEF ApplyMigration, SchemaInv, Fits
    <3> QED BY <1>1, <2>1, <3>1, <3>2, SchemaAssumption
  <2>4. image \in Image /\ image.version = v /\ image.recorded = (1..(v - 1)) \cup {v}
    <3> HIDE DEF v
    <3> QED BY <1>2, <2>1, <2>2, <2>3 DEF Image
  <2>5. image.recorded = 1..v
    BY <1>1, <2>4, SchemaAssumption
  <2>6. x = [disk[i] EXCEPT !.image = image]
    BY <1>5, <2>1 DEF Migrated
  <2> HIDE DEF image
  <2>7. x \in Database /\ x.kind = "whole" /\ x.image = image
    <3> HIDE DEF x
    <3> QED BY <2>1, <2>4, <2>6, NewImage
  <2> HIDE DEF x
  <2>8. Recorded(x) /\ NotOlder(disk[i], x)
    BY <1>1, <2>1, <2>3, <2>4, <2>5, <2>7, SchemaAssumption DEF Recorded, NotOlder
  <2>9. Fits(c, x)
    BY <1>1, <1>2, <2>4, <2>7, MigrateFromFits
  <2>10. ASSUME NEW q \in Processes \ {p}, Holds(q, i)
         PROVE  Fits(conn[q], x)
    <3>1. Fits(conn[q], disk[i]) /\ conn[q].pc \in {"open", "migrate"}
      BY <2>10, ConnOK DEF SchemaInv, Holds
    <3>2. conn[q].pc = "migrate" => conn[q].next \in Int /\ v - 1 >= conn[q].next - 1
      BY <1>5, <2>3, <2>10, <3>1, ConnOK DEF Fits, Holds
    <3>3. conn[q].pc # "open"
      BY <1>1, <1>5, <2>3, <3>1, SchemaAssumption DEF Fits
    <3> QED BY <1>1, <2>4, <2>7, <3>2, <3>3 DEF Fits
  <2> HIDE DEF c, v, i
  <2> QED BY <1>1, <1>3, <1>4, <2>7, <2>8, <2>9, <2>10, Advance
<1>6. CASE disk[i].kind # "whole"
  <2>1. disk[i] = Torn
    BY <1>1, <1>6, DatabaseKinds, PlainKinds
  <2>2. x = disk[i] /\ x \in Database /\ Recorded(x) /\ Fits(c, x)
    BY <1>6, <2>1, TornIs DEF Migrated
  <2>3. \A q \in Processes \ {p} : Holds(q, i) => Fits(conn[q], x)
    BY <2>1, <2>2, TornIs
  <2> HIDE DEF c, x, v, i
  <2> QED BY <1>1, <1>3, <1>4, <1>6, <2>2, <2>3, Advance
<1> QED BY <1>5, <1>6

LEMMA WriteStep ==
    ASSUME DatabaseOK, SchemaInv, NEW p \in Processes, Write(p)
    PROVE  /\ DatabaseOK' /\ SchemaInv'
           /\ \A j \in Inodes : disk[j].kind = "whole" => NotOlder(disk[j], disk'[j])
<1> DEFINE i == conn[p].inode
<1>1. i \in Inodes /\ disk[i] \in Database /\ conn[p] \in Conn
  BY ConnOK DEF Write, DatabaseOK
<1>2. PICK y \in Writes : disk' = [disk EXCEPT ![i].image.data = @ \cup {y}]
  BY DEF Write
<1> DEFINE new == [disk[i].image EXCEPT !.data = @ \cup {y}]
           x   == [disk[i] EXCEPT !.image = new]
<1>3. disk' = [disk EXCEPT ![i] = x]
  BY <1>2
<1>4. /\ disk[i] \in [kind : {"whole"}, image : Image] /\ disk[i].image \in Image
      /\ disk[i].image.version \in Int
  BY <1>1, DatabaseKinds DEF Write
<1>5. new \in Image /\ new.version = disk[i].image.version /\ new.recorded = disk[i].image.recorded
  BY <1>4 DEF Image
<1> HIDE DEF new
<1>6. x \in Database /\ x.kind = "whole" /\ x.image = new
  BY <1>4, <1>5, NewImage
<1> HIDE DEF x
<1>7. Recorded(x) /\ NotOlder(disk[i], x)
  BY <1>1, <1>4, <1>5, <1>6 DEF SchemaInv, Recorded, NotOlder
<1>8. \A q \in Processes : Holds(q, i) => Fits(conn[q], x)
  BY <1>4, <1>5, <1>6 DEF SchemaInv, Fits, Holds
<1>9. /\ conn' = [conn EXCEPT ![p] = conn[p]] /\ at' = at /\ wal' \in Inodes \cup {NULL}
      /\ Holds(p, i)
  BY DEF Write, DatabaseOK, Holds
<1> QED BY <1>1, <1>3, <1>6, <1>7, <1>8, <1>9, Advance

(* Open, Migrate and the transactions of an open process.                  *)
LEMMA StorageStep ==
    ASSUME DatabaseOK, SchemaInv, NEW p \in Processes, OpenOrWrite(p)
    PROVE  /\ DatabaseOK' /\ SchemaInv' /\ at' = at
           /\ \A j \in Inodes : disk[j].kind = "whole" => NotOlder(disk[j], disk'[j])
           /\ \A q \in Processes : conn'[q].pc # "closed" => conn'[q].inode = at \/ conn'[q] = conn[q]
                                       \/ (q = p /\ conn[q].pc # "closed" /\ conn'[q].inode = conn[q].inode)
           /\ \A q \in Processes \ {p} : conn'[q] = conn[q]
<1>1. /\ at' = at
      /\ \A q \in Processes \ {p} : conn'[q] = conn[q]
  BY DEF OpenOrWrite, ReadVersion, OpenEmpty, OpenTorn, ApplyMigration, RejectMigration, Write,
         Hangup, DatabaseOK
<1>2. /\ DatabaseOK' /\ SchemaInv'
      /\ \A j \in Inodes : disk[j].kind = "whole" => NotOlder(disk[j], disk'[j])
  <2>1. CASE RejectMigration(p)
    BY <2>1, Quit, SameDisk DEF RejectMigration
  <2> QED BY <2>1, ReadVersionStep, OpenEmptyStep, OpenTornStep, ApplyMigrationStep, WriteStep
          DEF OpenOrWrite
<1>3. conn'[p].pc # "closed" => conn'[p].inode = at \/ conn'[p] = conn[p]
                                \/ (conn[p].pc # "closed" /\ conn'[p].inode = conn[p].inode)
  <2>1. at \in Inodes /\ conn \in [Processes -> Conn]
    BY DEF DatabaseOK
  <2>2. CASE ReadVersion(p)
    <3>1. disk[at].image.version + 1 \in 1..(SchemaVersion + 1)
      BY <2>1, <2>2, PlainKinds, DatabaseKinds, SchemaAssumption DEF ReadVersion, DatabaseOK, Versions
    <3> QED BY <2>1, <2>2, <3>1, MigrateFromOK DEF ReadVersion
  <2>3. CASE OpenEmpty(p)
    <3>1. 1 \in 1..(SchemaVersion + 1)
      BY SchemaAssumption
    <3> QED BY <2>1, <2>3, <3>1, MigrateFromOK DEF OpenEmpty
  <2>4. CASE OpenTorn(p)
    BY <2>1, <2>4, MigrateFromOK DEF OpenTorn
  <2>5. CASE ApplyMigration(p)
    <3>1. conn[p].inode \in Inodes /\ conn[p].next + 1 \in 1..(SchemaVersion + 1)
      BY <2>5, ConnOK, SchemaAssumption DEF ApplyMigration
    <3> QED BY <2>1, <2>5, <3>1, MigrateFromOK DEF ApplyMigration
  <2>6. CASE RejectMigration(p)
    BY <2>1, <2>6 DEF RejectMigration, Hangup, Closed
  <2>7. CASE Write(p)
    BY <2>7 DEF Write
  <2> QED BY <2>2, <2>3, <2>4, <2>5, <2>6, <2>7 DEF OpenOrWrite
<1> QED BY <1>1, <1>2, <1>3
----------------------------------------------------------------------------
(* The invariant, by what it says of one file, of the files and of the     *)
(* operator's place.                                                       *)
Good(content) ==
    /\ content \in Content
    /\ Recorded(content)
    /\ content.kind = "sealed" => Recorded(content.of)
    /\ content.kind = "manifest" => content.sum.kind # "partial"

FilesGood == files \in [Names -> Content] /\ \A name \in Names : Good(files[name])

JobGood ==
    /\ JobOK
    /\ job.pc = "copy" => Recorded(job.seen)
    /\ job.pc \in {"write", "rename"} => Recorded(job.data) /\ job.data.kind # "partial"
    /\ job.pc = "checksum" => files["backup"].kind # "partial"
    /\ job.pc \in {"seal", "remove", "manifest"} => job.sum.kind # "partial"

StorageInv == DatabaseOK /\ SchemaInv

IInv == /\ StorageInv /\ OperatorInv /\ faults \in Nat
        /\ FilesGood /\ JobGood /\ RestoreInv /\ BackupInv

LEMMA IInvParts ==
    ASSUME IInv
    PROVE  /\ DatabaseOK /\ SchemaInv /\ OperatorInv /\ FilesRecorded /\ SumsAreComplete
           /\ RestoreInv /\ BackupInv /\ files \in [Names -> Content] /\ faults \in Nat /\ JobOK
BY DEF IInv, StorageInv, FilesGood, JobGood, Good, FilesRecorded,
       SumsAreComplete, AcceptedIsComplete

LEMMA NamesAre ==
    /\ Names = {"backup", "backup.enc", "backup.manifest", "backup.enc.manifest", "tmp"}
    /\ ManifestOf["backup"] = "backup.manifest"
    /\ ManifestOf["backup.enc"] = "backup.enc.manifest"
    /\ Copies = {"backup", "backup.enc"}
BY DEF Names, Copies, ManifestOf

LEMMA PlainIsGood ==
    ASSUME NEW x \in Plain, Recorded(x)
    PROVE  Good(x)
BY PlainKinds DEF Good

LEMMA OthersAreGood ==
    /\ Good(Partial) /\ Good(Absent)
    /\ \A pass \in Passphrases, of \in Plain : Recorded(of) => Good(Sealed(pass, of))
    /\ \A sum \in Plain, encrypted \in BOOLEAN :
         sum.kind # "partial" => Good(Manifest(sum, encrypted))
<1>1. Good(Partial)
  BY DEF Good, Partial, Content, Plain, Recorded
<1>2. Good(Absent)
  BY DEF Good, Absent, Content, Recorded
<1>3. ASSUME NEW pass \in Passphrases, NEW of \in Plain, Recorded(of)
      PROVE  Good(Sealed(pass, of))
  <2>1. Sealed(pass, of) \in Content
    BY Contents
  <2>2. Sealed(pass, of).kind = "sealed" /\ Sealed(pass, of).of = of
    BY DEF Sealed
  <2>3. Recorded(Sealed(pass, of))
    BY <2>2 DEF Recorded
  <2> QED BY <1>3, <2>1, <2>2, <2>3 DEF Good
<1>4. ASSUME NEW sum \in Plain, NEW encrypted \in BOOLEAN, sum.kind # "partial"
      PROVE  Good(Manifest(sum, encrypted))
  <2>1. Manifest(sum, encrypted) \in Content
    <3>1. [kind |-> "manifest", sum |-> sum, encrypted |-> encrypted] \in
            [kind : {"manifest"}, sum : Plain, encrypted : BOOLEAN]
      OBVIOUS
    <3> QED BY <3>1 DEF Content, Manifest
  <2>2. Manifest(sum, encrypted).kind = "manifest" /\ Manifest(sum, encrypted).sum = sum
    BY DEF Manifest
  <2>3. Recorded(Manifest(sum, encrypted))
    BY <2>2 DEF Recorded
  <2> QED BY <1>4, <2>1, <2>2, <2>3 DEF Good
<1> QED BY <1>1, <1>2, <1>3, <1>4

LEMMA FileReplaced ==
    ASSUME FilesGood, NEW name, NEW content, Good(content),
           files' = [files EXCEPT ![name] = content]
    PROVE  FilesGood'
<1>1. content \in Content
  BY DEF Good
<1>2. files' \in [Names -> Content]
  BY <1>1 DEF FilesGood
<1>3. \A other \in Names : files'[other] = content \/ files'[other] = files[other]
  BY DEF FilesGood
<1>4. \A other \in Names : Good(files'[other])
  BY <1>3 DEF FilesGood
<1> QED BY <1>2, <1>4 DEF FilesGood, Good, Recorded

(* A file that is written: whole without a new fault, or a part.           *)
LEMMA FileWritten ==
    ASSUME FilesGood, faults \in Nat, NEW name \in Names, NEW content, Good(content),
           WriteFile(name, content)
    PROVE  /\ FilesGood' /\ faults' \in Nat
           /\ \A other \in Names \ {name} : files'[other] = files[other]
           /\ \/ files'[name] = content /\ faults' = faults
              \/ files'[name] = Partial /\ faults' > 0
           /\ faults' = 0 => faults = 0 /\ files'[name] = content
           /\ faults > 0 => faults' > 0
<1>1. FilesGood'
  BY OthersAreGood, FileReplaced DEF WriteFile
<1>2. CASE files' = [files EXCEPT ![name] = content] /\ faults' = faults
  BY <1>1, <1>2 DEF FilesGood
<1>3. CASE files' = [files EXCEPT ![name] = Partial] /\ faults' = faults + 1
  BY <1>1, <1>3 DEF FilesGood
<1> QED BY <1>2, <1>3 DEF WriteFile, Fault

LEMMA JobCases ==
    ASSUME job \in Job
    PROVE  /\ job.pc = "copy" =>
                job \in [pc : {"copy"}, pass : Passphrases \cup {NULL}, seen : Database]
           /\ job.pc = "checksum" => job \in [pc : {"checksum"}, pass : Passphrases \cup {NULL}]
           /\ job.pc \in {"seal", "remove"} =>
                job \in [pc : {"seal", "remove"}, pass : Passphrases, sum : Plain]
           /\ job.pc = "manifest" =>
                job \in [pc : {"manifest"}, copy : Copies, pass : Passphrases \cup {NULL},
                         sum : Plain]
           /\ job.pc = "audit" =>
                job \in [pc : {"audit"}, copy : Copies, pass : Passphrases \cup {NULL}]
           /\ job.pc \in {"write", "rename"} => job \in [pc : {"write", "rename"}, data : Plain]
BY DEF Job

(* The operator in neither function.                                       *)
LEMMA NoJob ==
    ASSUME job' = None, conn'[Operator].pc # "closed" => conn'[Operator].inode = at'
    PROVE  JobGood' /\ BackupInv' /\ RestoreInv' /\ OperatorInv'
<1>1. None \in Job /\ None.pc = "none"
  BY DEF Job, None
<1> QED BY <1>1 DEF JobGood, JobOK, BackupInv, RestoreInv, OperatorInv

LEMMA ManifestFields ==
    ASSUME NEW sum, NEW encrypted \in BOOLEAN
    PROVE  Manifest(sum, encrypted).encrypted = encrypted
BY DEF Manifest

LEMMA AcceptedIsGood ==
    ASSUME FilesGood, NEW copy \in Copies, NEW pass, NEW data \in Accepted(copy, pass)
    PROVE  data \in Plain /\ Recorded(data) /\ data.kind # "partial"
<1>1. copy \in Names /\ ManifestOf[copy] \in Names
  BY NamesAre
<1>2. data = files[ManifestOf[copy]].sum /\ files[ManifestOf[copy]].kind = "manifest"
  BY DEF Accepted
<1>3. Good(files[copy]) /\ Good(files[ManifestOf[copy]])
  BY <1>1 DEF FilesGood
<1>4. data.kind # "partial"
  BY <1>2, <1>3 DEF Good
<1>5. \/ data \in Plain /\ data = files[copy]
      \/ files[copy].kind = "sealed" /\ data = files[copy].of
  BY DEF Accepted, Read
<1>6. ASSUME files[copy].kind = "sealed"
      PROVE  files[copy].of \in Plain
  BY <1>3, <1>6, PlainKinds DEF Good, Content, Absent
<1> QED BY <1>3, <1>4, <1>5, <1>6 DEF Good

(* A step of the operator that leaves the database alone.                  *)
LEMMA Still ==
    ASSUME StorageInv, OperatorInv, UNCHANGED storageVars
    PROVE  /\ StorageInv'
           /\ conn'[Operator].pc # "closed" => conn'[Operator].inode = at'
           /\ job'.pc \notin {"copy", "write", "rename"} => OperatorInv'
BY Stay DEF StorageInv, OperatorInv, storageVars

(* The database the operator has open.                                     *)
LEMMA OwnIs ==
    ASSUME StorageInv, OperatorInv, conn[Operator].pc = "open"
    PROVE  /\ Own = disk[at] /\ disk[at] \in Database /\ disk[at] \in Plain
           /\ Recorded(disk[at]) /\ disk[at].kind # "partial"
<1>1. conn[Operator].inode = at /\ at \in Inodes
  BY DEF OperatorInv, StorageInv, DatabaseOK
<1>2. disk[at] \in Database
  BY <1>1, BackupAssumption DEF StorageInv, DatabaseOK
<1> QED BY <1>1, <1>2, DatabaseKinds DEF Own, StorageInv, SchemaInv

(* CreateBackup.                                                           *)
LEMMA VacuumStep ==
    ASSUME IInv, NEW pass \in Passphrases \cup {NULL}, Vacuum(pass)
    PROVE  IInv'
<1>1. UNCHANGED <<storageVars, faults>> /\ faults \in Nat /\ conn[Operator].pc = "open"
  BY DEF Vacuum, IInv
<1>2. Own \in Plain /\ Own.kind # "partial" /\ Recorded(Own)
  BY <1>1, OwnIs DEF IInv
<1>3. FilesGood'
  BY <1>2, PlainIsGood, FileReplaced DEF Vacuum, IInv
<1>4. files'["backup"] = Own
  BY NamesAre DEF Vacuum, IInv, FilesGood
<1>5. job' = [pc |-> "checksum", pass |-> pass] /\ job' \in Job
  BY DEF Vacuum, Job
<1>6. JobGood'
  BY <1>2, <1>4, <1>5 DEF JobGood, JobOK
<1>7. RestoreInv' /\ BackupInv'
  BY <1>5 DEF RestoreInv, BackupInv
<1> QED BY <1>1, <1>3, <1>5, <1>6, <1>7, Still DEF IInv

LEMMA StartCopyStep ==
    ASSUME IInv, NEW pass \in Passphrases \cup {NULL}, StartCopy(pass)
    PROVE  IInv'
<1>1. UNCHANGED storageVars /\ faults' \in Nat /\ conn[Operator].pc = "open"
  BY DEF StartCopy, Fault, IInv
<1>2. disk[at] \in Database /\ Recorded(disk[at])
  BY <1>1, OwnIs DEF IInv
<1>3. FilesGood'
  BY OthersAreGood, FileReplaced DEF StartCopy, IInv
<1>4. files'["backup"] = Partial /\ Partial \in Plain
  BY NamesAre DEF StartCopy, IInv, FilesGood, Plain
<1>5. PICK seen \in Database : Recorded(seen) /\ job' = [pc |-> "copy", pass |-> pass, seen |-> seen]
  BY <1>2, TornIs DEF StartCopy
<1>6. job' \in Job
  <2>1. job' \in [pc : {"copy"}, pass : Passphrases \cup {NULL}, seen : Database]
    BY <1>5
  <2> QED BY <2>1 DEF Job
<1>7. JobGood'
  BY <1>4, <1>5, <1>6 DEF JobGood, JobOK, Recorded
<1>8. RestoreInv' /\ BackupInv'
  BY <1>5 DEF RestoreInv, BackupInv
<1>9. OperatorInv'
  BY <1>1, <1>5 DEF IInv, OperatorInv, storageVars
<1> QED BY <1>1, <1>3, <1>7, <1>8, <1>9, Still DEF IInv

LEMMA EndCopyStep ==
    ASSUME IInv, EndCopy
    PROVE  IInv'
<1>1. UNCHANGED <<storageVars, faults>> /\ faults \in Nat /\ conn[Operator].pc = "open"
  BY DEF EndCopy, IInv, OperatorInv
<1>2. job \in [pc : {"copy"}, pass : Passphrases \cup {NULL}, seen : Database]
  BY JobCases DEF EndCopy, IInv, JobGood, JobOK
<1>3. /\ job.seen \in Database /\ Recorded(job.seen)
      /\ disk[at] \in Database /\ Recorded(disk[at])
  BY <1>1, <1>2, OwnIs DEF EndCopy, IInv, JobGood
<1>4. PICK content \in {job.seen, disk[at], Torn} :
        files' = [files EXCEPT !["backup"] = content]
  BY DEF EndCopy
<1>5. content \in Plain /\ content.kind # "partial" /\ Recorded(content)
  BY <1>3, TornIs, DatabaseKinds
<1>6. FilesGood'
  BY <1>4, <1>5, PlainIsGood, FileReplaced DEF IInv
<1>7. files'["backup"] = content
  BY <1>4, NamesAre DEF IInv, FilesGood
<1>8. job' = [pc |-> "checksum", pass |-> job.pass] /\ job' \in Job
  BY <1>2 DEF EndCopy, Job
<1>9. JobGood'
  BY <1>5, <1>7, <1>8 DEF JobGood, JobOK
<1>10. RestoreInv' /\ BackupInv'
  BY <1>8 DEF RestoreInv, BackupInv
<1> QED BY <1>1, <1>6, <1>8, <1>9, <1>10, Still DEF IInv

LEMMA ChecksumStep ==
    ASSUME IInv, Checksum
    PROVE  IInv'
<1>1. UNCHANGED <<storageVars, files, faults>> /\ faults \in Nat
  BY DEF Checksum, IInv
<1>2. FilesGood'
  BY <1>1 DEF IInv, FilesGood, Good, Recorded
<1>3. job.pass \in Passphrases \cup {NULL}
  BY JobCases DEF Checksum, IInv, JobGood, JobOK
<1>4. files["backup"] \in Plain /\ files["backup"].kind # "partial"
  BY DEF Checksum, IInv, JobGood, JobOK
<1>5. CASE job.pass = NULL
  <2>1. job' = ManifestJob("backup", NULL, files["backup"])
    BY <1>5 DEF Checksum
  <2>2. job' \in Job /\ job'.pc = "manifest"
    <3>1. "backup" \in Copies
      BY DEF Copies
    <3> QED BY <1>4, <2>1, <3>1 DEF Job, ManifestJob
  <2>3. JobGood' /\ BackupInv'
    BY <1>1, <1>4, <2>1, <2>2 DEF ManifestJob, JobGood, JobOK, BackupInv
  <2> QED BY <1>1, <1>2, <2>2, <2>3, Still DEF IInv, RestoreInv
<1>6. CASE job.pass # NULL
  <2>1. job' = [pc |-> "seal", pass |-> job.pass, sum |-> files["backup"]]
    BY <1>6 DEF Checksum
  <2>2. job' \in Job
    BY <1>3, <1>4, <1>6, <2>1 DEF Job
  <2>3. JobGood' /\ BackupInv'
    BY <1>1, <1>4, <2>1, <2>2 DEF JobGood, JobOK, BackupInv
  <2> QED BY <1>1, <1>2, <2>1, <2>3, Still DEF IInv, RestoreInv
<1> QED BY <1>5, <1>6

LEMMA SealStep ==
    ASSUME IInv, Seal
    PROVE  IInv'
<1>1. /\ job \in [pc : {"seal", "remove"}, pass : Passphrases, sum : Plain]
      /\ job.pc = "seal" /\ UNCHANGED storageVars
  BY JobCases DEF Seal, IInv, JobGood, JobOK
<1>2. job' = [job EXCEPT !.pc = "remove"]
  BY DEF Seal
<1>3. /\ job' \in [pc : {"seal", "remove"}, pass : Passphrases, sum : Plain]
      /\ job'.pc = "remove" /\ job'.pass = job.pass /\ job'.sum = job.sum
  BY <1>1, <1>2
<1>4. files["backup"] \in Plain /\ files["backup"] = job.sum /\ Good(files["backup"])
  BY <1>1, NamesAre DEF IInv, JobGood, JobOK, BackupInv, FilesGood
<1>5. /\ Good(Sealed(job.pass, files["backup"]))
      /\ Good(Sealed(job.pass, Partial))
  BY <1>1, <1>4, OthersAreGood DEF Good, Plain, Recorded, Partial
<1>6. /\ FilesGood' /\ faults' \in Nat
      /\ faults' = 0 => files'["backup.enc"] = Sealed(job.pass, files["backup"])
      /\ faults > 0 => faults' > 0
  <2>1. CASE WriteFile("backup.enc", Sealed(job.pass, files["backup"]))
    BY <1>5, <2>1, NamesAre, FileWritten DEF IInv
  <2>2. CASE files' = [files EXCEPT !["backup.enc"] = Sealed(job.pass, Partial)] /\ Fault
    <3>1. FilesGood'
      BY <1>5, <2>2, FileReplaced DEF IInv
    <3>2. faults \in Nat /\ faults' = faults + 1
      BY <2>2 DEF IInv, Fault
    <3> QED BY <3>1, <3>2
  <2> QED BY <2>1, <2>2 DEF Seal
<1>7. job' \in Job
  BY <1>3 DEF Job
<1>8. JobGood'
  BY <1>1, <1>3, <1>7 DEF JobGood, JobOK, IInv
<1>9. RestoreInv' /\ BackupInv'
  BY <1>3, <1>4, <1>6 DEF RestoreInv, BackupInv
<1> QED BY <1>1, <1>3, <1>6, <1>8, <1>9, Still DEF IInv

LEMMA RemoveStep ==
    ASSUME IInv, Remove
    PROVE  IInv'
<1>1. job \in [pc : {"seal", "remove"}, pass : Passphrases, sum : Plain] /\ job.pc = "remove"
  BY JobCases DEF Remove, IInv, JobGood, JobOK
<1>2. UNCHANGED storageVars /\ faults' \in Nat /\ (faults' = 0 => faults = 0)
  BY DEF Remove, Fault, IInv
<1>3. FilesGood' /\ files'["backup.enc"] = files["backup.enc"]
  <2>1. CASE UNCHANGED files
    BY <2>1 DEF IInv, FilesGood, Good, Recorded
  <2>2. CASE files' = [files EXCEPT !["backup"] = Absent]
    BY <2>2, OthersAreGood, NamesAre, FileReplaced DEF IInv, FilesGood
  <2> QED BY <2>1, <2>2 DEF Remove
<1>4. job' = [pc |-> "manifest", copy |-> "backup.enc", pass |-> job.pass, sum |-> job.sum]
  BY DEF Remove, ManifestJob
<1>5. job' \in Job
  BY <1>1, <1>4 DEF Job, Copies
<1>6. JobGood'
  BY <1>1, <1>4, <1>5 DEF JobGood, JobOK, IInv
<1>7. faults = 0 => files["backup.enc"] = Sealed(job.pass, job.sum)
  BY <1>1 DEF IInv, BackupInv
<1>8. job.pass # NULL
  BY <1>1, BackupAssumption
<1>9. RestoreInv' /\ BackupInv'
  BY <1>2, <1>3, <1>4, <1>7, <1>8 DEF RestoreInv, BackupInv
<1> QED BY <1>2, <1>3, <1>4, <1>6, <1>9, Still DEF IInv

LEMMA WriteManifestStep ==
    ASSUME IInv, WriteManifest
    PROVE  IInv'
<1>1. /\ job \in [pc : {"manifest"}, copy : Copies, pass : Passphrases \cup {NULL}, sum : Plain]
      /\ job.pc = "manifest" /\ job.sum.kind # "partial"
  BY JobCases DEF WriteManifest, IInv, JobGood, JobOK
<1>2. ManifestOf[job.copy] \in Names /\ job.copy \in Names /\ ManifestOf[job.copy] # job.copy
  BY <1>1, NamesAre
<1>3. Good(Manifest(job.sum, job.pass # NULL))
  BY <1>1, OthersAreGood
<1>4. /\ FilesGood' /\ faults' \in Nat
      /\ files'[job.copy] = files[job.copy]
      /\ faults' = 0 => faults = 0 /\ files'[ManifestOf[job.copy]] = Manifest(job.sum, job.pass # NULL)
      /\ faults > 0 => faults' > 0
  BY <1>2, <1>3, FileWritten DEF WriteManifest, IInv
<1>5. UNCHANGED storageVars
  BY DEF WriteManifest
<1>6. job' = [pc |-> "audit", copy |-> job.copy, pass |-> job.pass] /\ job' \in Job
  BY <1>1 DEF WriteManifest, Job
<1>7. JobGood'
  BY <1>6 DEF JobGood, JobOK
<1>8. job'.pc = "audit" /\ faults' = 0 => Accepted(job.copy, job.pass)' # {}
  <2>1. SUFFICES ASSUME faults' = 0 PROVE Accepted(job.copy, job.pass)' # {}
    OBVIOUS
  <2>2. files'[ManifestOf[job.copy]] = Manifest(job.sum, job.pass # NULL) /\ faults = 0
    BY <1>4, <2>1
  <2>3. /\ files'[ManifestOf[job.copy]].kind = "manifest"
        /\ files'[ManifestOf[job.copy]].sum = job.sum
    BY <2>2 DEF Manifest
  <2>4. files'[ManifestOf[job.copy]].encrypted = (job.pass # NULL)
    BY <2>2, ManifestFields
  <2>5. CASE job.copy = "backup"
    <3>1. job.pass = NULL /\ files[job.copy] = job.sum
      BY <1>1, <2>2, <2>5 DEF IInv, BackupInv
    <3>2. LET manifest == files'[ManifestOf[job.copy]]
          IN manifest.kind = "manifest" /\ manifest.encrypted = FALSE /\ manifest.sum = job.sum
      BY <2>3, <2>4, <3>1
    <3>3. job'.copy = job.copy /\ files'[job.copy] = job.sum
      BY <1>4, <1>6, <3>1
    <3>4. Accepted(job.copy, job.pass)' = {job.sum} \cap Plain \cap {job.sum}
      BY <3>2, <3>3 DEF Accepted, Read
    <3> QED BY <1>1, <3>4
  <2>6. CASE job.copy = "backup.enc"
    <3>1. job.pass # NULL /\ files[job.copy] = Sealed(job.pass, job.sum)
      BY <1>1, <2>2, <2>6 DEF IInv, BackupInv
    <3>2. LET manifest == files'[ManifestOf[job.copy]]
          IN manifest.kind = "manifest" /\ manifest.encrypted = TRUE /\ manifest.sum = job.sum
      BY <2>3, <2>4, <3>1
    <3>3. /\ job'.copy = job.copy /\ job'.pass = job.pass
          /\ files'[job.copy].kind = "sealed" /\ files'[job.copy].pass = job.pass
          /\ files'[job.copy].of = job.sum
      BY <1>4, <1>6, <3>1 DEF Sealed
    <3>4. Accepted(job.copy, job.pass)' = {job.sum} \cap {job.sum}
      BY <3>2, <3>3 DEF Accepted, Read
    <3> QED BY <3>4
  <2> QED BY <1>1, <2>5, <2>6, NamesAre
<1>9. RestoreInv' /\ BackupInv'
  BY <1>6, <1>8 DEF RestoreInv, BackupInv
<1> QED BY <1>4, <1>5, <1>6, <1>7, <1>9, Still DEF IInv

LEMMA AuditStep ==
    ASSUME IInv, Audit
    PROVE  IInv' /\ \A i \in Inodes : disk[i].kind = "whole" => NotOlder(disk[i], disk'[i])
<1>1. job' = None /\ UNCHANGED <<files, faults>> /\ faults \in Nat /\ FilesGood
  BY DEF Audit, IInv
<1>2. FilesGood'
  BY <1>1 DEF FilesGood, Good, Recorded
<1>3. /\ StorageInv'
      /\ conn'[Operator].pc # "closed" => conn'[Operator].inode = at'
      /\ \A i \in Inodes : disk[i].kind = "whole" => NotOlder(disk[i], disk'[i])
  <2>1. CASE Write(Operator)
    BY <2>1, BackupAssumption, WriteStep DEF IInv, StorageInv, OperatorInv, Write
  <2>2. CASE UNCHANGED storageVars
    BY <2>2, Still, SameDisk DEF IInv, StorageInv, storageVars
  <2> QED BY <2>1, <2>2 DEF Audit
<1> QED BY <1>1, <1>2, <1>3, NoJob DEF IInv

(* RestoreBackup.                                                          *)
LEMMA VerifyStep ==
    ASSUME IInv, NEW copy \in Copies, NEW pass \in Passphrases \cup {NULL}, Verify(copy, pass)
    PROVE  IInv'
<1>1. /\ UNCHANGED <<disk, at, files>> /\ faults' \in Nat
      /\ Hangup(Operator) \/ Die(Operator)
  BY DEF Verify, Fault, IInv
<1>2. StorageInv' /\ conn' = [conn EXCEPT ![Operator] = Closed]
  BY <1>1, BackupAssumption, Quit, LogOK DEF IInv, StorageInv
<1>3. FilesGood'
  BY <1>1 DEF IInv, FilesGood, Good, Recorded
<1>4. PICK data \in Accepted(copy, pass) : job' = [pc |-> "write", data |-> data]
  BY DEF Verify
<1>5. data \in Plain /\ Recorded(data) /\ data.kind # "partial"
  BY <1>4, AcceptedIsGood DEF IInv
<1>6. job' \in Job
  BY <1>4, <1>5 DEF Job
<1>7. JobGood'
  BY <1>4, <1>5, <1>6 DEF JobGood, JobOK, Recorded
<1>8. RestoreInv' /\ BackupInv'
  BY <1>4 DEF RestoreInv, BackupInv
<1>9. OperatorInv'
  BY <1>2, <1>4, BackupAssumption DEF IInv, StorageInv, DatabaseOK, OperatorInv, Closed
<1> QED BY <1>1, <1>2, <1>3, <1>7, <1>8, <1>9 DEF IInv

LEMMA WriteTmpStep ==
    ASSUME IInv, WriteTmp
    PROVE  IInv'
<1>1. /\ job \in [pc : {"write", "rename"}, data : Plain] /\ job.pc = "write"
      /\ Recorded(job.data) /\ job.data.kind # "partial" /\ UNCHANGED storageVars
  BY JobCases DEF WriteTmp, IInv, JobGood, JobOK
<1>2. job' = [job EXCEPT !.pc = "rename"]
  BY DEF WriteTmp
<1>3. /\ job' \in [pc : {"write", "rename"}, data : Plain]
      /\ job'.pc = "rename" /\ job'.data = job.data
  BY <1>1, <1>2
<1>4. Good(job.data)
  BY <1>1, PlainIsGood
<1>5. /\ FilesGood' /\ faults' \in Nat
      /\ files'["tmp"] = job.data \/ (files'["tmp"] = Partial /\ faults' > 0)
  BY <1>4, NamesAre, FileWritten DEF WriteTmp, IInv
<1>6. job' \in Job
  BY <1>3 DEF Job
<1>7. files'["tmp"] \in Plain
  BY <1>1, <1>5 DEF Plain
<1>8. JobGood'
  BY <1>1, <1>3, <1>6, <1>7 DEF JobGood, JobOK, Recorded
<1>9. RestoreInv' /\ BackupInv'
  BY <1>1, <1>3, <1>5 DEF RestoreInv, BackupInv
<1>10. OperatorInv'
  BY <1>1, <1>3 DEF IInv, OperatorInv, storageVars
<1> QED BY <1>1, <1>5, <1>8, <1>9, <1>10, Still DEF IInv

LEMMA RenameStep ==
    ASSUME IInv, Rename
    PROVE  IInv' /\ \A i \in InUse : disk'[i] = disk[i]
<1>1. /\ job.pc = "rename" /\ job' = None /\ faults \in Nat
      /\ files["tmp"] \in Plain /\ Good(files["tmp"]) /\ conn[Operator] = Closed
  BY NamesAre DEF Rename, IInv, JobGood, JobOK, FilesGood, OperatorInv
<1>2. ASSUME NEW i \in Inodes \ InUse, at' = i, disk' = [disk EXCEPT ![i] = files["tmp"]],
             files' = [files EXCEPT !["tmp"] = Absent], UNCHANGED <<wal, conn, faults>>
      PROVE  IInv' /\ \A j \in InUse : disk'[j] = disk[j]
  <2>1. FilesGood'
    BY <1>2, OthersAreGood, FileReplaced DEF IInv
  <2>2. disk' \in [Inodes -> Plain] /\ disk'[i] = files["tmp"] /\ at' \in Inodes
    BY <1>1, <1>2 DEF IInv, StorageInv, DatabaseOK
  <2>3. InUse \subseteq Inodes /\ \A j \in InUse : disk'[j] = disk[j]
    BY <1>2 DEF IInv, StorageInv, DatabaseOK, InUse
  <2>4. \A p \in Processes : conn[p].pc # "closed" => conn[p].inode \in InUse
    BY ConnOK DEF InUse, Holds, IInv, StorageInv
  <2>5. DatabaseOK'
    BY <1>2, <2>2, <2>3, <2>4 DEF IInv, StorageInv, DatabaseOK
  <2>6. \A j \in Inodes : Recorded(disk'[j])
    BY <1>1, <1>2 DEF IInv, StorageInv, DatabaseOK, SchemaInv, Good
  <2>7. SchemaInv'
    BY <1>2, <2>3, <2>4, <2>6 DEF IInv, StorageInv, SchemaInv, Fits, Recorded
  <2>8. conn'[Operator].pc = "closed"
    BY <1>1, <1>2 DEF Closed
  <2> QED BY <1>1, <1>2, <2>1, <2>3, <2>5, <2>7, <2>8, NoJob DEF IInv, StorageInv
<1>3. ASSUME Fault, UNCHANGED <<storageVars, files>>
      PROVE  IInv' /\ \A j \in InUse : disk'[j] = disk[j]
  <2>1. FilesGood' /\ faults' \in Nat
    BY <1>1, <1>3 DEF IInv, FilesGood, Good, Recorded, Fault
  <2> QED BY <1>1, <1>3, <2>1, NoJob, Still DEF IInv, storageVars
<1> QED BY <1>2, <1>3 DEF Rename

(* A failed copy, and a process that ends where it is.                     *)
LEMMA CopyFailsStep ==
    ASSUME IInv, CopyFails
    PROVE  IInv'
<1>1. job' = None /\ UNCHANGED <<storageVars, files>> /\ faults' \in Nat
  BY DEF CopyFails, Fault, IInv
<1>2. FilesGood'
  BY <1>1 DEF IInv, FilesGood, Good, Recorded
<1> QED BY <1>1, <1>2, NoJob, Still DEF IInv

LEMMA EndStep ==
    ASSUME IInv, NEW p \in Processes, End(p)
    PROVE  IInv'
<1>1. (Hangup(p) \/ Die(p)) /\ UNCHANGED <<disk, at, faults>> /\ faults' \in Nat
  BY DEF End, IInv
<1>2. StorageInv' /\ conn' = [conn EXCEPT ![p] = Closed] /\ conn \in [Processes -> Conn]
  BY <1>1, Quit, LogOK DEF IInv, StorageInv, DatabaseOK
<1>3. CASE p = Operator
  <2>1. job' = None /\ conn'[Operator].pc = "closed"
    BY <1>2, <1>3 DEF End, Closed
  <2>2. FilesGood'
    <3>1. CASE UNCHANGED files
      BY <3>1 DEF IInv, FilesGood, Good, Recorded
    <3>2. CASE \E name \in Writing : files' = [files EXCEPT ![name] = Partial]
      BY <3>2, OthersAreGood, FileReplaced DEF IInv
    <3> QED BY <1>3, <3>1, <3>2 DEF End
  <2> QED BY <1>1, <1>2, <2>1, <2>2, NoJob DEF IInv
<1>4. CASE p # Operator
  <2>1. UNCHANGED <<job, files>> /\ conn'[Operator] = conn[Operator]
    BY <1>2, <1>4, BackupAssumption DEF End
  <2> QED BY <1>1, <1>2, <2>1 DEF IInv, FilesGood, Good, Recorded, JobGood, JobOK,
                RestoreInv, BackupInv, OperatorInv, Accepted, Read
<1> QED BY <1>3, <1>4

(* Any process opens, migrates and writes.                                 *)
LEMMA OpenOrWriteKeeps ==
    ASSUME IInv, NEW p \in Processes, OpenOrWriteStep(p)
    PROVE  IInv' /\ \A i \in Inodes : disk[i].kind = "whole" => NotOlder(disk[i], disk'[i])
<1>1. UNCHANGED <<files, job, faults>> /\ OpenOrWrite(p) /\ (p = Operator => job = None)
  BY DEF OpenOrWriteStep, Elsewhere
<1>2. /\ DatabaseOK' /\ SchemaInv' /\ at' = at
      /\ \A j \in Inodes : disk[j].kind = "whole" => NotOlder(disk[j], disk'[j])
  BY <1>1, StorageStep DEF IInv, StorageInv
<1>3. FilesGood' /\ faults' \in Nat
  BY <1>1 DEF IInv, FilesGood, Good, Recorded
<1>4. JobGood'
  BY <1>1, <1>2 DEF IInv, JobGood, JobOK, Recorded
<1>5. RestoreInv' /\ BackupInv'
  BY <1>1, <1>2 DEF IInv, RestoreInv, BackupInv, Accepted, Read
<1>6. OperatorInv'
  <2>1. CASE p = Operator
    <3>1. job.pc = "none" /\ job' = job
      BY <1>1, <2>1 DEF None
    <3>2. conn'[Operator].pc # "closed" => conn'[Operator].inode = at
      BY <1>1, <2>1, BackupAssumption, StorageStep DEF IInv, StorageInv, OperatorInv
    <3> QED BY <1>2, <3>1, <3>2 DEF OperatorInv
  <2>2. CASE p # Operator
    <3>1. conn'[Operator] = conn[Operator]
      BY <1>1, <2>2, BackupAssumption, StorageStep DEF IInv, StorageInv
    <3> QED BY <1>1, <1>2, <3>1 DEF IInv, OperatorInv
  <2> QED BY <2>1, <2>2
<1> QED BY <1>2, <1>3, <1>4, <1>5, <1>6 DEF IInv, StorageInv
----------------------------------------------------------------------------
(* The calm layer.  In a calm behaviour nobody but the operator opens the  *)
(* database while it copies or replaces the file.                          *)
LEMMA NotMeanwhile ==
    ASSUME IInv, CalmDatabase, ~Beside', NEW p \in Processes, OpenOrWriteStep(p)
    PROVE  job.pc \notin {"copy", "write", "rename"}
<1>1. CASE p = Operator
  BY <1>1 DEF OpenOrWriteStep, Elsewhere, None
<1>2. CASE p # Operator
  <2> SUFFICES ASSUME job.pc \in {"copy", "write", "rename"} PROVE FALSE
    OBVIOUS
  <2>1. conn[p].pc = "closed"
    BY <1>2 DEF CalmDatabase, Others
  <2>2. conn'[p].pc = "closed"
    BY <1>2 DEF Beside, Others, OpenOrWriteStep
  <2>3. at \in Inodes /\ disk[at] \in Plain /\ disk[at].kind = "whole" /\ conn \in [Processes -> Conn]
    BY DEF CalmDatabase, IInv, StorageInv, DatabaseOK
  <2>4. ~ReadVersion(p)
    <3> SUFFICES ASSUME ReadVersion(p) PROVE FALSE
      OBVIOUS
    <3>1. disk[at].image.version + 1 \in 1..(SchemaVersion + 1)
      BY <2>3, PlainKinds, DatabaseKinds, SchemaAssumption DEF ReadVersion, Versions
    <3>2. conn'[p].pc \in {"open", "migrate"}
      BY <2>3, <3>1, MigrateFromOK DEF ReadVersion
    <3> QED BY <2>2, <3>2
  <2>5. ~OpenEmpty(p) /\ ~OpenTorn(p)
    BY <2>3 DEF OpenEmpty, OpenTorn, CalmDatabase
  <2> QED BY <2>1, <2>4, <2>5 DEF OpenOrWriteStep, OpenOrWrite, ApplyMigration, RejectMigration, Write
<1> QED BY <1>1, <1>2

(* Its storage steps leave the file at the path whole and the log its own. *)
LEMMA CalmStorage ==
    ASSUME IInv, CalmDatabase, ~Beside', NEW p \in Processes, OpenOrWrite(p), UNCHANGED job,
           job.pc \notin {"copy", "write", "rename"}
    PROVE  CalmDatabase'
<1>1. /\ at \in Inodes /\ at' = at /\ disk[at] \in Plain /\ disk[at].kind = "whole"
      /\ conn \in [Processes -> Conn] /\ disk \in [Inodes -> Plain]
      /\ DatabaseOK /\ SchemaInv /\ DatabaseOK' /\ wal \in {NULL, at}
  BY StorageStep DEF CalmDatabase, IInv, StorageInv, DatabaseOK, Foreign
<1>2. ~OpenEmpty(p) /\ ~OpenTorn(p)
  BY <1>1 DEF OpenEmpty, OpenTorn, CalmDatabase
<1>3. wal' \in {NULL, at}
  BY <1>1, <1>2 DEF OpenOrWrite, ReadVersion, ApplyMigration, RejectMigration, Write, Hangup,
                    LogAfterClose
<1>4. disk'[at].kind = "whole"
  <2>1. CASE ReadVersion(p) \/ RejectMigration(p)
    BY <1>1, <2>1 DEF ReadVersion, RejectMigration
  <2>2. CASE ApplyMigration(p)
    <3>1. conn[p].inode = at
      BY <2>2 DEF ApplyMigration, CalmDatabase
    <3>2. disk'[at] = Migrated(disk[at], conn[p].next)
      BY <1>1, <2>2, <3>1 DEF ApplyMigration
    <3>3. disk[at] \in [kind : {"whole"}, image : Image]
      BY <1>1, PlainKinds
    <3> QED BY <1>1, <3>2, <3>3 DEF Migrated
  <2>3. CASE Write(p)
    <3>1. conn[p].inode = at
      BY <2>3 DEF Write, CalmDatabase
    <3>2. disk[at] \in [kind : {"whole"}, image : Image]
      BY <1>1, PlainKinds
    <3> QED BY <1>1, <2>3, <3>1, <3>2 DEF Write
  <2> QED BY <1>2, <2>1, <2>2, <2>3 DEF OpenOrWrite
<1>5. ASSUME NEW q \in Processes, conn'[q].pc # "closed"
      PROVE  conn'[q].inode = at
  BY <1>1, <1>5, StorageStep DEF CalmDatabase
<1> QED BY <1>1, <1>3, <1>4, <1>5 DEF CalmDatabase, Foreign

(* What a calm step of the operator that leaves the database alone keeps.  *)
LEMMA CalmStill ==
    ASSUME CalmDatabase, ~Beside', UNCHANGED storageVars, job'.pc \notin {"write", "rename"}
    PROVE  CalmDatabase'
BY DEF CalmDatabase, Foreign, Beside, Others, storageVars

Calming(content) ==
    /\ content.kind # "torn"
    /\ content.kind = "sealed" => content.of.kind # "torn"
    /\ content.kind = "manifest" => content.sum.kind # "torn"

LEMMA CalmReplaced ==
    ASSUME FilesGood, \A name \in Names : Calming(files[name]), NEW changed, NEW content,
           Calming(content), files' = [files EXCEPT ![changed] = content]
    PROVE  \A name \in Names : Calming(files'[name])
BY DEF FilesGood

LEMMA CalmContents ==
    /\ Calming(Partial) /\ Calming(Absent)
    /\ \A x \in Plain : x.kind # "torn" => Calming(x)
    /\ \A pass, x : x.kind # "torn" => Calming(Sealed(pass, x))
    /\ \A x, encrypted : x.kind # "torn" => Calming(Manifest(x, encrypted))
<1>1. \A x \in Plain : x.kind # "torn" => Calming(x)
  BY PlainKinds DEF Calming
<1>2. \A pass, x : x.kind # "torn" => Calming(Sealed(pass, x))
  BY DEF Calming, Sealed
<1>3. \A x, encrypted : x.kind # "torn" => Calming(Manifest(x, encrypted))
  BY DEF Calming, Manifest
<1> QED BY <1>1, <1>2, <1>3 DEF Calming, Partial, Absent

LEMMA CalmFilesIs ==
    CalmFiles <=> /\ \A name \in Names : Calming(files[name])
                  /\ job.pc = "copy" => job.seen = disk[at]
                  /\ job.pc \in {"seal", "remove", "manifest"} => job.sum.kind # "torn"
                  /\ job.pc \in {"write", "rename"} => job.data.kind # "torn"
BY DEF CalmFiles, Calming

(* A calm step keeps the calm layer.                                       *)
LEMMA CalmStep ==
    ASSUME IInv, CalmDatabase, CalmFiles, faults = 0, faults' = 0, ~Beside', Step
    PROVE  CalmDatabase' /\ CalmFiles'
<1> DEFINE Files == \A name \in Names : Calming(files[name])
           FilesN == \A name \in Names : Calming(files'[name])
<1>0. /\ FilesGood /\ Files /\ ~Fault
      /\ at \in Inodes /\ disk[at] \in Plain /\ disk[at].kind = "whole"
      /\ conn \in [Processes -> Conn]
      /\ JobOK
  BY CalmFilesIs DEF CalmDatabase, IInv, StorageInv, DatabaseOK, Fault, JobGood
<1>1. ASSUME NEW p \in Processes, OpenOrWriteStep(p) PROVE CalmDatabase' /\ CalmFiles'
  <2>1. job.pc \notin {"copy", "write", "rename"}
    BY <1>1, NotMeanwhile
  <2>2. CalmDatabase'
    BY <1>1, <2>1, CalmStorage DEF OpenOrWriteStep
  <2>3. UNCHANGED <<files, job>>
    BY <1>1 DEF OpenOrWriteStep
  <2>4. CalmFiles'
    BY <2>1, <2>3 DEF CalmFiles
  <2> QED BY <2>2, <2>4
<1>2. ASSUME NEW p \in Processes, End(p) PROVE CalmDatabase' /\ CalmFiles'
  <2>1. /\ UNCHANGED <<disk, at>> /\ wal' \in {wal, NULL}
        /\ conn' = [conn EXCEPT ![p] = Closed]
    BY <1>2, LogOK DEF End, IInv, StorageInv
  <2>2. /\ \A q \in Processes : conn'[q].pc # "closed" => conn'[q] = conn[q]
        /\ Others = {} => Others' = {}
    BY <1>0, <2>1 DEF Closed, Others
  <2>3. job' = job \/ job' = None
    BY <1>2 DEF End
  <2>4. CalmDatabase'
    BY <2>1, <2>2, <2>3 DEF CalmDatabase, Foreign, None
  <2>5. FilesN
    <3>1. CASE UNCHANGED files
      BY <1>0, <3>1
    <3>2. CASE \E name \in Writing : files' = [files EXCEPT ![name] = Partial]
      BY <1>0, <3>2, CalmReplaced, CalmContents
    <3> QED BY <1>2, <3>1, <3>2 DEF End
  <2>6. CalmFiles'
    BY <2>1, <2>3, <2>5 DEF CalmFiles, Calming, None
  <2> QED BY <2>4, <2>6
<1>3. ASSUME NEW pass \in Passphrases \cup {NULL}, Vacuum(pass) PROVE CalmDatabase' /\ CalmFiles'
  <2>1. /\ Own = disk[at] /\ UNCHANGED storageVars
        /\ job' = [pc |-> "checksum", pass |-> pass]
        /\ files' = [files EXCEPT !["backup"] = Own]
    BY <1>3, OwnIs DEF Vacuum, IInv
  <2>2. FilesN
    BY <1>0, <2>1, CalmReplaced, CalmContents
  <2>3. CalmDatabase'
    BY <2>1, CalmStill
  <2> QED BY <2>1, <2>2, <2>3 DEF CalmFiles, Calming
<1>4. ASSUME NEW pass \in Passphrases \cup {NULL}, StartCopy(pass) PROVE CalmDatabase' /\ CalmFiles'
  <2>1. /\ UNCHANGED storageVars /\ job'.pc = "copy"
        /\ files' = [files EXCEPT !["backup"] = Partial]
    BY <1>4 DEF StartCopy
  <2>2. Others = {}
    BY <2>1 DEF Beside, Others, storageVars
  <2>3. job' = [pc |-> "copy", pass |-> pass, seen |-> disk[at]]
    BY <1>0, <1>4, <2>2 DEF StartCopy
  <2>4. FilesN
    BY <1>0, <2>1, CalmReplaced, CalmContents
  <2>5. CalmDatabase' /\ disk'[at'] = disk[at]
    BY <2>1, CalmStill DEF storageVars
  <2> QED BY <2>3, <2>4, <2>5 DEF CalmFiles, Calming
<1>5. CASE EndCopy
  <2>1. job.seen = disk[at]
    BY <1>5 DEF EndCopy, CalmFiles
  <2>2. /\ UNCHANGED storageVars /\ job' = [pc |-> "checksum", pass |-> job.pass]
        /\ files' = [files EXCEPT !["backup"] = disk[at]]
    BY <1>5, <2>1 DEF EndCopy
  <2>3. FilesN
    BY <1>0, <2>2, CalmReplaced, CalmContents
  <2>4. CalmDatabase'
    BY <2>2, CalmStill
  <2> QED BY <2>2, <2>3, <2>4 DEF CalmFiles, Calming
<1>6. CASE Checksum
  <2>1. /\ UNCHANGED <<storageVars, files>> /\ job'.sum = files["backup"]
        /\ job'.pc \in {"seal", "manifest"}
    BY <1>6 DEF Checksum, ManifestJob
  <2>2. files["backup"].kind # "torn"
    BY <1>0, NamesAre DEF Calming
  <2>3. CalmDatabase'
    BY <2>1, CalmStill
  <2>4. FilesN
    BY <1>0, <2>1
  <2> QED BY <2>1, <2>2, <2>3, <2>4 DEF CalmFiles, Calming
<1>7. CASE Seal
  <2>1. /\ job \in [pc : {"seal", "remove"}, pass : Passphrases, sum : Plain]
        /\ job' = [job EXCEPT !.pc = "remove"] /\ UNCHANGED storageVars
        /\ files' = [files EXCEPT !["backup.enc"] = Sealed(job.pass, files["backup"])]
    BY <1>0, <1>7, JobCases DEF Seal, WriteFile, JobOK
  <2>2. files["backup"].kind # "torn"
    BY <1>0, NamesAre DEF Calming
  <2>3. FilesN
    BY <1>0, <2>1, <2>2, CalmReplaced, CalmContents
  <2>4. job'.pc = "remove" /\ job'.sum = job.sum /\ job.sum.kind # "torn"
    BY <1>7, <2>1 DEF Seal, CalmFiles
  <2>5. CalmDatabase'
    BY <2>1, <2>4, CalmStill
  <2> QED BY <2>3, <2>4, <2>5 DEF CalmFiles, Calming
<1>8. CASE Remove
  <2>1. /\ UNCHANGED storageVars /\ job'.pc = "manifest" /\ job'.sum = job.sum
        /\ files' = [files EXCEPT !["backup"] = Absent]
    BY <1>0, <1>8 DEF Remove, ManifestJob
  <2>2. FilesN
    BY <1>0, <2>1, CalmReplaced, CalmContents
  <2>3. job.sum.kind # "torn"
    BY <1>8 DEF Remove, CalmFiles
  <2>4. CalmDatabase'
    BY <2>1, CalmStill
  <2> QED BY <2>1, <2>2, <2>3, <2>4 DEF CalmFiles, Calming
<1>9. CASE WriteManifest
  <2>1. /\ UNCHANGED storageVars /\ job'.pc = "audit" /\ job.sum.kind # "torn"
        /\ files' = [files EXCEPT ![ManifestOf[job.copy]] = Manifest(job.sum, job.pass # NULL)]
    BY <1>0, <1>9 DEF WriteManifest, WriteFile, CalmFiles
  <2>2. FilesN
    BY <1>0, <2>1, CalmReplaced, CalmContents
  <2>3. CalmDatabase'
    BY <2>1, CalmStill
  <2> QED BY <2>1, <2>2, <2>3 DEF CalmFiles, Calming
<1>10. CASE Audit
  <2>1. job' = None /\ None.pc = "none" /\ UNCHANGED files
    BY <1>10 DEF Audit, None
  <2>2. CASE UNCHANGED storageVars
    <3>1. CalmDatabase'
      BY <2>1, <2>2, CalmStill
    <3> QED BY <1>0, <2>1, <3>1 DEF CalmFiles, Calming
  <2>3. CASE Write(Operator)
    <3>1. /\ at' = at /\ wal' = wal /\ conn' = conn
          /\ conn[Operator].inode = at /\ disk'[at].kind = disk[at].kind
      BY <1>0, <2>3, BackupAssumption DEF Write, CalmDatabase, IInv, StorageInv, DatabaseOK
    <3>2. CalmDatabase'
      BY <2>1, <3>1 DEF CalmDatabase, Foreign
    <3> QED BY <1>0, <2>1, <3>2 DEF CalmFiles, Calming
  <2> QED BY <1>10, <2>2, <2>3 DEF Audit
<1>11. ASSUME NEW copy \in Copies, NEW pass \in Passphrases \cup {NULL}, Verify(copy, pass)
       PROVE  CalmDatabase' /\ CalmFiles'
  <2>1. PICK data \in Accepted(copy, pass) : job' = [pc |-> "write", data |-> data]
    BY <1>11 DEF Verify
  <2>2. /\ Hangup(Operator) /\ UNCHANGED <<disk, at, files>>
        /\ conn[Operator].pc = "open" /\ conn[Operator].inode = at
    BY <1>0, <1>11 DEF Verify, IInv, OperatorInv
  <2>3. data.kind # "torn"
    <3>1. data = files[ManifestOf[copy]].sum /\ files[ManifestOf[copy]].kind = "manifest"
      BY DEF Accepted
    <3> QED BY <1>0, <3>1, NamesAre DEF Calming
  <2>4. \A q \in Processes : conn'[q] = IF q = Operator THEN Closed ELSE conn[q]
    BY <1>0, <2>2 DEF Hangup
  <2>5. Others' = {} /\ Others = {}
    BY <2>1, <2>4 DEF Beside, Others
  <2>6. \A q \in Processes : conn'[q].pc = "closed"
    BY <2>4, <2>5 DEF Others, Closed
  <2>7. wal' = NULL
    BY <2>2, <2>5 DEF Hangup, LogAfterClose, Others, Holds, CalmDatabase, Foreign, Closed
  <2>8. CalmDatabase'
    BY <2>1, <2>2, <2>5, <2>6, <2>7 DEF CalmDatabase, Foreign
  <2>9. FilesN
    BY <1>0, <2>2
  <2> QED BY <2>1, <2>3, <2>8, <2>9 DEF CalmFiles, Calming
<1>12. CASE WriteTmp
  <2>1. /\ job \in [pc : {"write", "rename"}, data : Plain]
        /\ job' = [job EXCEPT !.pc = "rename"] /\ UNCHANGED storageVars
        /\ files' = [files EXCEPT !["tmp"] = job.data]
    BY <1>0, <1>12, JobCases DEF WriteTmp, WriteFile, JobOK
  <2>2. job'.pc = "rename" /\ job'.data = job.data /\ job.data.kind # "torn"
    BY <1>12, <2>1 DEF WriteTmp, CalmFiles
  <2>3. FilesN
    BY <1>0, <2>1, <2>2, CalmReplaced, CalmContents
  <2>4. CalmDatabase'
    BY <1>12, <2>1, <2>2 DEF WriteTmp, CalmDatabase, Foreign, Others, storageVars
  <2> QED BY <2>2, <2>3, <2>4 DEF CalmFiles, Calming
<1>13. CASE Rename
  <2>1. PICK i \in Inodes \ InUse : /\ at' = i /\ disk' = [disk EXCEPT ![i] = files["tmp"]]
                                   /\ files' = [files EXCEPT !["tmp"] = Absent]
                                   /\ UNCHANGED <<wal, conn>>
    BY <1>0, <1>13 DEF Rename
  <2>2. job.pc = "rename" /\ job' = None /\ None.pc = "none"
    BY <1>13 DEF Rename, None
  <2>3. files["tmp"] = job.data /\ files["tmp"] \in Plain
    BY <1>0, <2>2 DEF IInv, RestoreInv, JobOK
  <2>4. files["tmp"].kind = "whole"
    BY <2>2, <2>3, PlainKinds DEF IInv, JobGood, CalmFiles
  <2>5. disk'[at'].kind = "whole"
    BY <2>1, <2>4 DEF IInv, StorageInv, DatabaseOK
  <2>6. wal' = NULL /\ \A q \in Processes : conn'[q].pc = "closed"
    BY <2>1, <2>2 DEF CalmDatabase, Others, IInv, OperatorInv, Closed
  <2>7. CalmDatabase'
    BY <2>2, <2>5, <2>6 DEF CalmDatabase, Foreign
  <2>8. FilesN
    BY <1>0, <2>1, CalmReplaced, CalmContents
  <2> QED BY <2>2, <2>7, <2>8 DEF CalmFiles, Calming
<1>14. ~CopyFails
  BY <1>0 DEF CopyFails
<1> QED BY <1>1, <1>2, <1>3, <1>4, <1>5, <1>6, <1>7, <1>8, <1>9, <1>10, <1>11, <1>12, <1>13, <1>14
        DEF Step
----------------------------------------------------------------------------
LEMMA InitIInv == Init => IInv /\ CalmInv /\ raced \in BOOLEAN
<1> SUFFICES ASSUME Init PROVE IInv /\ CalmInv /\ raced \in BOOLEAN
  OBVIOUS
<1>1. PICK v \in Versions : disk = [i \in Inodes |-> Whole(ImageAt(v))]
  BY DEF Init
<1>2. Whole(ImageAt(v)) \in Database /\ Whole(ImageAt(v)) \in Plain /\ Recorded(Whole(ImageAt(v)))
  BY ImagesAt DEF Plain
<1>3. disk \in [Inodes -> Plain] /\ \A i \in Inodes : Recorded(disk[i]) /\ disk[i].kind # "partial"
  BY <1>1, <1>2, DatabaseKinds
<1>4. conn \in [Processes -> Conn] /\ \A p \in Processes : conn[p].pc = "closed"
  BY DEF Init, Conn, Closed
<1>5. StorageInv /\ CalmDatabase
  BY <1>1, <1>3, <1>4, BackupAssumption
     DEF Init, StorageInv, DatabaseOK, SchemaInv, CalmDatabase, Foreign, Others, None, Whole
<1>6. FilesGood
  <2>1. CASE files = [name \in Names |-> Absent]
    BY <2>1, Contents, OthersAreGood DEF FilesGood, Good
  <2>2. ASSUME NEW w \in Versions \ {0},
               files = [name \in Names |->
                          CASE name = "backup"          -> Whole(ImageAt(w))
                            [] name = "backup.manifest" -> Manifest(Whole(ImageAt(w)), FALSE)
                            [] OTHER                    -> Absent]
        PROVE  FilesGood
    <3> DEFINE x == Whole(ImageAt(w))
    <3>1. x \in Plain /\ x.kind # "partial" /\ Recorded(x)
      BY ImagesAt, DatabaseKinds
    <3>2. Good(x) /\ Good(Manifest(x, FALSE)) /\ Good(Absent)
      BY <3>1, PlainIsGood, OthersAreGood
    <3> HIDE DEF x
    <3>3. \A name \in Names : Good(files[name])
      BY <2>2, <3>2 DEF x
    <3>4. files \in [Names -> Content]
      BY <2>2, <3>3 DEF Good
    <3> QED BY <3>3, <3>4 DEF FilesGood
  <2> QED BY <2>1, <2>2 DEF Init, Backups
<1>7. JobGood /\ BackupInv /\ RestoreInv /\ OperatorInv
  BY <1>4, BackupAssumption
     DEF Init, None, Job, JobGood, JobOK, BackupInv, RestoreInv, OperatorInv
<1>8. CalmFiles
  <2>1. \A name \in Names : Calming(files[name])
    <3>1. CASE files = [name \in Names |-> Absent]
      BY <3>1, CalmContents
    <3>2. ASSUME NEW w \in Versions \ {0},
                 files = [name \in Names |->
                            CASE name = "backup"          -> Whole(ImageAt(w))
                              [] name = "backup.manifest" -> Manifest(Whole(ImageAt(w)), FALSE)
                              [] OTHER                    -> Absent]
          PROVE  \A name \in Names : Calming(files[name])
      <4> DEFINE x == Whole(ImageAt(w))
      <4>1. x \in Plain /\ x.kind # "torn"
        BY ImagesAt, DatabaseKinds
      <4>2. Calming(x) /\ Calming(Manifest(x, FALSE)) /\ Calming(Absent)
        BY <4>1, CalmContents
      <4> HIDE DEF x
      <4> QED BY <3>2, <4>2 DEF x
    <3> QED BY <3>1, <3>2 DEF Init, Backups
  <2> QED BY <2>1 DEF Init, None, CalmFiles, Calming
<1>9. raced \in BOOLEAN /\ faults \in Nat
  BY DEF Init
<1> QED BY <1>5, <1>6, <1>7, <1>8, <1>9 DEF IInv, CalmInv

(* Every step keeps the invariant, and no database that stays in use gets  *)
(* an older schema.                                                        *)
LEMMA StepIInv ==
    ASSUME IInv, Step
    PROVE  /\ IInv'
           /\ \A i \in InUse : disk[i].kind = "whole" => NotOlder(disk[i], disk'[i])
<1>1. InUse \subseteq Inodes
  BY DEF InUse, IInv, StorageInv, DatabaseOK
<1>2. ASSUME \A i \in InUse : disk'[i] = disk[i]
      PROVE  \A i \in InUse : disk[i].kind = "whole" => NotOlder(disk[i], disk'[i])
  <2> SUFFICES ASSUME NEW i \in InUse, disk[i].kind = "whole" PROVE NotOlder(disk[i], disk'[i])
    OBVIOUS
  <2>1. disk[i] \in Plain
    BY <1>1 DEF IInv, StorageInv, DatabaseOK
  <2>2. disk[i].image.version \in Int
    BY <2>1, PlainKinds, DatabaseKinds
  <2> QED BY <1>2, <2>2 DEF NotOlder
<1>3. CASE \E p \in Processes : OpenOrWriteStep(p)
  BY <1>1, <1>3, OpenOrWriteKeeps
<1>4. CASE \E p \in Processes : End(p)
  BY <1>2, <1>4, EndStep DEF End
<1>5. CASE \E pass \in Passphrases \cup {NULL} : Vacuum(pass) \/ StartCopy(pass)
  BY <1>2, <1>5, VacuumStep, StartCopyStep DEF Vacuum, StartCopy, storageVars
<1>6. CASE EndCopy \/ CopyFails \/ Checksum \/ Seal \/ Remove \/ WriteManifest \/ WriteTmp
  <2>1. UNCHANGED disk
    BY <1>6 DEF EndCopy, CopyFails, Checksum, Seal, Remove, WriteManifest, WriteTmp, storageVars
  <2> QED BY <1>2, <1>6, <2>1, EndCopyStep, CopyFailsStep, ChecksumStep, SealStep, RemoveStep,
             WriteManifestStep, WriteTmpStep
<1>7. CASE Audit
  BY <1>1, <1>7, AuditStep
<1>8. CASE \E copy \in Copies, pass \in Passphrases \cup {NULL} : Verify(copy, pass)
  BY <1>2, <1>8, VerifyStep DEF Verify
<1>9. CASE Rename
  BY <1>2, <1>9, RenameStep
<1> QED BY <1>3, <1>4, <1>5, <1>6, <1>7, <1>8, <1>9 DEF Step

(* What has happened so far is not forgotten.                              *)
LEMMA CalmBefore ==
    ASSUME IInv, Next, Calm'
    PROVE  Calm /\ faults = 0 /\ faults' = 0 /\ ~Beside'
<1>1. ~raced /\ ~Beside' /\ faults' = 0
  BY DEF Next, Calm
<1>2. faults \in Nat
  BY DEF IInv
<1>3. ~Fault /\ (faults' = faults \/ Fault)
  BY <1>1, <1>2 DEF Fault, Next, Step, OpenOrWriteStep, End, Vacuum, StartCopy, EndCopy, CopyFails,
     Checksum, Seal, Remove, WriteManifest, Audit, Verify, WriteTmp, Rename, WriteFile
<1> QED BY <1>1, <1>3 DEF Calm

LEMMA NextIInv ==
    ASSUME IInv, CalmInv, raced \in BOOLEAN, [Next]_vars
    PROVE  /\ IInv' /\ CalmInv' /\ raced' \in BOOLEAN
           /\ \A i \in InUse : disk[i].kind = "whole" => NotOlder(disk[i], disk'[i])
<1>1. CASE Next
  <2>1. Step /\ raced' = (raced \/ Beside')
    BY <1>1 DEF Next
  <2>2. CalmInv'
    <3> SUFFICES ASSUME Calm' PROVE (CalmDatabase /\ CalmFiles)'
      BY DEF CalmInv
    <3> QED BY <1>1, <2>1, CalmBefore, CalmStep DEF CalmInv
  <2> QED BY <2>1, <2>2, StepIInv
<1>2. CASE UNCHANGED vars
  <2>1. UNCHANGED <<storageVars, files, job, faults, raced, disk, at, wal, conn>>
    BY <1>2 DEF vars, storageVars
  <2>2. StorageInv'
    BY <2>1, Still DEF IInv
  <2>3. IInv'
    BY <2>1, <2>2 DEF IInv, FilesGood, Good, Recorded, JobGood, JobOK, OperatorInv,
             RestoreInv, BackupInv, Accepted, Read
  <2>4. CalmInv'
    BY <2>1 DEF CalmInv, Calm, CalmDatabase, CalmFiles, Foreign, Others
  <2>5. \A i \in Inodes : disk[i].kind = "whole" => NotOlder(disk[i], disk'[i])
    BY <2>1, SameDisk DEF IInv, StorageInv
  <2>6. InUse \subseteq Inodes
    BY DEF InUse, IInv, StorageInv, DatabaseOK
  <2> QED BY <2>1, <2>3, <2>4, <2>5, <2>6
<1> QED BY <1>1, <1>2

Inv == IInv /\ CalmInv /\ raced \in BOOLEAN

LEMMA Inductive == Spec => []Inv
<1>1. Init => Inv
  BY InitIInv DEF Inv
<1>2. Inv /\ [Next]_vars => Inv'
  BY NextIInv DEF Inv
<1> QED BY <1>1, <1>2, PTL DEF Spec

(* Every file has its kind and every connection a database, in every       *)
(* behaviour.                                                              *)
THEOREM StorageTypeCorrect == Spec => []TypeOK
<1>1. Inv => TypeOK
  BY IInvParts DEF Inv, TypeOK, FilesOK
<1> QED BY <1>1, Inductive, PTL

(* The rows of schema_migrations tell user_version in every whole database *)
(* that is in use and in every backup, in every behaviour (Migrate).       *)
THEOREM SchemaAlwaysRecorded == Spec => []SchemaIsRecorded
<1>1. Inv => SchemaIsRecorded
  BY IInvParts DEF Inv, SchemaIsRecorded, SchemaInv, FilesRecorded, InUse, DatabaseOK
<1> QED BY <1>1, Inductive, PTL

(* A process that has opened the database has a whole file with this       *)
(* build's schema under it, in every behaviour in which no file operation  *)
(* fails and no restore or copy meets another process on the database; in  *)
(* the others it has that schema, or a file mixed with the log of another  *)
(* (Open, RestoreBackup).                                                  *)
THEOREM OpenAlwaysCurrent == Spec => []OpenIsCurrent
<1>1. Inv => OpenIsCurrent
  <2> SUFFICES ASSUME IInv, CalmInv, NEW p \in Processes, conn[p].pc = "open"
               PROVE  IF disk[conn[p].inode].kind = "whole"
                      THEN disk[conn[p].inode].image.version = SchemaVersion ELSE ~Calm
    BY DEF OpenIsCurrent, Inv
  <2>1. Fits(conn[p], disk[conn[p].inode])
    BY DEF IInv, StorageInv, SchemaInv
  <2>2. Calm => disk[conn[p].inode].kind = "whole"
    BY DEF CalmInv, CalmDatabase
  <2> QED BY <2>1, <2>2 DEF Fits
<1> QED BY <1>1, Inductive, PTL

(* No step takes a database that stays in use back to an older schema, and *)
(* none makes it anything but whole while the behaviour is calm (Migrate,  *)
(* RestoreBackup).                                                         *)
THEOREM NoVersionEverFalls == Spec => VersionNeverFalls
<1>1. ASSUME Inv, [Next]_vars
      PROVE  \A i \in InUse \cap InUse' :
               disk[i].kind = "whole" => /\ NotOlder(disk[i], disk'[i])
                                         /\ disk'[i].kind = "torn" => ~Calm'
  <2>1. \A i \in InUse : disk[i].kind = "whole" => NotOlder(disk[i], disk'[i])
    BY <1>1, NextIInv DEF Inv
  <2>2. CalmInv' /\ NULL \notin Inodes /\ (at \in Inodes)'
    BY <1>1, NextIInv, SchemaAssumption DEF Inv, IInv, StorageInv, DatabaseOK
  <2>3. Calm' => \A i \in InUse' : i = at'
    BY <2>2 DEF CalmInv, CalmDatabase, Foreign, InUse, Holds
  <2>4. Calm' => disk'[at'].kind = "whole"
    BY <2>2 DEF CalmInv, CalmDatabase
  <2> QED BY <2>1, <2>3, <2>4
<1> QED BY <1>1, Inductive, PTL DEF Spec, VersionNeverFalls

(* The path leads to a whole database, wherever the operator and the other *)
(* processes were stopped, in every behaviour in which no file operation   *)
(* fails and no restore or copy meets another process on the database:     *)
(* RestoreBackup leaves neither a part of a file, nor a torn copy, nor the *)
(* log of the old file beside the new one.                                 *)
THEOREM FileAlwaysWhole == Spec => []FileIsWhole
<1>1. Inv => FileIsWhole
  BY DEF Inv, CalmInv, CalmDatabase, FileIsWhole
<1> QED BY <1>1, Inductive, PTL

(* Only the rename leads the path elsewhere, to what was accepted.         *)
LEMMA NextRestores ==
    ASSUME IInv, [Next]_vars, at' # at
    PROVE  disk'[at'] = job.data \/ faults > 0
<1>1. Rename
  BY DEF Next, Step, OpenOrWriteStep, OpenOrWrite, ReadVersion, OpenEmpty, OpenTorn, ApplyMigration,
     RejectMigration, Write, End, Vacuum, StartCopy, EndCopy, CopyFails, Checksum, Seal, Remove,
     WriteManifest, Audit, Verify, WriteTmp, storageVars, vars
<1>2. disk'[at'] = files["tmp"]
  BY <1>1 DEF Rename, storageVars, IInv, StorageInv, DatabaseOK
<1> QED BY <1>1, <1>2 DEF Rename, IInv, RestoreInv

(* Whatever lies in the temporary file, what is put in the place of the    *)
(* database is what was accepted, in every behaviour (RestoreBackup).      *)
THEOREM RestoredAlwaysAccepted == Spec => RestoredIsAccepted
<1>1. ASSUME Inv, [Next]_vars PROVE at' # at => disk'[at'] = job.data \/ faults > 0
  BY <1>1, NextRestores DEF Inv
<1> QED BY <1>1, Inductive, PTL DEF Spec, RestoredIsAccepted

(* What is restored was written to its end, in every behaviour             *)
(* (CreateBackup, RestoreBackup).                                          *)
THEOREM AcceptedAlwaysComplete == Spec => []AcceptedIsComplete
<1>1. Inv => AcceptedIsComplete
  BY IInvParts DEF Inv, SumsAreComplete
<1> QED BY <1>1, Inductive, PTL

(* A backup that came to its end while no file operation failed, the       *)
(* second reading of the copy among them, is accepted at the path it was   *)
(* moved to, and is a whole database unless it was copied beside another   *)
(* process, in every behaviour (CreateBackup, RestoreBackup).              *)
THEOREM BackupAlwaysRestorable == Spec => []BackupIsRestorable
<1>1. Inv => BackupIsRestorable
  <2> SUFFICES ASSUME IInv, CalmInv, job.pc = "audit", faults = 0
               PROVE  \E content \in Accepted(job.copy, job.pass) : content.kind = "whole" \/ raced
    BY DEF BackupIsRestorable, Inv
  <2>1. PICK content \in Accepted(job.copy, job.pass) : TRUE
    BY DEF IInv, BackupInv
  <2>2. job.copy \in Copies
    BY JobCases DEF IInv, JobGood, JobOK
  <2>3. content \in Plain /\ content.kind # "partial"
    BY <2>1, <2>2, AcceptedIsGood DEF IInv
  <2>4. CASE raced
    BY <2>1, <2>4
  <2>5. CASE ~raced
    <3>1. CalmFiles
      BY <2>5 DEF CalmInv, Calm
    <3>2. content = files[ManifestOf[job.copy]].sum /\ files[ManifestOf[job.copy]].kind = "manifest"
      BY <2>1 DEF Accepted
    <3>3. content.kind # "torn"
      BY <2>2, <3>1, <3>2, NamesAre DEF CalmFiles
    <3>4. content.kind = "whole"
      BY <2>3, <3>3, PlainKinds
    <3> QED BY <2>1, <3>4
  <2> QED BY <2>4, <2>5
<1> QED BY <1>1, Inductive, PTL
=============================================================================
