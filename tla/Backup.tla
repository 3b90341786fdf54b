------------------------------- MODULE Backup -------------------------------
(***************************************************************************)
(* internal/storage, backup.go: CreateBackup and RestoreBackup, one step   *)
(* per file they write, beside processes that open and write the database. *)
(* One operator backs up and restores; every other process only opens and  *)
(* writes.  Any operation on a file may fail, which both functions mostly  *)
(* do not look at, and a process may end anywhere, in the middle of a      *)
(* write too.                                                              *)
(* A checksum is modelled by what it digests, a sealed file by what was    *)
(* encrypted and the passphrase.                                           *)
(***************************************************************************)
EXTENDS Storage

CONSTANTS
    Operator,      \* the process that backs up and restores
    Passphrases,   \* of encrypted backups
    MaxFaults      \* bound: operations on a file that fail

ASSUME BackupAssumption ==
    /\ Operator \in Processes
    /\ NULL \notin Passphrases
    /\ MaxFaults \in Nat

VARIABLES
    files,  \* the other files: the backups, their manifests, DBPath() + ".tmp"
    job,    \* the operator's place in CreateBackup or RestoreBackup
    faults, \* how many operations on a file failed
    raced   \* history: another process had the database open while the
            \* operator copied its file or replaced it

vars == <<disk, at, wal, conn, files, job, faults, raced>>

Copies == {"backup", "backup.enc"}

ManifestOf == [copy \in Copies |->
                 IF copy = "backup" THEN "backup.manifest" ELSE "backup.enc.manifest"]

Names == Copies \cup {ManifestOf[copy] : copy \in Copies} \cup {"tmp"}

Absent == [kind |-> "absent"]

(* What a plain file that exists holds, and any file.                      *)
Plain   == Database \cup {Partial}
Content == Plain \cup {Absent} \cup
           [kind : {"sealed"}, pass : Passphrases, of : Plain] \cup
           [kind : {"manifest"}, sum : Plain, encrypted : BOOLEAN]

Sealed(pass, of)         == [kind |-> "sealed", pass |-> pass, of |-> of]
Manifest(sum, encrypted) == [kind |-> "manifest", sum |-> sum, encrypted |-> encrypted]

Job == [pc : {"none"}] \cup
       [pc : {"copy"}, pass : Passphrases \cup {NULL}, seen : Database] \cup
       [pc : {"checksum"}, pass : Passphrases \cup {NULL}] \cup
       [pc : {"seal", "remove"}, pass : Passphrases, sum : Plain] \cup
       [pc : {"manifest"}, copy : Copies, pass : Passphrases \cup {NULL}, sum : Plain] \cup
       [pc : {"audit"}, copy : Copies, pass : Passphrases \cup {NULL}] \cup
       [pc : {"write", "rename"}, data : Plain]

None == [pc |-> "none"]

(* The operator's connection, open while it backs up.                      *)
Own == disk[conn[Operator].inode]

(* An operation on a file fails.                                           *)
Fault == faults < MaxFaults /\ faults' = faults + 1

(* os.WriteFile, os.Create and io.Copy: all of content, or a part of it.   *)
WriteFile(name, content) ==
    \/ files' = [files EXCEPT ![name] = content] /\ UNCHANGED faults
    \/ files' = [files EXCEPT ![name] = Partial] /\ Fault

(* Processes other than the operator that have the database open.          *)
Others == {p \in Processes \ {Operator} : conn[p].pc # "closed"}

(* What raced records: docs/OPERATIONS.md:104 has the daemon stopped before *)
(* a restore, and the fallback of CreateBackup copies the file as it is.   *)
Beside == job.pc \in {"copy", "write", "rename"} /\ Others # {}

(* What RestoreBackup reads from a backup; {} where it returns an error.   *)
Read(copy, pass, encrypted) ==
    IF ~encrypted THEN {files[copy]} \cap Plain
    ELSE IF files[copy].kind = "sealed" /\ files[copy].pass = pass THEN {files[copy].of}
    ELSE {}

(* Mutation: the checksum is not compared.                                 *)
Unverified(copy, pass) ==
    LET manifest == files[ManifestOf[copy]]
    IN IF manifest.kind = "manifest" THEN Read(copy, pass, manifest.encrypted) ELSE {}

(* What RestoreBackup accepts; a manifest cut off has no checksum.         *)
Accepted(copy, pass) ==
    LET manifest == files[ManifestOf[copy]]
    IN IF manifest.kind = "manifest"
       THEN Read(copy, pass, manifest.encrypted) \cap {manifest.sum} ELSE {}
----------------------------------------------------------------------------
Backups == {[name \in Names |-> Absent]} \cup
    {[name \in Names |->
        CASE name = "backup"          -> Whole(ImageAt(v))
          [] name = "backup.manifest" -> Manifest(Whole(ImageAt(v)), FALSE)
          [] OTHER                    -> Absent] : v \in Versions \ {0}}

(* A database, perhaps with the log a crash left, and perhaps a backup, of *)
(* this build, an older or a newer one.                                    *)
Init ==
    /\ at \in Inodes
    /\ wal \in {NULL, at}
    /\ \E v \in Versions : disk = [i \in Inodes |-> Whole(ImageAt(v))]
    /\ conn = [p \in Processes |-> Closed]
    /\ files \in Backups
    /\ job = None
    /\ faults = 0
    /\ raced = FALSE

(* Processes that are in neither function.                                 *)
Elsewhere(p) == p = Operator => job = None

OpenOrWriteStep(p) == Elsewhere(p) /\ OpenOrWrite(p) /\ UNCHANGED <<files, job, faults>>

(* VACUUM INTO: a snapshot, in a file that was not there.                  *)
Vacuum(pass) ==
    /\ job = None
    /\ conn[Operator].pc = "open"
    /\ files["backup"] = Absent
    /\ files' = [files EXCEPT !["backup"] = Own]
    /\ job' = [pc |-> "checksum", pass |-> pass]
    /\ UNCHANGED <<storageVars, faults>>

(* VACUUM INTO failed, as it does when the file is there: the file of the  *)
(* database is copied over it.  The checkpoint before that is not looked   *)
(* at: when it fails, or does not come to its end beside another process,  *)
(* the file has only a part of what was committed.                         *)
StartCopy(pass) ==
    /\ job = None
    /\ conn[Operator].pc = "open"
    /\ files' = [files EXCEPT !["backup"] = Partial]
    /\ \/ job' = [pc |-> "copy", pass |-> pass, seen |-> disk[at]] /\ UNCHANGED faults
       \/ /\ job' = [pc |-> "copy", pass |-> pass, seen |-> Torn]
          /\ Fault \/ (Others # {} /\ UNCHANGED faults)
    /\ UNCHANGED storageVars

(* The copy is torn when a transaction was committed while it was made.    *)
EndCopy ==
    /\ job.pc = "copy"
    /\ \E content \in {job.seen, disk[at]} \cup (IF disk[at] = job.seen THEN {} ELSE {Torn}) :
         files' = [files EXCEPT !["backup"] = content]
    /\ job' = [pc |-> "checksum", pass |-> job.pass]
    /\ UNCHANGED <<storageVars, faults>>

CopyFails ==
    /\ job.pc = "copy"
    /\ Fault
    /\ job' = None
    /\ UNCHANGED <<storageVars, files>>

ManifestJob(copy, pass, sum) ==
    [pc |-> "manifest", copy |-> copy, pass |-> pass, sum |-> sum]

Checksum ==
    /\ job.pc = "checksum"
    /\ job' = IF job.pass = NULL THEN ManifestJob("backup", NULL, files["backup"])
              ELSE [pc |-> "seal", pass |-> job.pass, sum |-> files["backup"]]
    /\ UNCHANGED <<storageVars, files, faults>>

(* Reads the file again, error dropped, and writes what it got encrypted.  *)
Seal ==
    /\ job.pc = "seal"
    /\ \/ WriteFile("backup.enc", Sealed(job.pass, files["backup"]))
       \/ files' = [files EXCEPT !["backup.enc"] = Sealed(job.pass, Partial)] /\ Fault
    /\ job' = [job EXCEPT !.pc = "remove"]
    /\ UNCHANGED storageVars

(* Mutation: backupPath is not moved on to the encrypted file.             *)
RemoveOnly ==
    /\ job.pc = "remove"
    /\ \/ files' = [files EXCEPT !["backup"] = Absent] /\ UNCHANGED faults
       \/ UNCHANGED files /\ Fault
    /\ job' = ManifestJob("backup", job.pass, job.sum)
    /\ UNCHANGED storageVars

(* The plain copy stays when it cannot be removed.                         *)
Remove ==
    /\ job.pc = "remove"
    /\ \/ files' = [files EXCEPT !["backup"] = Absent] /\ UNCHANGED faults
       \/ UNCHANGED files /\ Fault
    /\ job' = ManifestJob("backup.enc", job.pass, job.sum)
    /\ UNCHANGED storageVars

WriteManifest ==
    /\ job.pc = "manifest"
    /\ WriteFile(ManifestOf[job.copy], Manifest(job.sum, job.pass # NULL))
    /\ job' = [pc |-> "audit", copy |-> job.copy, pass |-> job.pass]
    /\ UNCHANGED storageVars

(* The audit log gets a row, or an error nobody looks at.                  *)
Audit ==
    /\ job.pc = "audit"
    /\ job' = None
    /\ Write(Operator) \/ UNCHANGED storageVars
    /\ UNCHANGED <<files, faults>>

(* Mutation: the database stays open while its file is replaced.           *)
VerifyOnly(copy, pass) ==
    /\ job = None
    /\ conn[Operator].pc = "open"
    /\ \E data \in Accepted(copy, pass) : job' = [pc |-> "write", data |-> data]
    /\ UNCHANGED <<storageVars, files, faults>>

(* RestoreBackup accepts a backup and closes the database; a close that    *)
(* fails, and leaves the log, is not looked at.                            *)
Verify(copy, pass) ==
    /\ job = None
    /\ conn[Operator].pc = "open"
    /\ \E data \in Accepted(copy, pass) : job' = [pc |-> "write", data |-> data]
    /\ \/ Hangup(Operator) /\ UNCHANGED faults
       \/ Die(Operator) /\ Fault
    /\ UNCHANGED <<disk, at, files>>

(* Mutation: the file is only written when there is none (O_EXCL).         *)
WriteNewTmp ==
    /\ job.pc = "write"
    /\ IF files["tmp"] = Absent THEN WriteFile("tmp", job.data) ELSE UNCHANGED <<files, faults>>
    /\ job' = [job EXCEPT !.pc = "rename"]
    /\ UNCHANGED storageVars

WriteTmp ==
    /\ job.pc = "write"
    /\ WriteFile("tmp", job.data)
    /\ job' = [job EXCEPT !.pc = "rename"]
    /\ UNCHANGED storageVars

(* Mutation: the database is overwritten where it is.                      *)
CopyOver ==
    /\ job.pc = "rename"
    /\ job' = None
    /\ disk' = [disk EXCEPT ![at] = files["tmp"]]
    /\ files' = [files EXCEPT !["tmp"] = Absent]
    /\ UNCHANGED <<at, wal, conn, faults>>

(* os.Rename: the path leads to the new file; whoever has the database     *)
(* open keeps the old one, and a log beside the path stays there.          *)
Rename ==
    /\ job.pc = "rename"
    /\ job' = None
    /\ \/ /\ \E i \in Inodes \ InUse :
               /\ at' = i
               /\ disk' = [disk EXCEPT ![i] = files["tmp"]]
          /\ files' = [files EXCEPT !["tmp"] = Absent]
          /\ UNCHANGED <<wal, conn, faults>>
       \/ Fault /\ UNCHANGED <<storageVars, files>>

(* The files the operator may be writing to where it is.                   *)
Writing ==
    CASE job.pc = "none"     -> IF conn[Operator].pc = "open" /\ files["backup"] = Absent
                                THEN {"backup"} ELSE {}
      [] job.pc = "seal"     -> {"backup.enc"}
      [] job.pc = "manifest" -> {ManifestOf[job.copy]}
      [] job.pc = "write"    -> {"tmp"}
      [] OTHER               -> {}

(* A process ends, with or without closing the database.                   *)
End(p) ==
    /\ conn[p] # Closed \/ ~Elsewhere(p)
    /\ Hangup(p) \/ Die(p)
    /\ IF p = Operator
       THEN /\ job' = None
            /\ \/ UNCHANGED files
               \/ \E name \in Writing : files' = [files EXCEPT ![name] = Partial]
       ELSE UNCHANGED <<job, files>>
    /\ UNCHANGED <<disk, at, faults>>

Step ==
    \/ \E p \in Processes : OpenOrWriteStep(p) \/ End(p)
    \/ \E pass \in Passphrases \cup {NULL} : Vacuum(pass) \/ StartCopy(pass)
    \/ EndCopy \/ CopyFails \/ Checksum \/ Seal \/ Remove \/ WriteManifest \/ Audit
    \/ \E copy \in Copies, pass \in Passphrases \cup {NULL} : Verify(copy, pass)
    \/ WriteTmp \/ Rename

Next == Step /\ raced' = (raced \/ Beside')

Spec == Init /\ [][Next]_vars
----------------------------------------------------------------------------
DatabaseOK ==
    /\ disk \in [Inodes -> Plain]
    /\ at \in Inodes
    /\ wal \in Inodes \cup {NULL}
    /\ conn \in [Processes -> Conn]
    /\ \A p \in Processes : conn[p].pc # "closed" => disk[conn[p].inode] \in Database

FilesOK ==
    /\ files \in [Names -> Content]
    /\ faults \in Nat
    /\ raced \in BOOLEAN

JobOK ==
    /\ job \in Job
    /\ job.pc \in {"copy", "checksum", "seal"} => files["backup"] \in Plain
    /\ job.pc = "rename" => files["tmp"] \in Plain

(* Every process that has the database open has a database open, and the   *)
(* operator finds the file its place in the code is about to read.         *)
TypeOK == DatabaseOK /\ FilesOK /\ JobOK

Recorded(content) ==
    content.kind = "whole" => content.image.recorded = 1..content.image.version

(* schema_migrations tells the version: in the database, in the one a      *)
(* process still holds and in every backup, while it is whole, there is a  *)
(* row for each version up to user_version and no other, whichever         *)
(* migrations met (Migrate).                                               *)
SchemaIsRecorded ==
    /\ \A i \in InUse : Recorded(disk[i])
    /\ \A name \in Names :
         /\ Recorded(files[name])
         /\ files[name].kind = "sealed" => Recorded(files[name].of)

(* No operation on a file failed, and the operator had the database to     *)
(* itself whenever it copied its file or replaced it.                      *)
Calm == faults = 0 /\ ~raced

(* What may become of a database that was whole.                           *)
NotOlder(before, after) ==
    \/ after.kind = "whole" /\ after.image.version >= before.image.version
    \/ after.kind = "torn"

(* No transaction takes a database back to an older schema: a process that *)
(* read user_version before another one migrated has its migration         *)
(* rejected (Migrate).  And it stays whole, unless a file operation failed *)
(* or a restore met another process on the database, which mixes the old   *)
(* log into the new file (db.go:43, RestoreBackup).                        *)
VersionNeverFalls ==
    [][\A i \in InUse \cap InUse' :
         disk[i].kind = "whole" => /\ NotOlder(disk[i], disk'[i])
                                   /\ disk'[i].kind = "torn" => ~Calm']_vars

(* A process works on a whole database with the schema of its own version, *)
(* whoever else migrates it, and whatever a crash or a restore left beside *)
(* the path; where it is not whole, a file operation failed or a restore   *)
(* met another process on the database (Open, RestoreBackup).              *)
OpenIsCurrent ==
    \A p \in Processes : conn[p].pc = "open" =>
        LET content == disk[conn[p].inode]
        IN IF content.kind = "whole" THEN content.image.version = SchemaVersion ELSE ~Calm

(* The path leads to a whole database, wherever the operator was stopped   *)
(* before: neither to a part of one, nor to one with pages of another, or  *)
(* of the log a restore should have got rid of; unless a file operation    *)
(* failed, or another process had the database open during the copy or the *)
(* restore (CreateBackup, RestoreBackup).                                  *)
FileIsWhole ==
    disk[at].kind # "whole" => ~Calm

(* What takes the place of the database is the backup RestoreBackup        *)
(* accepted, whatever an earlier restore left in the same temporary file,  *)
(* unless a file operation failed (RestoreBackup).                         *)
RestoredIsAccepted ==
    [][at' # at => disk'[at'] = job.data \/ faults > 0]_vars

(* A backup that was cut off, by an error or by a crash, is not restored,  *)
(* whatever lies beside it from an earlier one (CreateBackup,              *)
(* RestoreBackup).                                                         *)
AcceptedIsComplete ==
    job.pc \in {"write", "rename"} => job.data.kind # "partial"

(* When CreateBackup has come to its end and no file operation failed,     *)
(* RestoreBackup accepts the backup, at the path CreateBackup moved it to, *)
(* with the same passphrase; and it is a whole database, unless it is a    *)
(* copy made beside another process.                                       *)
BackupIsRestorable ==
    job.pc = "audit" /\ faults = 0 =>
        \E content \in Accepted(job.copy, job.pass) : content.kind = "whole" \/ raced
----------------------------------------------------------------------------
(* Why this holds.  Every whole database records its migrations, a process *)
(* that migrates has read a version that was there, and one that is open   *)
(* has nothing left to migrate.                                            *)
Fits(c, content) ==
    content.kind = "whole" =>
        /\ c.pc = "migrate" => content.image.version >= c.next - 1
        /\ c.pc = "open" => content.image.version = SchemaVersion

SchemaInv ==
    /\ \A i \in Inodes : Recorded(disk[i])
    /\ \A p \in Processes : conn[p].pc # "closed" => Fits(conn[p], disk[conn[p].inode])

FilesRecorded ==
    /\ \A name \in Names :
         /\ Recorded(files[name])
         /\ files[name].kind = "sealed" => Recorded(files[name].of)
    /\ job.pc = "copy" => Recorded(job.seen)
    /\ job.pc \in {"write", "rename"} => Recorded(job.data)

(* The operator has the database open that the path leads to, and none     *)
(* while it replaces it.                                                   *)
OperatorInv ==
    /\ conn[Operator].pc # "closed" => conn[Operator].inode = at
    /\ job.pc \in {"write", "rename"} => conn[Operator] = Closed
    /\ job.pc = "copy" => conn[Operator].pc = "open"

(* A checksum is only ever made of a file that was written to its end.     *)
SumsAreComplete ==
    /\ \A name \in Names :
         files[name].kind = "manifest" => files[name].sum.kind # "partial"
    /\ job.pc = "checksum" => files["backup"].kind # "partial"
    /\ job.pc \in {"seal", "remove", "manifest"} => job.sum.kind # "partial"
    /\ AcceptedIsComplete

(* The file RestoreBackup renames is what it accepted, or a file operation *)
(* failed.                                                                 *)
RestoreInv ==
    job.pc = "rename" => files["tmp"] = job.data \/ faults > 0

(* While it is calm, every process has the file open that the path leads   *)
(* to, which is whole, and the log beside the path is its own; none is     *)
(* left when a restore replaces the file.                                  *)
CalmDatabase ==
    /\ disk[at].kind = "whole"
    /\ ~Foreign
    /\ \A p \in Processes : conn[p].pc # "closed" => conn[p].inode = at
    /\ job.pc \in {"copy", "write", "rename"} => Others = {}
    /\ job.pc \in {"write", "rename"} => wal = NULL

(* While it is calm, no backup is torn.                                    *)
CalmFiles ==
    /\ \A name \in Names :
         /\ files[name].kind # "torn"
         /\ files[name].kind = "sealed" => files[name].of.kind # "torn"
         /\ files[name].kind = "manifest" => files[name].sum.kind # "torn"
    /\ job.pc = "copy" => job.seen = disk[at]
    /\ job.pc \in {"seal", "remove", "manifest"} => job.sum.kind # "torn"
    /\ job.pc \in {"write", "rename"} => job.data.kind # "torn"

CalmInv == Calm => CalmDatabase /\ CalmFiles

(* What CreateBackup has written so far is what it computed the checksum   *)
(* of, unless a file operation failed.                                     *)
BackupInv ==
    /\ job.pc = "seal" => files["backup"] = job.sum
    /\ job.pc = "remove" /\ faults = 0 =>
         files["backup.enc"] = Sealed(job.pass, job.sum)
    /\ job.pc = "manifest" /\ faults = 0 =>
         IF job.copy = "backup"
         THEN job.pass = NULL /\ files["backup"] = job.sum
         ELSE job.pass # NULL /\ files["backup.enc"] = Sealed(job.pass, job.sum)
    /\ job.pc = "audit" /\ faults = 0 => Accepted(job.copy, job.pass) # {}
=============================================================================
