------------------------------- MODULE Backup -------------------------------
(***************************************************************************)
(* Backup and restore of the database and of the image files, beside the   *)
(* requests of Media.  A backup runs while the site serves: pg_dump takes  *)
(* a snapshot of the database, tar then reads the files one after the      *)
(* other, and a checksum of both comes last.  A restore stops the site,    *)
(* replaces first the database and then the files, and starts the site     *)
(* only at its end; a step that fails ends it where it is.                 *)
(***************************************************************************)
EXTENDS Media

CONSTANTS
  Backups,     \* BACKUP_NAMEs
  MaxRestores, \* bound on the number of restores
  MaxDamages   \* bound on the number of damaged archives

ASSUME RestoreAssumption == {MaxRestores, MaxDamages} \subseteq Nat

VARIABLES
  site,        \* the services web and proxy: "up" or "down"
  backups,     \* the files in backups/ of each name
  restore,     \* where restore.ps1 is, and the backup it restores
  restores,    \* number of restores so far
  damages,     \* number of archives damaged so far
  tainted      \* history: what is served was restored from an unsteady backup

tools == <<backups, restore, restores, damages, tainted>>
allVars == <<vars, site, tools>>

Snapshot == [alive: SUBSET Events, issued: SUBSET Events,
             images: [Events -> ImageNames]]

(* todo holds the files tar has yet to come to, sum what the checksums are *)
(* of; steady is history: the site served, no file was deleted meanwhile.  *)
Backup == [at: {"none", "dumped", "archiving", "done", "failed"},
           db: Snapshot \cup {None}, media: SUBSET Names, todo: SUBSET Names,
           sum: ((Snapshot \cup {None}) \X SUBSET Names) \cup {None},
           steady: BOOLEAN]

NoBackup == [at |-> "none", db |-> None, media |-> {}, todo |-> {},
             sum |-> None, steady |-> FALSE]

RestoreSteps == {"none", "stopped", "verified", "cleaned", "loaded", "cleared"}

NoRestore == [at |-> "none", from |-> None]

InitAll ==
  /\ Init
  /\ site = "up"
  /\ backups = [b \in Backups |-> NoBackup]
  /\ restore = NoRestore
  /\ restores = 0 /\ damages = 0 /\ tainted = FALSE

InProgress(b) == backups[b].at \in {"dumped", "archiving"}

(* The backups in progress, of which those are unsteady now that steady    *)
(* does not cover.                                                         *)
Watched(steady) ==
  [b \in Backups |-> IF InProgress(b) /\ ~steady
                     THEN [backups[b] EXCEPT !.steady = FALSE] ELSE backups[b]]

(* A request's step.                                                       *)
Serve ==
  /\ site = "up"
  /\ Next
  /\ backups' = Watched(files \subseteq files')
  /\ UNCHANGED <<site, restore, restores, damages, tainted>>

-----------------------------------------------------------------------------
(* The service backup, run by backup.ps1 under a name of its own.          *)

Now == [alive |-> alive, issued |-> issued, images |-> images]

(* History: the site serves what its requests made, or a steady backup.    *)
Serving == site = "up" /\ ~tainted

(* pg_dump.                                                                *)
Dump(b) ==
  /\ backups[b].at = "none"
  /\ backups' = [backups EXCEPT ![b] =
       [NoBackup EXCEPT !.at = "dumped", !.db = Now, !.steady = Serving]]
  /\ UNCHANGED <<vars, site, restore, restores, damages, tainted>>

Archive(b) ==
  /\ backups[b].at = "dumped"
  /\ backups' = [backups EXCEPT ![b].at = "archiving", ![b].todo = files]
  /\ UNCHANGED <<vars, site, restore, restores, damages, tainted>>

(* tar comes to a file, which may have been put after it began.            *)
ArchiveFile(b, n) ==
  /\ backups[b].at = "archiving" /\ n \in files \ backups[b].media
  /\ backups' = [backups EXCEPT ![b].media = @ \cup {n}, ![b].todo = @ \ {n}]
  /\ UNCHANGED <<vars, site, restore, restores, damages, tainted>>

(* The directory does not list a file any more when tar comes to it.       *)
SkipFile(b, n) ==
  /\ backups[b].at = "archiving" /\ n \in backups[b].todo \ files
  /\ backups' = [backups EXCEPT ![b].todo = @ \ {n}]
  /\ UNCHANGED <<vars, site, restore, restores, damages, tainted>>

(* What the checksums of the dump and of the archive stand for.            *)
Sum(b) == <<backups[b].db, backups[b].media>>

(* Fault: the script goes on when tar fails.                               *)
ChecksumAnyway(b) ==
  /\ backups[b].at = "archiving"
  /\ backups' = [backups EXCEPT ![b].at = "done", ![b].todo = {}, ![b].sum = Sum(b)]
  /\ UNCHANGED <<vars, site, restore, restores, damages, tainted>>

(* sha256sum.                                                              *)
Checksum(b) ==
  /\ backups[b].at = "archiving" /\ backups[b].todo = {}
  /\ backups' = [backups EXCEPT ![b].at = "done", ![b].sum = Sum(b)]
  /\ UNCHANGED <<vars, site, restore, restores, damages, tainted>>

(* sh -e: a failing step, such as tar missing a file it has seen listed,   *)
(* is the last, so that there is no checksum file.                         *)
BackupFails(b) ==
  /\ InProgress(b)
  /\ backups' = [backups EXCEPT ![b] = [NoBackup EXCEPT !.at = "failed"]]
  /\ UNCHANGED <<vars, site, restore, restores, damages, tainted>>

(* An archive loses a file on its way outside the server and back, before  *)
(* anybody restores it.                                                    *)
Damage(b, n) ==
  /\ restore.from # b
  /\ damages < MaxDamages /\ damages' = damages + 1
  /\ backups[b].at = "done" /\ n \in backups[b].media
  /\ backups' = [backups EXCEPT ![b].media = @ \ {n}]
  /\ UNCHANGED <<vars, site, restore, restores, tainted>>

-----------------------------------------------------------------------------
(* restore.ps1 and the service restore.                                    *)

(* The three files are there; docker-compose stop ends every request.      *)
Stop(b) ==
  /\ restore = NoRestore /\ restores < MaxRestores
  /\ backups[b].at = "done"
  /\ restores' = restores + 1
  /\ restore' = [at |-> "stopped", from |-> b]
  /\ site' = "down"
  /\ req' = [w \in Workers |-> Idle]
  /\ left' = left \cup {n \in files : \E w \in Workers : n \in Pending(req[w])}
  /\ backups' = Watched(FALSE)
  /\ UNCHANGED <<database, files, begun, raced, damages, tainted>>

Restoring(from, to) == restore.at = from /\ restore' = [restore EXCEPT !.at = to]

Intact(b) == backups[b].sum = Sum(b)

(* Fault: the checksums are not looked at.                                 *)
VerifyNothing ==
  /\ Restoring("stopped", "verified")
  /\ UNCHANGED <<vars, site, backups, restores, damages, tainted>>

(* sha256sum -c.                                                           *)
Verify ==
  /\ Restoring("stopped", "verified")
  /\ Intact(restore.from)
  /\ UNCHANGED <<vars, site, backups, restores, damages, tainted>>

(* Fault: the tables keep their rows while the sequences start anew.       *)
CleanSequences ==
  /\ Restoring("verified", "cleaned")
  /\ issued' = {}
  /\ UNCHANGED <<alive, images, files, req, begun, left, raced, site, backups, restores,
                 damages, tainted>>

(* pg_restore --clean drops the tables, and fills them in transactions of  *)
(* their own.                                                              *)
CleanDatabase ==
  /\ Restoring("verified", "cleaned")
  /\ alive' = {} /\ issued' = {} /\ images' = [e \in Events |-> Blank]
  /\ UNCHANGED <<files, req, begun, left, raced, site, backups, restores, damages, tainted>>

LoadDatabase ==
  LET db == backups[restore.from].db IN
  /\ Restoring("cleaned", "loaded")
  /\ alive' = db.alive /\ issued' = db.issued /\ images' = db.images
  /\ UNCHANGED <<files, req, begun, left, raced, site, backups, restores, damages, tainted>>

(* find -delete.                                                           *)
ClearMedia ==
  /\ Restoring("loaded", "cleared")
  /\ files' = {} /\ left' = {}
  /\ UNCHANGED <<database, req, begun, raced, site, backups, restores, damages, tainted>>

(* tar -x.                                                                 *)
ExtractFile(n) ==
  /\ restore.at = "cleared"
  /\ n \in backups[restore.from].media \ files
  /\ files' = files \cup {n}
  /\ left' = IF Referenced(n) THEN left ELSE left \cup {n}
  /\ UNCHANGED <<database, req, begun, raced, site, tools>>

(* docker-compose up.                                                      *)
Up ==
  /\ restore.at = "cleared" /\ files = backups[restore.from].media
  /\ restore' = NoRestore
  /\ site' = "up"
  /\ tainted' = ~backups[restore.from].steady
  /\ UNCHANGED <<vars, backups, restores, damages>>

(* Fault: finally starts the services.                                     *)
RestoreFailsUp ==
  /\ restore # NoRestore
  /\ restore' = NoRestore
  /\ site' = "up"
  /\ UNCHANGED <<vars, backups, restores, damages, tainted>>

(* throw, or the end of the machine: what was stopped stays so.            *)
RestoreFails ==
  /\ restore # NoRestore
  /\ restore' = NoRestore
  /\ UNCHANGED <<vars, site, backups, restores, damages, tainted>>

BackupStep(b) ==
  \/ Dump(b) \/ Archive(b) \/ Checksum(b) \/ BackupFails(b)
  \/ \E n \in Names : ArchiveFile(b, n) \/ SkipFile(b, n) \/ Damage(b, n)

RestoreStep ==
  \/ \E b \in Backups : Stop(b)
  \/ Verify \/ CleanDatabase \/ LoadDatabase \/ ClearMedia
  \/ \E n \in Names : ExtractFile(n)
  \/ Up \/ RestoreFails

NextAll == Serve \/ (\E b \in Backups : BackupStep(b)) \/ RestoreStep

SpecAll == InitAll /\ [][NextAll]_allVars

-----------------------------------------------------------------------------
(* The types of the state.                                                 *)
TypesOK ==
  /\ TypeOK
  /\ site \in {"up", "down"}
  /\ backups \in [Backups -> Backup]
  /\ restore \in [at: RestoreSteps, from: Backups \cup {None}]
  /\ restores \in 0..MaxRestores /\ damages \in 0..MaxDamages
  /\ tainted \in BOOLEAN

DumpNames(b) == UNION {Named(backups[b].db.images[e]) : e \in Events}

(* A backup made while the site served and deleted no file has every image *)
(* its database names, though uploads went on: pg_dump comes before tar,   *)
(* and a file is put before the row that names it is committed.  (raced is *)
(* about names that Media does not promise.)                               *)
SteadyMatched ==
  \A b \in Backups :
     backups[b].at = "done" /\ backups[b].steady /\ Intact(b)
        => DumpNames(b) \subseteq backups[b].media \cup raced

(* A site that is up has its images, through backups, restores that failed *)
(* anywhere, and damaged archives, until it restores an unsteady backup.   *)
ServedImages == Serving => ImagesStored

(* A site that comes up has the database and the files of one backup as    *)
(* they were when its checksums were taken.                                *)
RestoredWhole ==
  [][site = "down" /\ site' = "up" =>
       \E b \in Backups :
          /\ backups[b].sum = <<Now', files'>>
          /\ backups[b].at = "done"]_allVars

(* README.md:83: a backup of the database and one of the files that match. *)
Matched ==
  \A b \in Backups :
     backups[b].at = "done" /\ Intact(b) => DumpNames(b) \subseteq backups[b].media
=============================================================================
