--------------------------- MODULE BackupArchives ---------------------------
(***************************************************************************)
(* BackupService on the local store: archives are zip files named after the *)
(* second they were begun in.  A request writes one, lists the directory    *)
(* and deletes what the retention policy gives up; a drill, scheduled or    *)
(* requested, reads an archive and records the result under its name.       *)
(* Nothing locks the directory: requests and drills interleave, and one     *)
(* that fails or dies leaves what it has written.                           *)
(***************************************************************************)
EXTENDS Naturals, Sequences, FiniteSets, SequencesExt

CONSTANTS
  Makers,   \* requests that create an archive
  Drills,   \* drills that may run at a time
  Copies,   \* BACKUP_RETENTION_COPIES
  Days,     \* BACKUP_RETENTION_DAYS, in ticks of the model
  LastDay,  \* bound of the model: when its clock stops
  MaxBegun  \* bound of the model: archives that are begun

ASSUME RetentionAssumption ==
  /\ Copies \in Nat \ {0} /\ Days \in Nat \ {0} /\ {LastDay, MaxBegun} \subseteq Nat

VARIABLES
  today,
  files,   \* the archives, the last written first
  clashed, \* names that were chosen twice
  making,  \* stage of each request
  drill,   \* stage of each drill
  record,  \* .restore-drill.json
  begun    \* archives begun so far

backupVars == <<today, files, clashed, making, drill, record, begun>>

(* whole: a zip closed by the one request that wrote it, whose entries read   *)
(* back; database: one of its entries lies under database/.  What such an     *)
(* entry holds is not modelled: the database and its -wal are copied while    *)
(* the program writes them, and no drill opens the copy.                      *)
File == [name : 0..LastDay, at : 0..LastDay, whole : BOOLEAN, database : BOOLEAN]
NoRecord == [name |-> LastDay + 1, status |-> "none"]
Resting == [stage |-> "rest", began |-> 0, doomed |-> {}]
NoDrill == [stage |-> "rest", name |-> 0, result |-> "none"]

BackupInit ==
  /\ today = 0 /\ files = <<>> /\ clashed = {}
  /\ making = [m \in Makers |-> Resting]
  /\ drill = [d \in Drills |-> NoDrill] /\ record = NoRecord
  /\ begun = 0

Names == {f.name : f \in ToSet(files)}
Without(name) == RemoveFirstMatch(files, LAMBDA f : f.name = name)
Writes(name, whole, database) ==
  files' = <<[name |-> name, at |-> today, whole |-> whole, database |-> database]>>
           \o Without(name)

(* An archive is written in less time than archives are kept for.           *)
NextDay ==
  /\ today < LastDay /\ today' = today + 1
  /\ \A m \in Makers : making[m].stage = "write" => today < making[m].began + Days
  /\ UNCHANGED <<files, clashed, making, drill, record, begun>>

Makes(m, stage, began, doomed) ==
  making' = [making EXCEPT ![m] = [stage |-> stage, began |-> began, doomed |-> doomed]]

(* os.Create: a file of that name is emptied.                                *)
BeginArchive(m) ==
  /\ making[m].stage = "rest" /\ Makes(m, "write", today, {})
  /\ Writes(today, FALSE, FALSE)
  /\ clashed' = IF today \in Names THEN clashed \cup {today} ELSE clashed
  /\ begun < MaxBegun /\ begun' = begun + 1
  /\ UNCHANGED <<today, drill, record>>

(* Of two that write to one file, neither can be relied on.  addFile notes an *)
(* entry that cannot be copied and goes on, and a PostgreSQL database is not  *)
(* copied at all: an archive is finished with a database entry or without.    *)
FinishArchive(m) ==
  /\ making[m].stage = "write" /\ Makes(m, "list", making[m].began, {})
  /\ \E whole \in IF making[m].began \in clashed THEN BOOLEAN ELSE {TRUE},
        database \in BOOLEAN :
       Writes(making[m].began, whole, database)
  /\ UNCHANGED <<today, clashed, drill, record, begun>>

(* pruneBackupArtifacts, on the listing: which archives are to go.           *)
PrunableEither(i, began) == i > Copies \/ files[i].at + Days < began
Prunable(i, began) == i > Copies /\ files[i].at + Days < began

ListArchives(m) ==
  /\ making[m].stage = "list"
  /\ Makes(m, "prune", making[m].began,
           {files[i].name : i \in {j \in DOMAIN files : Prunable(j, making[m].began)}})
  /\ UNCHANGED <<today, files, clashed, drill, record, begun>>

(* One by one; that an archive is gone already is no error.                  *)
PruneOne(m) ==
  /\ making[m].stage = "prune"
  /\ \E name \in making[m].doomed :
       /\ files' = Without(name)
       /\ Makes(m, "prune", making[m].began, making[m].doomed \ {name})
  /\ UNCHANGED <<today, clashed, drill, record, begun>>

ArchiveCreated(m) ==
  /\ making[m].stage = "prune" /\ making[m].doomed = {}
  /\ making' = [making EXCEPT ![m] = Resting]
  /\ UNCHANGED <<today, files, clashed, drill, record, begun>>

(* An error or the end of the process.                                       *)
MakerFails(m) ==
  /\ making[m].stage # "rest" /\ making' = [making EXCEPT ![m] = Resting]
  /\ UNCHANGED <<today, files, clashed, drill, record, begun>>

Drilling(d, stage, name, result) ==
  drill' = [drill EXCEPT ![d] = [stage |-> stage, name |-> name, result |-> result]]

(* The scheduled drill takes the latest archive, a request any.              *)
BeginDrill(d) ==
  /\ drill[d].stage = "rest"
  /\ \E name \in Names : Drilling(d, "inspect", name, "none")
  /\ UNCHANGED <<today, files, clashed, making, record, begun>>

(* inspectArchive: an archive that is gone or cannot be opened is an error   *)
(* and nothing is recorded; one that is not whole may still open, but then   *)
(* an entry fails and a note makes the result a warning, and so it does when  *)
(* no entry lies under database/.                                             *)
Results(f) == IF f.whole /\ f.database THEN {"valid", "warning"} ELSE {"warning"}

InspectArchive(d) ==
  /\ drill[d].stage = "inspect"
  /\ \/ drill' = [drill EXCEPT ![d] = NoDrill]
     \/ \E f \in ToSet(files) :
          /\ f.name = drill[d].name
          /\ \E result \in Results(f) : Drilling(d, "record", f.name, result)
  /\ UNCHANGED <<today, files, clashed, making, record, begun>>

SaveDrill(d) ==
  /\ drill[d].stage = "record" /\ drill' = [drill EXCEPT ![d] = NoDrill]
  /\ record' = [name |-> drill[d].name, status |-> drill[d].result]
  /\ UNCHANGED <<today, files, clashed, making, begun>>

BackupNext ==
  \/ NextDay
  \/ \E m \in Makers :
       \/ BeginArchive(m) \/ FinishArchive(m) \/ ListArchives(m)
       \/ PruneOne(m) \/ ArchiveCreated(m) \/ MakerFails(m)
  \/ \E d \in Drills : BeginDrill(d) \/ InspectArchive(d) \/ SaveDrill(d)

BackupSpec == BackupInit /\ [][BackupNext]_backupVars

DrillStatusOfAny ==
  IF record = NoRecord THEN "not_ready"
  ELSE IF record.status = "valid" THEN "drilled" ELSE "drill_warning"

(* backupRestoreDrillStatus: what the report says of the latest drill.       *)
DrillStatus ==
  IF record = NoRecord
    THEN IF files = <<>> THEN "not_ready" ELSE "dry_run_available"
  ELSE IF files # <<>> /\ files[1].name # record.name THEN "stale_drill"
  ELSE IF record.status = "valid" THEN "drilled" ELSE "drill_warning"

-----------------------------------------------------------------------------
BackupTypeOK ==
  /\ today \in 0..LastDay /\ files \in Seq(File) /\ clashed \subseteq 0..LastDay
  /\ begun \in 0..MaxBegun
  /\ \A m \in Makers : making[m].stage \in {"rest", "write", "list", "prune"}
  /\ \A d \in Drills : drill[d].stage \in {"rest", "inspect", "record"}
  /\ DrillStatus \in {"not_ready", "dry_run_available", "stale_drill", "drilled",
                      "drill_warning"}

(* An archive is deleted only when it is too old and enough newer ones stay, *)
(* a whole one among them unless a name clashed: however many requests prune  *)
(* at once, from however old a listing, the archives that could not be        *)
(* finished do not push out the last that was.                                *)
RetentionKeepsNewest ==
  [][\A f \in ToSet(files) :
       f.name \notin {g.name : g \in ToSet(files')} =>
         /\ f.at + Days < today
         /\ \E i \in DOMAIN files :
              /\ files[i] = f /\ i > Copies
              /\ clashed = {} => \E j \in 1..(i - 1) : files[j].whole]_backupVars

(* "drilled" is said of the latest archive alone, and unless its name was     *)
(* chosen twice that archive is a zip closed by the request that wrote it,    *)
(* whose entries read back, one of them under database/: a drill of another   *)
(* archive, of an unfinished one, or one begun before a newer archive does    *)
(* not bring it about.  It does not say that a program can be restored from   *)
(* the archive: the drill does not open the database, which was copied hot.   *)
DrilledReadsBack ==
  DrillStatus = "drilled" /\ files # <<>> /\ files[1].name \notin clashed =>
    files[1].whole /\ files[1].database
=============================================================================
