----------------------------- MODULE Recordings -----------------------------
(***************************************************************************)
(* The recordings on disk and the page that lists them: RecordingLibrary   *)
(* (the folder, the .json sidecars and the recordings table) and           *)
(* stack_recordings, composed with Recorder, whose finalize writes the     *)
(* metadata.  A video is known by its path, which holds the second its     *)
(* take began in; what a video shows and what is said about it are both    *)
(* named by a take.  The program may end and be started again at any       *)
(* moment; the backend creates the file of a take when it likes.  Writing  *)
(* to the disk and to the table does not fail, deleting a video may.       *)
(***************************************************************************)
EXTENDS Recorder, Sequences

CONSTANTS
  MaxRestarts,  \* bound on the restarts of the program
  MaxMoves      \* bound on the changes of the folder

VARIABLES
  dbOpen,    \* Storage::isOpen
  custom,    \* record/saveDir is set
  dir,       \* the folder recordingsDir() returns
  paths,     \* _outputPath of every take
  second,    \* the path made last, {} when a second has passed since
  writing,   \* the backend has created the file of the present pipeline
  video,     \* the videos on disk: path |-> the take it shows
  sidecar,   \* the .json files: path |-> the take it tells of
  rows,      \* the recordings table: path |-> the take it tells of, or None
  shown,     \* the paths of _entries of stack_recordings
  lost,      \* takes cut off by the end of the program
  moves, restarts

folderVars == <<dbOpen, custom, dir>>
pathVars == <<paths, second>>
runVars == <<lost, moves, restarts>>
libraryVars == <<folderVars, pathVars, writing, video, sidecar, rows, shown, runVars>>
allVars == <<vars, libraryVars>>

-----------------------------------------------------------------------------
(* RecordingLibrary *)

With(f, p, t) == [q \in DOMAIN f \cup {p} |-> IF q = p THEN t ELSE f[q]]

Without(f, p) == [q \in DOMAIN f \ {p} |-> f[q]]

Meta(p) == IF p \in DOMAIN sidecar' THEN sidecar'[p] ELSE None

FilesIn(d) == {p \in DOMAIN video' : p[1] = d}

(* Faulty: the sidecar of a file without a row is not read. *)
SyncForgetsSidecar(known) == [p \in FilesIn(dir') |->
                                IF p \in DOMAIN known THEN known[p] ELSE None]

(* A file without a row is added with what its sidecar says; the row of a    *)
(* file that is not in the present folder goes.                              *)
SyncFromFiles(known) == [p \in FilesIn(dir') |->
                           IF p \in DOMAIN known THEN known[p] ELSE Meta(p)]

(* sync_db_from_files leaves a row for each file of the folder, so that the  *)
(* table and the folder give the same list.                                  *)
Scan(known) ==
  /\ rows' = IF dbOpen' THEN SyncFromFiles(known) ELSE rows
  /\ shown' = IF dbOpen' THEN DOMAIN rows' ELSE FilesIn(dir')

(* The name holds the second of the start: a path of its own, or that of    *)
(* another take begun in the same second.                                    *)
MakeOutputPath == <<dir, take'>>

(* Faulty: the insert gives way to a row that is already there. *)
UpsertNothing(p, t) == rows' = IF ~dbOpen \/ p \in DOMAIN rows THEN rows ELSE With(rows, p, t)

Upsert(p, t) == rows' = IF dbOpen THEN With(rows, p, t) ELSE rows

WriteMeta(p, t) ==
  /\ sidecar' = With(sidecar, p, t)
  /\ Upsert(p, t)

-----------------------------------------------------------------------------
(* Recorder's steps, and what they do to the files                          *)

PathFollows ==
  \/ /\ take' > take
     /\ \E p \in {MakeOutputPath} \cup {q \in second : q[1] = dir} :
          paths' = Append(paths, p) /\ second' = {p}
  \/ /\ take' = take
     /\ paths' = IF retried' /\ ~retried
                 THEN [paths EXCEPT ![take] = <<dir, @[2]>>] ELSE paths
     /\ second' = second

FileFollows ==
  writing' = (writing /\ take' = take /\ retried' = retried
                      /\ pipeline' # None /\ backend' # "stopped")

MetaFollows ==
  \/ filed' = filed /\ UNCHANGED <<sidecar, rows>>
  \/ filed' # filed /\ WriteMeta(paths'[take'], take')

FilesFollow ==
  /\ PathFollows
  /\ FileFollows
  /\ MetaFollows
  /\ UNCHANGED <<folderVars, video, shown, runVars>>

RecorderSteps == Next /\ FilesFollow

TimerFires == FallbackFires /\ FilesFollow

-----------------------------------------------------------------------------
(* The backend, the folder, and the clock *)

BackendCreatesFile ==
  /\ pipeline # None /\ backend # "stopped" /\ ~writing
  /\ writing' = TRUE
  /\ video' = With(video, paths[take], take)
  /\ UNCHANGED <<vars, folderVars, pathVars, sidecar, rows, shown, runVars>>

SecondPasses ==
  /\ second # {}
  /\ second' = {}
  /\ UNCHANGED <<vars, folderVars, paths, writing, video, sidecar, rows, shown, runVars>>

(* mkpath fails or succeeds again on the folder that is set. *)
FolderComesOrGoes ==
  /\ custom /\ moves < MaxMoves
  /\ moves' = moves + 1
  /\ dir' = IF dir = "custom" THEN "default" ELSE "custom"
  /\ UNCHANGED <<vars, dbOpen, custom, pathVars, writing, video, sidecar, rows, shown,
                 lost, restarts>>

ResetRecordDir ==
  /\ custom
  /\ custom' = FALSE /\ dir' = "default"
  /\ UNCHANGED <<vars, dbOpen, pathVars, writing, video, sidecar, rows, shown, runVars>>

-----------------------------------------------------------------------------
(* stack_recordings *)

Refresh ==
  /\ UNCHANGED <<vars, folderVars, pathVars, writing, video, sidecar, runVars>>
  /\ Scan(rows)

(* A file that is played, written or out of reach may stay; its sidecar and  *)
(* row go all the same, and the list is scanned again.                       *)
Remove(p) ==
  /\ UNCHANGED <<vars, folderVars, pathVars, writing, runVars>>
  /\ \/ video' = Without(video, p)
     \/ video' = video
  /\ sidecar' = Without(sidecar, p)
  /\ Scan(Without(rows, p))

-----------------------------------------------------------------------------
(* The program ends, by a crash or not, and is started again. *)

Restart ==
  /\ restarts < MaxRestarts
  /\ restarts' = restarts + 1
  /\ lost' = IF finalized THEN lost ELSE lost \cup {take}
  /\ sessionActive' = FALSE /\ allowed' = TRUE
  /\ recording' = FALSE /\ finalized' = TRUE /\ retried' = FALSE
  /\ pipeline' = None /\ backend' = "stopped" /\ timers' = 0
  /\ dbOpen' \in BOOLEAN
  /\ writing' = FALSE /\ second' = {}
  /\ UNCHANGED <<take, filed, custom, dir, paths, video, sidecar, moves>>
  /\ Scan(rows)

-----------------------------------------------------------------------------

LibraryInit ==
  /\ dbOpen \in BOOLEAN /\ custom \in BOOLEAN
  /\ dir = IF custom THEN "custom" ELSE "default"
  /\ paths = <<>> /\ second = {} /\ writing = FALSE
  /\ video = <<>> /\ sidecar = <<>> /\ rows = <<>> /\ shown = {}
  /\ lost = {} /\ moves = 0 /\ restarts = 0

RecordingsInit == Init /\ LibraryInit

RecordingsNext ==
  \/ RecorderSteps
  \/ BackendCreatesFile
  \/ SecondPasses
  \/ FolderComesOrGoes
  \/ ResetRecordDir
  \/ Refresh
  \/ \E p \in shown : Remove(p)
  \/ Restart

(* Timers fire; nothing is promised of the backend or the user. *)
RecordingsSpec == RecordingsInit /\ [][RecordingsNext]_allVars /\ WF_allVars(TimerFires)

-----------------------------------------------------------------------------
(* A recording that is stopped gets its metadata, even when the backend      *)
(* never says that it has stopped, unless the next one starts or the program *)
(* ends first.                                                               *)
StoppedTakesAreFiled ==
  \A t \in Takes : (take = t /\ ~recording) ~> (filed[t] > 0 \/ take > t \/ t \in lost)

(* Once a take has been filed, what the table says of its video is told of   *)
(* that take, however the recorder, refreshes, deletions and changes of the  *)
(* folder were mixed; it says nothing only when the sidecar is gone as well. *)
(* (A take that fails in the second another one began in has its name, and   *)
(* its metadata replace those of the other.)                                 *)
MetadataIsTrue ==
  \A p \in DOMAIN rows \cap DOMAIN video :
    filed[video[p]] > 0 /\ paths[video[p]] = p =>
      \/ rows[p] >= video[p] /\ paths[rows[p]] = p
      \/ rows[p] = None /\ p \notin DOMAIN sidecar

(* The page says the same of a video whether it lists from the table or,     *)
(* when the database cannot be opened, from the sidecars: where both tell of  *)
(* a path they tell of the same take, although deletions, moves and takes go  *)
(* on while the table is closed and refreshes bring back rows from sidecars.  *)
TwoCopiesAgree ==
  \A p \in DOMAIN rows \cap DOMAIN sidecar : rows[p] = sidecar[p]
=============================================================================
