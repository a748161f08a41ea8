-------------------------------- MODULE JsonFile --------------------------------
(***************************************************************************)
(* services/json_file.py, over which the settings, keys, tasks and lists   *)
(* are kept: a file is written beside itself and moved over, then the same *)
(* is done to its backup; when a move is refused (a file mounted by        *)
(* itself) it is overwritten in place.  A reader takes the file, or the    *)
(* backup when the file cannot be parsed.  The process may die between any *)
(* two steps; and an overwriting may end half way, with the process or     *)
(* without it.                                                             *)
(*                                                                         *)
(* Contents are version numbers; each caller of write_json_file holds a    *)
(* lock of its own, so that there is one writer.                           *)
(***************************************************************************)
EXTENDS Integers

CONSTANT MaxVersions    \* bound: how often the file is written

ASSUME JsonFileAssumption == MaxVersions \in Nat

\* A file that cannot be parsed, and none at all.
Torn == -1
Missing == 0

VARIABLES
  main,        \* the file
  bak,         \* path.bak
  writing,     \* where the writer is
  version,     \* what it writes, or has written last
  returned,    \* the last version whose write_json_file returned
  bakBehind    \* did the last write that came to the backup not end there? (history)

jsonVars == <<main, bak, writing, version, returned, bakBehind>>

JsonTypeOK ==
  /\ main \in Torn..MaxVersions /\ bak \in Torn..MaxVersions
  /\ writing \in {"no", "file", "overwritingFile", "backup", "overwritingBackup"}
  /\ version \in 0..MaxVersions /\ returned \in 0..MaxVersions
  /\ bakBehind \in BOOLEAN

\* A faulty variant, for the mutation runs: an unreadable file counts as none.
ReadFileOnly == IF main = Torn THEN Missing ELSE main

\* read_json_file: the file, or else the backup, or else the default.
ReadJson ==
  IF main > Missing THEN main ELSE IF bak > Missing THEN bak ELSE Missing

BeginWrite ==
  /\ writing = "no" /\ version < MaxVersions
  /\ version' = version + 1
  /\ writing' = "file"
  /\ UNCHANGED <<main, bak, returned, bakBehind>>

\* The temporary file cannot be written, or the move is refused and the file cannot be
\* opened either: the caller gets the error.
WriteRefused ==
  /\ writing = "file"
  /\ writing' = "no"
  /\ UNCHANGED <<main, bak, version, returned, bakBehind>>

\* The file is moved over; or that is refused, and opening it has emptied it.
ReplaceFile ==
  /\ writing = "file"
  /\ \/ main' = version /\ writing' = "backup"
     \/ main' = Torn /\ writing' = "overwritingFile"
  /\ UNCHANGED <<bak, version, returned, bakBehind>>

OverwriteFile ==
  /\ writing = "overwritingFile"
  /\ main' = version /\ writing' = "backup"
  /\ UNCHANGED <<bak, version, returned, bakBehind>>

\* write_text raises half way (a full disk): the file stays torn, the caller gets the
\* error and the process goes on.
OverwriteFails ==
  /\ writing = "overwritingFile"
  /\ writing' = "no"
  /\ UNCHANGED <<main, bak, version, returned, bakBehind>>

WriteReturns == writing' = "no" /\ returned' = version

\* The same for the backup.
ReplaceBackup ==
  /\ writing = "backup"
  /\ \/ bak' = version /\ WriteReturns /\ bakBehind' = FALSE
     \/ bak' = Torn /\ writing' = "overwritingBackup" /\ UNCHANGED <<returned, bakBehind>>
  /\ UNCHANGED <<main, version>>

OverwriteBackup ==
  /\ writing = "overwritingBackup"
  /\ bak' = version /\ WriteReturns /\ bakBehind' = FALSE
  /\ UNCHANGED <<main, version>>

\* A failing backup, also one that fails half way, is a warning; the write has succeeded.
BackupFails ==
  /\ writing \in {"backup", "overwritingBackup"}
  /\ WriteReturns
  /\ bakBehind' = TRUE
  /\ UNCHANGED <<main, bak, version>>

\* The process dies, and comes back with what it reads.
JsonDeath ==
  /\ writing' = "no"
  /\ bakBehind' = (bakBehind \/ writing = "overwritingBackup")
  /\ UNCHANGED <<main, bak, version, returned>>

JsonInit ==
  /\ main = Missing /\ bak = Missing
  /\ writing = "no" /\ version = 0 /\ returned = 0
  /\ bakBehind = FALSE

JsonNext ==
  \/ BeginWrite \/ WriteRefused \/ ReplaceFile \/ OverwriteFile \/ OverwriteFails
  \/ ReplaceBackup \/ OverwriteBackup \/ BackupFails \/ JsonDeath

JsonSpec == JsonInit /\ [][JsonNext]_jsonVars

\* Whenever no write is under way, after any number of deaths and of writes that failed
\* half way, what is read is what was last written with success, or what was being written
\* since; unless two things came together: the file was torn by an overwriting that did not
\* end, and the last write before it that came to the backup did not end there either.
WrittenIsRead ==
  /\ JsonTypeOK
  /\ writing = "no" /\ ~(main = Torn /\ bakBehind) => ReadJson >= returned
==============================================================================
