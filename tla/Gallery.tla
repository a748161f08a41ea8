------------------------------- MODULE Gallery -------------------------------
(***************************************************************************)
(* The stored images (services/image_storage_service.py, image_service.py, *)
(* image_tags_service.py).  An image is kept in a file, on a WebDAV        *)
(* server, or in both; image_index.json says which, and only the index is  *)
(* under a lock.  Saving, deleting, compressing and making a thumbnail     *)
(* touch the file first and the index, or the thumbnail, later, while the  *)
(* upkeep removes old files and the console lists, tags and synchronises.  *)
(***************************************************************************)
EXTENDS FiniteSets, Naturals

CONSTANTS
  Picture,    \* relative paths
  MaxModes,   \* bound: changes of the storage mode
  MaxHalts    \* bound: deaths of the process

NoPicture == "nopicture"
ASSUME GalleryAssumption == {MaxModes, MaxHalts} \subseteq Nat /\ NoPicture \notin Picture

Mode == {"local", "webdav", "both"}
\* An entry of the index: whether it says local, whether it says webdav.
Entry == [local : BOOLEAN, webdav : BOOLEAN]
NoEntry == [local |-> FALSE, webdav |-> FALSE]

VARIABLES
  file,     \* images in the local directory
  remote,   \* images on the WebDAV server
  entry,    \* the index
  held,     \* the entries that the sync will write at its end
  todo,     \* files that the sync has before it
  syncing,  \* the sync holds the index lock
  mode,     \* the storage mode of the settings
  saver,    \* where the save of an image is
  saveMode, \* the mode it has read, for as long as it runs
  deleter,  \* where the request that deletes an image is
  doomed,   \* the image it deletes
  unlinked, \* it has removed the file
  shrunk,   \* the image whose smaller version waits to replace it
  upkeep,   \* where the maintenance is
  thumb,    \* the thumbnail of an image
  drawing,  \* thumbnails that a request is writing
  tagged,   \* images with tags
  promised, \* history: how an image has to be kept
  deleted,  \* history: images that were deleted
  modes, halts  \* counted for the bounds

galleryVars == <<file, remote, entry, held, todo, syncing, mode, saver, saveMode, deleter, doomed, unlinked,
                 shrunk, upkeep, thumb, drawing, tagged, promised, deleted, modes, halts>>

GalleryTypeOK ==
  /\ file \subseteq Picture /\ remote \subseteq Picture /\ todo \subseteq Picture
  /\ drawing \subseteq Picture /\ tagged \subseteq Picture /\ deleted \subseteq Picture
  /\ entry \in [Picture -> Entry] /\ held \in [Picture -> Entry] /\ syncing \in BOOLEAN /\ mode \in Mode
  /\ saver \in [Picture -> {"new", "file", "put", "book", "done", "failed"}] /\ saveMode \in [Picture -> Mode]
  /\ deleter \in {"idle", "index", "rest"} /\ doomed \in Picture \cup {NoPicture} /\ unlinked \in BOOLEAN
  /\ deleter = "idle" <=> doomed = NoPicture
  /\ shrunk \in Picture \cup {NoPicture} /\ upkeep \in {"idle", "list", "thumbs"}
  /\ thumb \in [Picture -> {"none", "part", "whole", "old"}]
  /\ promised \in [Picture -> {"nothing", "file", "copy"}] /\ modes \in 0..MaxModes /\ halts \in 0..MaxHalts

GalleryInit ==
  /\ file = {} /\ remote = {} /\ todo = {} /\ drawing = {} /\ tagged = {} /\ deleted = {} /\ syncing = FALSE
  /\ entry = [p \in Picture |-> NoEntry] /\ held = entry /\ mode \in Mode
  /\ saver = [p \in Picture |-> "new"] /\ saveMode = [p \in Picture |-> "local"]
  /\ deleter = "idle" /\ doomed = NoPicture /\ unlinked = FALSE /\ shrunk = NoPicture /\ upkeep = "idle"
  /\ thumb = [p \in Picture |-> "none"] /\ promised = [p \in Picture |-> "nothing"] /\ modes = 0 /\ halts = 0

saveVars == <<saver, saveMode>>
syncVars == <<held, todo, syncing>>
deleteVars == <<deleter, doomed, unlinked>>
thumbVars == <<thumb, drawing>>
boundVars == <<mode, modes, halts>>

Saving(p) == saver[p] \in {"file", "put", "book"}
Exists(p) == p \in file \/ entry[p].webdav
\* get_image_response finds the image.
Served(p) == p \in file \/ (entry[p].webdav /\ p \in remote)

\* Files go, without a word to the index: what was promised as a file only is gone.
Unlink(P) ==
  /\ file' = file \ P
  /\ promised' = [p \in Picture |-> IF p \in P /\ promised[p] = "file" THEN "nothing" ELSE promised[p]]

\* cleanup_old_images: whatever is older than the retention, and no file is while it is being saved.
CleanOld == \E P \in SUBSET {p \in file : ~Saving(p)} : Unlink(P)

(***************************************************************************)
(* Saving an image.                                                        *)
(***************************************************************************)
SaveBegins(p) ==
  /\ saver[p] = "new" /\ CleanOld
  /\ saveMode' = [saveMode EXCEPT ![p] = mode]
  /\ saver' = [saver EXCEPT ![p] = IF mode = "webdav" THEN "put" ELSE "file"]
  /\ UNCHANGED <<remote, entry, syncVars, boundVars, deleteVars, shrunk, upkeep, thumbVars, tagged, deleted>>

SaveWrites(p) ==
  /\ saver[p] = "file" /\ file' = file \cup {p}
  /\ saver' = [saver EXCEPT ![p] = IF saveMode[p] = "both" THEN "put" ELSE "book"]
  /\ UNCHANGED <<remote, entry, syncVars, saveMode, boundVars, deleteVars, shrunk, upkeep, thumbVars, tagged, promised, deleted>>

SavePuts(p) ==
  /\ saver[p] = "put" /\ remote' = remote \cup {p} /\ saver' = [saver EXCEPT ![p] = "book"]
  /\ UNCHANGED <<file, entry, syncVars, saveMode, boundVars, deleteVars, shrunk, upkeep, thumbVars, tagged, promised, deleted>>

\* The disk or the server fails, the server perhaps after it took the image; a file stays.
SaveFails(p) ==
  /\ saver[p] \in {"file", "put"} /\ remote' \in {remote} \cup {remote \cup {p} : x \in {saver[p]} \cap {"put"}}
  /\ saver' = [saver EXCEPT ![p] = "failed"] /\ saveMode' = [saveMode EXCEPT ![p] = "local"]
  /\ UNCHANGED <<file, entry, syncVars, boundVars, deleteVars, shrunk, upkeep, thumbVars, tagged, promised, deleted>>

Stored(p) == [local |-> saveMode[p] # "webdav", webdav |-> saveMode[p] # "local"]
\* A faulty variant, for the mutation runs: an entry that a listing made meanwhile is kept.
BookedIfNew(p) == [entry EXCEPT ![p] = IF @ = NoEntry THEN Stored(p) ELSE @]

Booked(p) == [entry EXCEPT ![p] = Stored(p)]

SaveBooks(p) ==
  /\ saver[p] = "book" /\ ~syncing /\ entry' = Booked(p)
  /\ saver' = [saver EXCEPT ![p] = "done"] /\ saveMode' = [saveMode EXCEPT ![p] = "local"]
  /\ promised' = [promised EXCEPT ![p] = IF p \in deleted THEN "nothing"
                                         ELSE IF saveMode[p] # "local" THEN "copy"
                                         ELSE IF p \in file THEN "file" ELSE "nothing"]
  /\ UNCHANGED <<file, remote, syncVars, boundVars, deleteVars, shrunk, upkeep, thumbVars, tagged, deleted>>

(***************************************************************************)
(* Deleting images: one request at a time, for it runs in the event loop.  *)
(***************************************************************************)
DeleteBegins(p) ==
  /\ deleter = "idle" /\ deleter' = "index" /\ doomed' = p /\ unlinked' = (p \in file)
  /\ file' = file \ {p}
  /\ deleted' = IF p \in file THEN deleted \cup {p} ELSE deleted
  /\ promised' = IF p \in file THEN [promised EXCEPT ![p] = "nothing"] ELSE promised
  /\ UNCHANGED <<remote, entry, syncVars, saveVars, boundVars, shrunk, upkeep, thumbVars, tagged>>

\* What comes of asking the server: it answers, it refuses (an ImageStorageError), or the
\* connection breaks, perhaps after the copy went.
Reply == {"answered", "refused", "broken"}

\* The copy goes, if the index knows of one, and the entry.  A refusal ends the request
\* only when no file was removed; a broken connection always does, and leaves the entry.
DeleteIndexed ==
  /\ deleter = "index" /\ ~syncing
  /\ \E reply \in IF entry[doomed].webdav THEN Reply ELSE {"answered"} :
       /\ remote' \in {remote} \cup {remote \ {doomed} : x \in {y \in {doomed} : entry[y].webdav}}
       /\ reply = "answered" /\ entry[doomed].webdav => doomed \notin remote'
       /\ IF reply = "answered" \/ (reply = "refused" /\ unlinked)
            THEN entry' = [entry EXCEPT ![doomed] = NoEntry] /\ deleter' = "rest" /\ UNCHANGED doomed
            ELSE UNCHANGED entry /\ deleter' = "idle" /\ doomed' = NoPicture
       /\ unlinked' = FALSE
       /\ IF (reply = "answered" /\ entry[doomed].webdav) \/ remote' # remote
            THEN deleted' = deleted \cup {doomed} /\ promised' = [promised EXCEPT ![doomed] = "nothing"]
            ELSE UNCHANGED <<deleted, promised>>
  /\ UNCHANGED <<file, syncVars, saveVars, boundVars, shrunk, upkeep, thumbVars, tagged>>

DeleteEnds ==
  /\ deleter = "rest" /\ deleter' = "idle" /\ doomed' = NoPicture
  /\ thumb' = [thumb EXCEPT ![doomed] = "none"] /\ tagged' = tagged \ {doomed}
  /\ UNCHANGED <<file, remote, entry, syncVars, saveVars, boundVars, unlinked, shrunk, upkeep, drawing, promised, deleted>>

(***************************************************************************)
(* Listing, and the sync, which holds the index lock over all its uploads. *)
(***************************************************************************)
\* list_items: files that the index lacks are added, entries of nothing dropped.
Refreshed(p, refresh, verify) ==
  LET e == IF refresh /\ entry[p] = NoEntry /\ p \in file THEN [local |-> TRUE, webdav |-> FALSE] ELSE entry[p]
  IN IF verify /\ e # NoEntry THEN [e EXCEPT !.local = p \in file] ELSE e

List ==
  /\ ~syncing
  /\ \E full \in BOOLEAN : entry' = [p \in Picture |-> Refreshed(p, full, full)]
  /\ UNCHANGED <<file, remote, syncVars, saveVars, boundVars, deleteVars, shrunk, upkeep, thumbVars, tagged, promised, deleted>>

SyncBegins ==
  /\ ~syncing /\ mode # "local" /\ syncing' = TRUE /\ todo' = file /\ held' = entry
  /\ UNCHANGED <<file, remote, entry, saveVars, boundVars, deleteVars, shrunk, upkeep, thumbVars, tagged, promised, deleted>>

\* One file: it is gone by now, has its copy, the server fails, or it is put, with or without an answer.
SyncFile(p) ==
  /\ syncing /\ p \in todo /\ todo' = todo \ {p}
  /\ \/ UNCHANGED <<remote, held>>
     \/ /\ p \in file /\ ~held[p].webdav /\ remote' = remote \cup {p}
        /\ held' \in {held, [held EXCEPT ![p] = [local |-> TRUE, webdav |-> TRUE]]}
  /\ UNCHANGED <<file, entry, syncing, saveVars, boundVars, deleteVars, shrunk, upkeep, thumbVars, tagged, promised, deleted>>

SyncEnds ==
  /\ syncing /\ todo = {} /\ syncing' = FALSE /\ entry' = held /\ held' = [p \in Picture |-> NoEntry]
  /\ promised' = [p \in Picture |-> IF promised[p] = "file" /\ held[p].webdav THEN "copy" ELSE promised[p]]
  /\ UNCHANGED <<file, remote, todo, saveVars, boundVars, deleteVars, shrunk, upkeep, thumbVars, tagged, deleted>>

(***************************************************************************)
(* Compressing, thumbnails, tags, and the upkeep.                          *)
(***************************************************************************)
Shrink(p) ==
  /\ shrunk = NoPicture /\ p \in file /\ shrunk' = p
  /\ UNCHANGED <<file, remote, entry, syncVars, saveVars, boundVars, deleteVars, upkeep, thumbVars, tagged, promised, deleted>>

\* The smaller version takes the place of the file, or is thrown away.
ShrinkEnds ==
  /\ shrunk # NoPicture /\ shrunk' = NoPicture
  /\ \/ /\ file' = file \cup {shrunk}
        /\ thumb' = [thumb EXCEPT ![shrunk] = IF @ = "whole" THEN "old" ELSE @]
     \/ UNCHANGED <<file, thumb>>
  /\ UNCHANGED <<remote, entry, syncVars, saveVars, boundVars, deleteVars, upkeep, drawing, tagged, promised, deleted>>

\* ensure_thumbnail opens its target and writes to it in the place where others look for it.
ThumbBegins(p) ==
  /\ Served(p) /\ (thumb[p] = "none" \/ (p \in file /\ thumb[p] = "old"))
  /\ thumb' = [thumb EXCEPT ![p] = "part"] /\ drawing' = drawing \cup {p}
  /\ UNCHANGED <<file, remote, entry, syncVars, saveVars, boundVars, deleteVars, shrunk, upkeep, tagged, promised, deleted>>

ThumbEnds(p) ==
  /\ p \in drawing /\ drawing' = drawing \ {p}
  /\ thumb' = [thumb EXCEPT ![p] = IF @ = "part" THEN "whole" ELSE @]
  /\ UNCHANGED <<file, remote, entry, syncVars, saveVars, boundVars, deleteVars, shrunk, upkeep, tagged, promised, deleted>>

\* set_tags, and delete_tag, which leaves some images without one.
SetTags ==
  /\ \/ \E p \in Picture : tagged' = tagged \cup {p}
     \/ \E P \in SUBSET tagged : tagged' = tagged \ P
  /\ UNCHANGED <<file, remote, entry, syncVars, saveVars, boundVars, deleteVars, shrunk, upkeep, thumbVars, promised, deleted>>

\* The maintenance of a listing and the one of every half hour begin alike.
UpkeepBegins ==
  /\ upkeep = "idle" /\ CleanOld /\ upkeep' \in {"list", "thumbs"}
  /\ UNCHANGED <<remote, entry, syncVars, saveVars, boundVars, deleteVars, shrunk, thumbVars, tagged, deleted>>

UpkeepLists ==
  /\ upkeep = "list" /\ ~syncing /\ upkeep' = "thumbs"
  /\ entry' = [p \in Picture |-> Refreshed(p, FALSE, TRUE)]
  /\ UNCHANGED <<file, remote, syncVars, saveVars, boundVars, deleteVars, shrunk, thumbVars, tagged, promised, deleted>>

UpkeepThumbs ==
  /\ upkeep = "thumbs" /\ upkeep' = "idle"
  /\ thumb' = [p \in Picture |-> IF Exists(p) THEN thumb[p] ELSE "none"]
  /\ UNCHANGED <<file, remote, entry, syncVars, saveVars, boundVars, deleteVars, shrunk, drawing, tagged, promised, deleted>>

\* delete_to_target, from the half-hourly upkeep or on demand: the file goes,
\* with its thumbnail and tags, and the index is not told.
FreeSpace(p) ==
  /\ p \in file /\ Unlink({p}) /\ thumb' = [thumb EXCEPT ![p] = "none"] /\ tagged' = tagged \ {p}
  /\ UNCHANGED <<remote, entry, syncVars, saveVars, boundVars, deleteVars, shrunk, upkeep, drawing, deleted>>

(***************************************************************************)
(* Settings and restarts.                                                  *)
(***************************************************************************)
ChangeMode ==
  /\ modes < MaxModes /\ modes' = modes + 1 /\ mode' \in Mode \ {mode}
  /\ UNCHANGED <<file, remote, entry, syncVars, saveVars, deleteVars, shrunk, upkeep, thumbVars, tagged, promised, deleted, halts>>

\* The process dies and starts again: what was under way stays half done.
Halt ==
  /\ halts < MaxHalts /\ halts' = halts + 1
  /\ saver' = [p \in Picture |-> IF Saving(p) THEN "failed" ELSE saver[p]]
  /\ saveMode' = [p \in Picture |-> "local"]
  /\ syncing' = FALSE /\ todo' = {} /\ held' = [p \in Picture |-> NoEntry]
  /\ deleter' = "idle" /\ doomed' = NoPicture /\ unlinked' = FALSE /\ shrunk' = NoPicture /\ upkeep' = "idle"
  /\ drawing' = {}
  /\ UNCHANGED <<file, remote, entry, thumb, tagged, promised, deleted, mode, modes>>

GalleryNext ==
  \/ \E p \in Picture :
       \/ SaveBegins(p) \/ SaveWrites(p) \/ SavePuts(p) \/ SaveFails(p) \/ SaveBooks(p)
       \/ DeleteBegins(p) \/ SyncFile(p) \/ Shrink(p) \/ ThumbBegins(p) \/ ThumbEnds(p) \/ FreeSpace(p)
  \/ DeleteIndexed \/ DeleteEnds \/ List \/ SyncBegins \/ SyncEnds \/ ShrinkEnds
  \/ SetTags \/ UpkeepBegins \/ UpkeepLists \/ UpkeepThumbs \/ ChangeMode \/ Halt

GallerySpec == GalleryInit /\ [][GalleryNext]_galleryVars

(***************************************************************************)
(* Properties.                                                             *)
(***************************************************************************)
\* An image whose save has returned is served until somebody deletes it, or
\* the upkeep removes its file and no finished save or later sync has made a
\* copy of it, whatever listings, failed deletions, syncs and crashes do to
\* the index between the steps of its save.
StoredIsServed == \A p \in Picture : promised[p] # "nothing" => Served(p)

\* What one would like of a deletion.  TLC refutes it: the compression of an
\* image that is deleted meanwhile puts its file back, and a save that is
\* still uploading enters it in the index again.
DeletedStaysAway == \A p \in deleted : deleter = "idle" => ~Served(p)

\* And of a thumbnail.  TLC refutes it: a request that dies leaves half a
\* thumbnail, which ensure_thumbnail takes for a finished one.
ThumbsAreWhole == \A p \in Picture : thumb[p] = "part" => p \in drawing
=============================================================================
