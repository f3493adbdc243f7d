----------------------------- MODULE ThumbStore -----------------------------
(***************************************************************************)
(* The two stores the thumbnail server works on: the media database (the   *)
(* table "media" of /opt/dbspace/.media.db) and the thumbnail files.  Both *)
(* are shared with programs that are not part of this repository: the      *)
(* media server adds and removes rows, a user or a file manager removes    *)
(* thumbnail files.  Their steps are the actions of the environment here.  *)
(* What util/media-thumb-db.c reads from and writes to a row are operators *)
(* on one row, used by the jobs of ThumbJob.                               *)
(***************************************************************************)
EXTENDS Naturals

CONSTANTS
    Media,        \* original files the media database may list
    SavePaths,    \* targets clients give to thumbnail_request_save_to_file
    DefaultPath,  \* THUMB_DEFAULT_PATH
    Null,         \* SQL NULL in thumbnail_path
    EmptyPath,    \* the empty string
    NoRow,        \* the database has no row for the original
    NoFile,       \* no file at a path
    Icon,         \* content of the default thumbnail
    Torn,         \* content of a file whose writing was interrupted
    Blank,        \* an image saved from no data
    Kind,         \* [Media -> Kinds]
    Orient,       \* [Media -> Turns]: the EXIF orientation, in quarter turns
    Faults        \* the failures and foreign steps that may happen

Kinds == {"exif", "image", "video", "none"}
Turns == 0 .. 3

AllFaults ==
    {"connect", "query", "select", "generate", "save", "write", "fsync",
     "thumb_deleted", "media_removed", "unmounted",
     "crash", "power_cut", "power_off", "reboot",
     "reject", "socket", "setsockopt", "sendto", "recvfrom", "foreign"}

(***************************************************************************)
(* Paths.  The hash name is an MD5 of the original path: two originals are *)
(* taken to have two names.                                                *)
(***************************************************************************)

\* Mutant of hash_name: the name is not of the whole path.
clashing_name(m) == <<"hash", Null>>

hash_name(m) == <<"hash", m>>
HashPaths == {hash_name(m) : m \in Media}
Paths == HashPaths \cup SavePaths \cup {DefaultPath}

(***************************************************************************)
(* A picture shows an original, turned by so many quarter turns from what  *)
(* its pixels are; it is upright when that is the EXIF orientation.        *)
(***************************************************************************)
Picture == [of : Media, turns : Turns]
Content == Picture \cup {Icon, Torn, Blank}
Upright(m) == [of |-> m, turns |-> Orient[m]]

(***************************************************************************)
(* Width and height.  Every original measures OriginWidth x OriginHeight   *)
(* as its file has it; one that lies on its side measures the other way    *)
(* round when it is loaded upright.  Junk is a positive number left in a   *)
(* buffer that nobody initialised.                                         *)
(***************************************************************************)
OriginWidth == 4
OriginHeight == 3
Junk == 7
Dim == {0, OriginHeight, OriginWidth, Junk}

Row == [thumb : Paths \cup {Null, EmptyPath},
        valid : BOOLEAN,
        width : Dim,
        height : Dim]

ASSUME StoreAssumption ==
    /\ Kind \in [Media -> Kinds]
    /\ Orient \in [Media -> Turns]
    /\ Faults \subseteq AllFaults
    /\ NoRow \notin Row
    /\ NoFile \notin Content
    /\ {Icon, Torn, Blank} \cap Picture = {}
    /\ Icon \notin {Torn, Blank} /\ Torn # Blank
    /\ {DefaultPath, Null, EmptyPath} \cap (HashPaths \cup SavePaths) = {}
    /\ DefaultPath \notin {Null, EmptyPath} /\ Null # EmptyPath
    /\ HashPaths \cap SavePaths = {}

VARIABLES
    db,      \* [Media -> Row \cup {NoRow}]
    files,   \* [Paths -> Content \cup {NoFile}]
    dirty    \* paths whose content is not yet on the storage medium

storeVars == <<db, files, dirty>>

StoreTypeOK ==
    /\ db \in [Media -> Row \cup {NoRow}]
    /\ files \in [Paths -> Content \cup {NoFile}]
    /\ dirty \in SUBSET Paths

NewRow == [thumb |-> Null, valid |-> TRUE, width |-> 0, height |-> 0]

(***************************************************************************)
(* The database starts with any listing nobody extracted yet.  No package  *)
(* of this repository installs the default thumbnail: it may be missing.   *)
(***************************************************************************)
StoreInit ==
    /\ db \in [Media -> {NoRow, NewRow}]
    /\ \E icon \in {Icon, NoFile} :
          files = [p \in Paths |-> IF p = DefaultPath THEN icon ELSE NoFile]
    /\ dirty = {}

(***************************************************************************)
(* Queries on one row (util/media-thumb-db.c).                             *)
(***************************************************************************)
Listed(m) == db[m] # NoRow

HasThumbPath(m) == Listed(m) /\ db[m].thumb \notin {Null, EmptyPath}

\* SELECT path from media where thumbnail_path is null and validity=1
Unextracted == {m \in Media : Listed(m) /\ db[m].valid /\ db[m].thumb = Null}

\* SELECT height from media: a failed query leaves the caller's 0.
ReadHeights(m) ==
    (IF Listed(m) THEN {db[m].height} ELSE {0})
    \cup (IF "query" \in Faults THEN {0} ELSE {})

IsImage(m) == Kind[m] \in {"exif", "image"}

\* UPDATE media SET thumbnail_path=p WHERE path=m: no row, no effect
WithThumbPath(m, p) == IF Listed(m) THEN [db EXCEPT ![m].thumb = p] ELSE db

\* UPDATE media SET width=w, height=h WHERE path=m
WithSize(m, w, h) ==
    IF Listed(m) THEN [db EXCEPT ![m].width = w, ![m].height = h] ELSE db

\* Mutant of StoresSize: width and height are not looked at.
AlwaysStoresSize(m, w, h) == IsImage(m)

\* Does _media_thumb_update_db store the size it is given?
StoresSize(m, w, h) == IsImage(m) /\ w > 0 /\ h > 0

\* _media_thumb_remove_file
RemoveFile(p) ==
    /\ files' = [files EXCEPT ![p] = NoFile]
    /\ dirty' = dirty \ {p}

(***************************************************************************)
(* The environment.                                                        *)
(***************************************************************************)

\* The media server scans a new file.
MediaAdded(m) ==
    /\ ~Listed(m)
    /\ db' = [db EXCEPT ![m] = NewRow]
    /\ UNCHANGED <<files, dirty>>

\* The media server drops the row of a file.
MediaRemoved(m) ==
    /\ "media_removed" \in Faults
    /\ Listed(m)
    /\ db' = [db EXCEPT ![m] = NoRow]
    /\ UNCHANGED <<files, dirty>>

\* The memory card of a file is taken out or put back.
Mounted(m) ==
    /\ "unmounted" \in Faults
    /\ Listed(m)
    /\ db' = [db EXCEPT ![m].valid = ~@]
    /\ UNCHANGED <<files, dirty>>

\* Somebody deletes a file of the thumbnail directories.
ThumbDeleted(p) ==
    /\ "thumb_deleted" \in Faults
    /\ files[p] # NoFile
    /\ files' = [files EXCEPT ![p] = NoFile]
    /\ dirty' = dirty \ {p}
    /\ UNCHANGED db

\* The kernel writes a file back to the storage medium.
WriteBack(p) ==
    /\ p \in dirty
    /\ dirty' = dirty \ {p}
    /\ UNCHANGED <<db, files>>

StoreEnv ==
    \/ \E m \in Media : MediaAdded(m) \/ MediaRemoved(m) \/ Mounted(m)
    \/ \E p \in Paths : ThumbDeleted(p) \/ WriteBack(p)

\* What a power cut leaves of the files: those not written back are damaged.
AfterPowerCut == [p \in Paths |-> IF p \in dirty THEN Torn ELSE files[p]]
=============================================================================
