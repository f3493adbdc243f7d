------------------------------ MODULE ThumbJob ------------------------------
(***************************************************************************)
(* One thumbnail job: _thumb_daemon_process_job and _media_thumb_process   *)
(* for a request read from the socket, and the database update that        *)
(* _thumb_daemon_process_queue_jobs adds for a path taken from the         *)
(* extract-all queue.  The server runs one job at a time, but between two  *)
(* accesses to the database or to a file the environment may step in, and  *)
(* the server may die: each such access is an action of its own.           *)
(***************************************************************************)
EXTENDS ThumbStore

CONSTANT NoJob

DB_INSERT == "DB_INSERT"    \* THUMB_REQUEST_DB_INSERT
SAVE_FILE == "SAVE_FILE"    \* THUMB_REQUEST_SAVE_FILE
SUCCESS   == "SUCCESS"      \* THUMB_SUCCESS
FAIL      == "FAIL"         \* THUMB_FAIL

VARIABLES
    job,     \* the job being run, with the locals of the functions above
    conns,   \* open connections to the media database
    evas     \* ecore_evas_init has been called

jobVars == <<job, conns, evas>>

(***************************************************************************)
(* Labels: where a job waits.  Those of Updating are in                    *)
(* _media_thumb_update_db, called from _media_thumb_process or, after      *)
(* "reconnect", from _thumb_daemon_process_queue_jobs; at "answer"         *)
(* _media_thumb_process has returned; the others are inside it.            *)
(***************************************************************************)
Generating == {"remove", "exif", "rotate", "decode", "save", "fsync"}
Updating == {"get_type", "store_path", "store_size"}
Labels == {"connect", "lookup", "stat", "get_size", "answer", "reconnect"}
              \cup Generating \cup Updating

Errors == {"none", "db", "generate", "save"}

Job == [pc : Labels,
        type : {DB_INSERT, SAVE_FILE},
        queued : BOOLEAN,            \* taken from the queue, not the socket
        again : BOOLEAN,             \* in the second update of a queued path
        m : Media,                   \* req_msg->org_path
        dst : Paths \cup {EmptyPath},\* res_msg->dst_path, alias thumb_path
        target : Paths \cup {EmptyPath}, \* req_msg->dst_path
        need_update_db : BOOLEAN,
        data : Content,              \* the pixels to save
        width : Dim,                 \* res_msg->origin_width
        height : Dim,                \* res_msg->origin_height
        err : Errors]                \* what _media_thumb_process returned

JobTypeOK ==
    /\ job \in Job \cup {NoJob}
    /\ conns \in 0 .. 1
    /\ evas \in BOOLEAN

ASSUME JobAssumption == NoJob \notin Job

At(label) == job # NoJob /\ job.pc = label

(***************************************************************************)
(* The messages of a new job.  thumb_path[0] = '\0'; the rest of res_msg   *)
(* is zero for a queued path and whatever the stack holds for a request.   *)
(***************************************************************************)
NewJob(type, queued, m, target, w, h) ==
    [pc |-> "connect", type |-> type, queued |-> queued, again |-> FALSE,
     m |-> m, dst |-> EmptyPath, target |-> target, need_update_db |-> FALSE,
     data |-> Blank, width |-> w, height |-> h, err |-> "none"]

QueuedJob(m) == NewJob(DB_INSERT, TRUE, m, EmptyPath, 0, 0)

Requests == [type : {DB_INSERT}, m : Media, target : {EmptyPath}]
            \cup [type : {SAVE_FILE}, m : Media, target : SavePaths]

RequestedJobs(req) ==
    {NewJob(req.type, FALSE, req.m, req.target, left[1], left[2]) :
        left \in {0, Junk} \X {0, Junk}}

\* _media_thumb_db_connect, when it succeeds, and _media_thumb_db_disconnect
DbConnect == conns' = conns + 1
DbDisconnect == conns' = conns - 1

(***************************************************************************)
(* Leaving _media_thumb_process.  All its returns but the first close the  *)
(* database.                                                               *)
(***************************************************************************)
Return(error, path) ==
    /\ job' = [job EXCEPT !.pc = "answer", !.err = error, !.dst = path]
    /\ DbDisconnect

\* _media_thumb_process up to its first access to the database
Connect ==
    /\ At("connect")
    /\ \/ /\ job' = IF job.type = DB_INSERT
                    THEN [job EXCEPT !.pc = "lookup"]
                    ELSE [job EXCEPT !.pc = "remove", !.dst = job.target]
          /\ DbConnect
       \/ /\ "connect" \in Faults
          /\ job' = [job EXCEPT !.pc = "answer", !.err = "db"]
          /\ UNCHANGED conns
    /\ UNCHANGED <<storeVars, evas>>

(***************************************************************************)
(* _media_thumb_get_thumb_from_db_with_size, its first query.  A query     *)
(* that fails reads as a missing row.                                      *)
(***************************************************************************)
LookupTo(label, path, need) ==
    job' = [job EXCEPT !.pc = label, !.dst = path, !.need_update_db = need]

Lookup ==
    /\ At("lookup")
    /\ \/ /\ HasThumbPath(job.m)
          /\ LookupTo("stat", db[job.m].thumb, FALSE)
       \/ /\ Listed(job.m) /\ ~HasThumbPath(job.m)
          /\ LookupTo("remove", hash_name(job.m), TRUE)
       \/ /\ ~Listed(job.m) \/ "query" \in Faults
          /\ LookupTo("remove", hash_name(job.m), FALSE)
    /\ UNCHANGED <<storeVars, conns, evas>>

\* Mutants of Present: what is there is not used; what is not there is.
NeverPresent(p) == FALSE
AlwaysPresent(p) == TRUE

Present(p) == files[p] # NoFile

\* ... and its test for the file the row names.
Stat ==
    /\ At("stat")
    /\ job' = IF Present(job.dst)
              THEN [job EXCEPT !.pc = "get_size"]
              ELSE [job EXCEPT !.pc = "remove", !.need_update_db = TRUE]
    /\ UNCHANGED <<storeVars, conns, evas>>

(***************************************************************************)
(* The hit: res_msg->origin_width is assigned twice, last with the height, *)
(* and origin_height never.                                                *)
(***************************************************************************)
GetSize ==
    /\ At("get_size")
    /\ \E h \in ReadHeights(job.m) :
          job' = [job EXCEPT !.pc = "answer", !.width = h]
    /\ DbDisconnect
    /\ UNCHANGED <<storeVars, evas>>

\* A file in the way of the new thumbnail is removed before there is one.
Remove ==
    /\ At("remove")
    /\ RemoveFile(job.dst)
    /\ job' = [job EXCEPT !.pc =
                  IF Kind[job.m] = "exif" THEN "exif" ELSE "decode"]
    /\ UNCHANGED <<db, conns, evas>>

(***************************************************************************)
(* _thumbnail_get_data.  A JPEG with an EXIF thumbnail first tries that:   *)
(* the thumbnail is written, as it is and synchronously (O_SYNC), to the   *)
(* original's hash path unless a file is there, then decoded from that     *)
(* file and turned upright.                                                *)
(***************************************************************************)
\* Mutant of ExifPath: the thumbnail is written where the job is to save.
TargetPath(m) == job.dst

ExifPath(m) == hash_name(m)

Exif ==
    /\ At("exif")
    /\ LET path == ExifPath(job.m)
           Written(content, label) ==
              /\ files' = [files EXCEPT ![path] = content]
              /\ job' = [job EXCEPT !.pc = label]
       IN \/ /\ files[path] # NoFile
             /\ Written(files[path], "rotate")
          \/ /\ files[path] = NoFile
             /\ Written([of |-> job.m, turns |-> 0], "rotate")
          \/ /\ files[path] = NoFile
             /\ "write" \in Faults
             /\ \E left \in {NoFile, Torn} : Written(left, "decode")
    /\ UNCHANGED <<db, dirty, conns, evas>>

(***************************************************************************)
(* The pixels are there; res_msg takes the size of the original.  The way  *)
(* by EXIF gives the size in its tags or in the file's header, that of the *)
(* file; Evas is told to turn what it loads and gives the size after that. *)
(***************************************************************************)
FileSize(m) == <<OriginWidth, OriginHeight>>
EvasSize(m) ==
    IF IsImage(m) /\ Orient[m] \in {1, 3} THEN <<OriginHeight, OriginWidth>>
                                          ELSE FileSize(m)

Generated(picture, size) ==
    job' = [job EXCEPT !.pc = "save", !.data = picture,
                       !.width = size[1], !.height = size[2]]

(***************************************************************************)
(* The EXIF thumbnail may be too small, or not decode: then the original   *)
(* is decoded.  Only a failing conversion of a turned picture is final.    *)
(***************************************************************************)
Rotate ==
    /\ At("rotate")
    /\ LET found == files[ExifPath(job.m)] IN
       \/ /\ found \in Picture
          /\ Generated([found EXCEPT !.turns = (@ + Orient[job.m]) % 4],
                       FileSize(job.m))
          /\ UNCHANGED conns
       \/ /\ job' = [job EXCEPT !.pc = "decode"]
          /\ UNCHANGED conns
       \/ /\ found \in Picture
          /\ "generate" \in Faults
          /\ Return("generate", DefaultPath)
    /\ UNCHANGED <<storeVars, evas>>

\* A file that is neither image nor video "succeeds" with no data; an image
\* that Evas cannot load, with an empty picture.
Decode ==
    /\ At("decode")
    /\ \/ /\ Kind[job.m] # "none"
          /\ Generated(Upright(job.m), EvasSize(job.m))
          /\ UNCHANGED conns
       \/ /\ Kind[job.m] = "none" \/ (IsImage(job.m) /\ "generate" \in Faults)
          /\ Generated(Blank, <<0, 0>>)
          /\ UNCHANGED conns
       \/ /\ Kind[job.m] # "none"
          /\ "generate" \in Faults \/ ~evas
          /\ Return("generate", DefaultPath)
    /\ UNCHANGED <<storeVars, evas>>

\* _media_thumb_save_to_file_with_evas
Save ==
    /\ At("save")
    /\ \/ /\ files' = [files EXCEPT ![job.dst] = job.data]
          /\ dirty' = dirty \cup {job.dst}
          /\ job' = [job EXCEPT !.pc = "fsync"]
          /\ UNCHANGED conns
       \/ /\ "save" \in Faults \/ ~evas
          /\ \/ UNCHANGED files
             \/ "save" \in Faults /\ files' = [files EXCEPT ![job.dst] = Torn]
          /\ UNCHANGED dirty
          /\ Return("save", IF job.type = DB_INSERT THEN DefaultPath
                                                    ELSE job.dst)
    /\ UNCHANGED <<db, evas>>

\* Mutant of Synced: the new thumbnail is not forced to the medium.
NothingSynced(p) == dirty

Synced(p) == dirty \ {p}

Fsync ==
    /\ At("fsync")
    /\ \/ dirty' = Synced(job.dst)
       \/ "fsync" \in Faults /\ UNCHANGED dirty
    /\ IF job.need_update_db
       THEN job' = [job EXCEPT !.pc = "get_type"] /\ UNCHANGED conns
       ELSE Return("none", job.dst)
    /\ UNCHANGED <<db, files, evas>>

(***************************************************************************)
(* _media_thumb_update_db: a query and two updates, not one transaction.   *)
(* Its failures are logged and change nothing.  An update of a row that is *)
(* gone succeeds and has no effect.  LeaveUpdate closes the database and   *)
(* returns from _media_thumb_process or, the second time, from             *)
(* _thumb_daemon_process_queue_jobs.                                       *)
(***************************************************************************)
\* Mutant of LeaveUpdate: the database stays open.
LeaveUpdateOpen ==
    /\ job' = IF job.again THEN NoJob ELSE [job EXCEPT !.pc = "answer"]
    /\ UNCHANGED conns

LeaveUpdate ==
    /\ job' = IF job.again THEN NoJob ELSE [job EXCEPT !.pc = "answer"]
    /\ DbDisconnect

GetType ==
    /\ At("get_type")
    /\ \/ /\ Listed(job.m)
          /\ job' = [job EXCEPT !.pc = "store_path"]
          /\ UNCHANGED conns
       \/ /\ ~Listed(job.m) \/ "query" \in Faults
          /\ LeaveUpdate
    /\ UNCHANGED <<storeVars, evas>>

StorePath ==
    /\ At("store_path")
    /\ \/ /\ db' = WithThumbPath(job.m, job.dst)
          /\ IF StoresSize(job.m, job.width, job.height)
             THEN job' = [job EXCEPT !.pc = "store_size"] /\ UNCHANGED conns
             ELSE LeaveUpdate
       \/ "query" \in Faults /\ UNCHANGED db /\ LeaveUpdate
    /\ UNCHANGED <<files, dirty, evas>>

StoreSize ==
    /\ At("store_size")
    /\ \/ db' = WithSize(job.m, job.width, job.height)
       \/ "query" \in Faults /\ UNCHANGED db
    /\ LeaveUpdate
    /\ UNCHANGED <<files, dirty, evas>>

(***************************************************************************)
(* Back in _thumb_daemon_process_job: only a failed save-to-file is        *)
(* answered THUMB_FAIL.  For a queued path the status decides whether the  *)
(* database is opened again, to store what the answer holds.               *)
(***************************************************************************)
\* Mutant of Status: any failure is answered THUMB_FAIL.
StatusOfErr == IF job.err # "none" THEN FAIL ELSE SUCCESS

Status == IF job.err # "none" /\ job.type = SAVE_FILE THEN FAIL ELSE SUCCESS

EndQueued ==
    /\ At("answer") /\ job.queued
    /\ job' = IF Status = SUCCESS THEN [job EXCEPT !.pc = "reconnect"]
                                  ELSE NoJob
    /\ UNCHANGED <<storeVars, conns, evas>>

Reconnect ==
    /\ At("reconnect")
    /\ \/ /\ job' = [job EXCEPT !.pc = "get_type", !.again = TRUE]
          /\ DbConnect
       \/ /\ "connect" \in Faults
          /\ job' = NoJob
          /\ UNCHANGED conns
    /\ UNCHANGED <<storeVars, evas>>

JobStep ==
    \/ Connect \/ Lookup \/ Stat \/ GetSize
    \/ Remove \/ Exif \/ Rotate \/ Decode \/ Save \/ Fsync
    \/ GetType \/ StorePath \/ StoreSize
    \/ EndQueued \/ Reconnect

(***************************************************************************)
(* The process dies: memory is gone, the file being written may stay       *)
(* half-written, the stores stay.                                          *)
(***************************************************************************)
HalfWritten(fs) ==
    {fs}
    \cup (IF At("save") THEN {[fs EXCEPT ![job.dst] = Torn]} ELSE {})
    \cup (IF At("exif") /\ fs[ExifPath(job.m)] = NoFile
          THEN {[fs EXCEPT ![ExifPath(job.m)] = Torn]} ELSE {})

JobDies == job' = NoJob /\ conns' = 0 /\ evas' = FALSE

Crash ==
    /\ "crash" \in Faults
    /\ files' \in HalfWritten(files)
    /\ JobDies
    /\ UNCHANGED <<db, dirty>>

PowerCut ==
    /\ "power_cut" \in Faults
    /\ files' \in HalfWritten(AfterPowerCut)
    /\ dirty' = {}
    /\ JobDies
    /\ UNCHANGED db

\* The process ends while it runs no job.
Stop ==
    /\ job = NoJob
    /\ JobDies
    /\ UNCHANGED storeVars

\* _thumb_daemon_start_jobs
StartJobs ==
    /\ job = NoJob
    /\ ~evas
    /\ evas' = TRUE
    /\ UNCHANGED <<storeVars, job, conns>>

(***************************************************************************)
(* Jobs on their own: any request or queued path whenever none is run.     *)
(***************************************************************************)
Begin(new) ==
    /\ job = NoJob
    /\ job' = new
    /\ UNCHANGED <<storeVars, conns, evas>>

BeginAny ==
    \/ \E m \in Media : Begin(QueuedJob(m))
    \/ \E req \in Requests : \E new \in RequestedJobs(req) : Begin(new)

EndRequested ==
    /\ At("answer") /\ ~job.queued
    /\ job' = NoJob
    /\ UNCHANGED <<storeVars, conns, evas>>

jobSpecVars == <<storeVars, jobVars>>

JobInit == StoreInit /\ job = NoJob /\ conns = 0 /\ evas = FALSE

JobNext ==
    \/ BeginAny
    \/ JobStep
    \/ EndRequested
    \/ StartJobs \/ Stop
    \/ Crash \/ PowerCut
    \/ StoreEnv /\ UNCHANGED jobVars

JobSpec == JobInit /\ [][JobNext]_jobSpecVars

-----------------------------------------------------------------------------
(***************************************************************************)
(* Properties                                                              *)
(***************************************************************************)
TypeOK == StoreTypeOK /\ JobTypeOK

\* Whatever fails, a job closes each connection to the database it opened,
\* exactly once: none is open before it connects, when it answers, or when
\* no job runs (the eight returns of _media_thumb_process).
ConnsBalanced ==
    conns = IF job = NoJob \/ job.pc \in {"connect", "answer", "reconnect"}
            THEN 0 ELSE 1

\* An original's hash path never holds a picture of another original, nor
\* does its row name another's file: whatever request, failure, deletion or
\* crash comes between the steps that write the file and the row.
OwnFiles ==
    \A m \in Media :
       /\ files[hash_name(m)] \in
             {NoFile, Torn, Blank} \cup {[of |-> m, turns |-> t] : t \in Turns}
       /\ Listed(m) =>
             db[m].thumb \in {Null, EmptyPath, DefaultPath, hash_name(m)}

\* The size a hit answers wrongly (height as width, height never set) is
\* passed to the queue's second update, as is what the stack held, and must
\* not reach the database: a row holds no size, or the sides of its original
\* in an order that one of the two ways of generating gives.  Only for an
\* original on its side are these two different.
SizeOfOriginal ==
    \A m \in Media : Listed(m) =>
       <<db[m].width, db[m].height>> \in {<<0, 0>>, FileSize(m), EvasSize(m)}

\* How far pictures are turned, over any sequence of jobs that find, use and
\* replace each other's files: at a hash path a picture is raw, as it came
\* out of the EXIF data, or upright, never turned further; anywhere else it
\* is never raw.  There it may be turned once too often, when the job found
\* an upright picture where it meant to put the raw one.
PicturesTurned ==
    \A p \in Paths : files[p] \in Picture =>
       LET upright == Orient[files[p].of] IN
       files[p].turns \in IF p \in HashPaths THEN {0, upright}
                                           ELSE {upright, (2 * upright) % 4}

\* A row that names its original's hash path names a complete, upright
\* picture of it (an empty one of an original that nothing can load) that is
\* on the storage medium: the file is saved and synced before the row, and
\* survives crashes and power cuts.  It needs that nobody deletes thumbnails
\* and that no query fails: a failed lookup reads as a missing row and the
\* job removes the file the row names.
ListedIsWhole ==
    \A m \in Media :
       Listed(m) /\ db[m].thumb = hash_name(m) =>
          /\ files[hash_name(m)] \in {Upright(m), Blank}
          /\ hash_name(m) \notin dirty

\* A job that answers without an error names a file that exists (nobody
\* else deleting it), whether it was found or made.
AnswerNamesFile ==
    At("answer") /\ job.err = "none" => files[job.dst] # NoFile

\* The default thumbnail, when it is installed, is never replaced or removed
\* by a job (only by whoever deletes thumbnails), though rows name it and
\* jobs remove what is in their way.
IconKept ==
    [][files[DefaultPath] = Icon =>
          files'[DefaultPath] = Icon \/ ThumbDeleted(DefaultPath)]_jobSpecVars

\* "generates thumbnail of all media, which don't have thumbnail yet":
\* a listed, mounted original without thumbnail path is one that the next
\* extract-all selects.
UnextractedSelected ==
    \A m \in Media :
       Listed(m) /\ db[m].valid /\ ~HasThumbPath(m) => m \in Unextracted
=============================================================================
