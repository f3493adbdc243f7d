--------------------------- MODULE ThumbJobProofs ---------------------------
(***************************************************************************)
(* Proofs about ThumbJob, for any originals, save-to-file targets, kinds,  *)
(* orientations and set of faults: JobInv is an inductive invariant of     *)
(* JobSpec, and type correctness, ConnsBalanced, OwnFiles and              *)
(* SizeOfOriginal follow from it.  So do, further down, the theorems on    *)
(* the files jobs work on: how far a picture may be turned; no job ever    *)
(* replaces or removes the default thumbnail; a job that answers without   *)
(* an error names a file that exists; a row that names its original's hash *)
(* path names a whole picture on the medium.                               *)
(***************************************************************************)
EXTENDS ThumbJob, TLAPS

OwnPictures(m) == {[of |-> m, turns |-> t] : t \in Turns}

(***************************************************************************)
(* The locals of the job.  OwnFiles speaks of files and rows only; it is   *)
(* kept because a job never holds another original's path or pixels, and   *)
(* because only jobs for the database update a row.                        *)
(***************************************************************************)
JobOwn ==
    job # NoJob =>
       /\ job.type = DB_INSERT =>
             job.dst \in {DefaultPath, EmptyPath, hash_name(job.m)}
       /\ job.type = SAVE_FILE =>
             /\ job.target \in SavePaths
             /\ job.dst \in SavePaths \cup {DefaultPath, EmptyPath}
             /\ ~job.queued /\ ~job.need_update_db
             /\ job.pc \notin Updating \cup
                               {"lookup", "stat", "get_size", "reconnect"}
       /\ job.pc \in Generating \cup {"stat"} => job.dst # EmptyPath
       /\ job.pc = "save" => job.data \in {Blank} \cup OwnPictures(job.m)

(***************************************************************************)
(* The size in res_msg.  It is one of the original's once pixels were      *)
(* generated; before that a queued job has no height, which is what keeps  *)
(* the half-set size of a hit out of the database.                         *)
(***************************************************************************)
Sides(m, w, h) == <<w, h>> \in {FileSize(m), EvasSize(m)}

TrueSize == Sides(job.m, job.width, job.height)

JobSize ==
    job # NoJob =>
       /\ job.queued \/ job.pc \in Updating \cup {"save", "fsync", "reconnect"} =>
             TrueSize \/ job.height = 0
       /\ job.queued /\ job.pc \in {"connect", "lookup", "stat", "get_size"} =>
             job.height = 0
       /\ job.pc = "store_size" => TrueSize

\* SizeOfOriginal, of one row.
RowSizes ==
    \A m \in Media : Listed(m) =>
       \/ db[m].width = 0 /\ db[m].height = 0
       \/ Sides(m, db[m].width, db[m].height)

Stores == StoreTypeOK /\ OwnFiles /\ RowSizes
Locals == JobTypeOK /\ ConnsBalanced /\ JobOwn /\ JobSize

JobInv == Stores /\ Locals

-----------------------------------------------------------------------------
(***************************************************************************)
(* Lemmas about steps that many actions share.                             *)
(***************************************************************************)

\* What Stores says depends on the stores only.
LEMMA StoresUnchanged ==
  ASSUME Stores, UNCHANGED storeVars
  PROVE  Stores'
  BY DEF Stores, StoreTypeOK, OwnFiles, RowSizes, Listed, storeVars

\* What Locals says depends on the server's memory only.
LEMMA LocalsUnchanged ==
  ASSUME Locals, UNCHANGED jobVars
  PROVE  Locals'
  BY DEF Locals, JobTypeOK, ConnsBalanced, JobOwn, JobSize, TrueSize, jobVars

\* A job that ends with its connections closed leaves nothing to relate.
LEMMA LocalsGone ==
  ASSUME job' = NoJob, conns' = 0, evas' \in BOOLEAN
  PROVE  Locals'
  BY DEF Locals, JobTypeOK, ConnsBalanced, JobOwn, JobSize

\* What is known while a job runs.
LEMMA Running ==
  ASSUME Locals, NEW label, At(label)
  PROVE  /\ job \in Job /\ job # NoJob /\ job.pc = label
         /\ evas \in BOOLEAN
         /\ conns = IF label \in {"connect", "answer", "reconnect"}
                    THEN 0 ELSE 1
         /\ job.type \in {DB_INSERT, SAVE_FILE}
  BY DEF Locals, JobTypeOK, At, ConnsBalanced, Job

LEMMA ConnectLocals ==
  ASSUME Locals, Connect
  PROVE  Locals'
  <1>0. /\ job \in Job /\ job # NoJob /\ job.pc = "connect" /\ conns = 0
        /\ evas \in BOOLEAN /\ evas' = evas
        /\ job.type \in {DB_INSERT, SAVE_FILE}
    BY Running DEF Connect
  <1>1. CASE /\ job.type = DB_INSERT
             /\ job' = [job EXCEPT !.pc = "lookup"]
             /\ conns' = 1
    <2>1. job' \in Job
      BY <1>0, <1>1
      DEF Job, Labels
    <2>2. /\ job'.pc = "lookup" /\ job'.type = job.type /\ job'.m = job.m
          /\ job'.target = job.target /\ job'.dst = job.dst
          /\ job'.queued = job.queued
          /\ job'.need_update_db = job.need_update_db
          /\ job'.data = job.data /\ job'.width = job.width
          /\ job'.height = job.height
      BY <1>0, <1>1
      DEF Job
    <2>3. JobOwn' /\ JobSize'
      BY <1>0, <1>1, <2>1, <2>2
      DEF Locals, JobOwn, JobSize, TrueSize, Generating, Updating, DB_INSERT,
          SAVE_FILE
    <2> QED
      BY <1>0, <1>1, <2>1, <2>2, <2>3, JobAssumption
      DEF Locals, JobTypeOK, ConnsBalanced
  <1>2. CASE /\ job.type = SAVE_FILE
             /\ job' = [job EXCEPT !.pc = "remove", !.dst = job.target]
             /\ conns' = 1
    <2>1. job' \in Job
      BY <1>0, <1>2
      DEF Job, Labels, Generating
    <2>2. /\ job'.pc = "remove" /\ job'.type = job.type /\ job'.m = job.m
          /\ job'.target = job.target /\ job'.dst = job.target
          /\ job'.queued = job.queued
          /\ job'.need_update_db = job.need_update_db
          /\ job'.data = job.data /\ job'.width = job.width
          /\ job'.height = job.height
      BY <1>0, <1>2
      DEF Job
    <2>3. JobOwn' /\ JobSize'
      BY <1>0, <1>2, <2>1, <2>2, StoreAssumption
      DEF Locals, JobOwn, JobSize, TrueSize, Generating, Updating, DB_INSERT,
          SAVE_FILE
    <2> QED
      BY <1>0, <1>2, <2>1, <2>2, <2>3, JobAssumption
      DEF Locals, JobTypeOK, ConnsBalanced
  <1>3. CASE /\ job' = [job EXCEPT !.pc = "answer", !.err = "db"]
             /\ conns' = 0
    <2>1. job' \in Job
      BY <1>0, <1>3
      DEF Job, Labels, Errors
    <2>2. /\ job'.pc = "answer" /\ job'.type = job.type /\ job'.m = job.m
          /\ job'.target = job.target /\ job'.dst = job.dst
          /\ job'.queued = job.queued
          /\ job'.need_update_db = job.need_update_db
          /\ job'.data = job.data /\ job'.width = job.width
          /\ job'.height = job.height
      BY <1>0, <1>3
      DEF Job
    <2>3. JobOwn' /\ JobSize'
      BY <1>0, <1>3, <2>1, <2>2
      DEF Locals, JobOwn, JobSize, TrueSize, Generating, Updating, DB_INSERT,
          SAVE_FILE
    <2> QED
      BY <1>0, <1>3, <2>1, <2>2, <2>3, JobAssumption
      DEF Locals, JobTypeOK, ConnsBalanced
  <1> QED
    BY <1>0, <1>1, <1>2, <1>3 DEF Connect, DbConnect

LEMMA LookupLocals ==
  ASSUME Stores, Locals, Lookup
  PROVE  Locals'
  <1>0. /\ job \in Job /\ job # NoJob /\ job.pc = "lookup" /\ conns = 1
        /\ evas \in BOOLEAN /\ evas' = evas
        /\ job.type \in {DB_INSERT, SAVE_FILE}
    BY Running DEF Lookup
  <1>h. /\ hash_name(job.m) \in Paths /\ hash_name(job.m) # EmptyPath
        /\ job.type = DB_INSERT
    BY <1>0, StoreAssumption
    DEF Job, Paths, HashPaths, Locals, JobOwn, SAVE_FILE, DB_INSERT
  <1>t. HasThumbPath(job.m) =>
           /\ db[job.m].thumb \in Paths \ {EmptyPath}
           /\ db[job.m].thumb \in {DefaultPath, hash_name(job.m)}
    BY <1>0 , <1>h
    DEF Stores, StoreTypeOK, OwnFiles, HasThumbPath, Listed, Job, Row
  <1>1. CASE /\ HasThumbPath(job.m)
             /\ job' = [job EXCEPT !.pc = "stat",
                                !.dst = db[job.m].thumb,
                                !.need_update_db = FALSE]
             /\ conns' = conns
    <2>1. job' \in Job
      BY <1>0, <1>1, <1>t
      DEF Job, Labels
    <2>2. /\ job'.pc = "stat" /\ job'.type = job.type /\ job'.m = job.m
          /\ job'.target = job.target /\ job'.dst = db[job.m].thumb
          /\ job'.queued = job.queued /\ job'.need_update_db = FALSE
          /\ job'.data = job.data /\ job'.width = job.width
          /\ job'.height = job.height
      BY <1>0, <1>1
      DEF Job
    <2>3. JobOwn' /\ JobSize'
      BY <1>0, <1>1, <2>1, <2>2, <1>t, <1>h
      DEF Locals, JobOwn, JobSize, TrueSize, Generating, Updating, DB_INSERT,
          SAVE_FILE
    <2> QED
      BY <1>0, <1>1, <2>1, <2>2, <2>3, JobAssumption
      DEF Locals, JobTypeOK, ConnsBalanced
  <1>2. CASE /\ job' = [job EXCEPT !.pc = "remove",
                                !.dst = hash_name(job.m),
                                !.need_update_db = TRUE]
             /\ conns' = conns
    <2>1. job' \in Job
      BY <1>0, <1>2, <1>h
      DEF Job, Labels, Generating
    <2>2. /\ job'.pc = "remove" /\ job'.type = job.type /\ job'.m = job.m
          /\ job'.target = job.target /\ job'.dst = hash_name(job.m)
          /\ job'.queued = job.queued /\ job'.need_update_db = TRUE
          /\ job'.data = job.data /\ job'.width = job.width
          /\ job'.height = job.height
      BY <1>0, <1>2
      DEF Job
    <2>3. JobOwn' /\ JobSize'
      BY <1>0, <1>2, <2>1, <2>2, <1>h
      DEF Locals, JobOwn, JobSize, TrueSize, Generating, Updating, DB_INSERT,
          SAVE_FILE
    <2> QED
      BY <1>0, <1>2, <2>1, <2>2, <2>3, JobAssumption
      DEF Locals, JobTypeOK, ConnsBalanced
  <1>3. CASE /\ job' = [job EXCEPT !.pc = "remove",
                                !.dst = hash_name(job.m),
                                !.need_update_db = FALSE]
             /\ conns' = conns
    <2>1. job' \in Job
      BY <1>0, <1>3, <1>h
      DEF Job, Labels, Generating
    <2>2. /\ job'.pc = "remove" /\ job'.type = job.type /\ job'.m = job.m
          /\ job'.target = job.target /\ job'.dst = hash_name(job.m)
          /\ job'.queued = job.queued /\ job'.need_update_db = FALSE
          /\ job'.data = job.data /\ job'.width = job.width
          /\ job'.height = job.height
      BY <1>0, <1>3
      DEF Job
    <2>3. JobOwn' /\ JobSize'
      BY <1>0, <1>3, <2>1, <2>2, <1>h
      DEF Locals, JobOwn, JobSize, TrueSize, Generating, Updating, DB_INSERT,
          SAVE_FILE
    <2> QED
      BY <1>0, <1>3, <2>1, <2>2, <2>3, JobAssumption
      DEF Locals, JobTypeOK, ConnsBalanced
  <1> QED
    BY <1>0, <1>1, <1>2, <1>3 DEF Lookup, LookupTo

LEMMA StatLocals ==
  ASSUME Locals, Stat
  PROVE  Locals'
  <1>0. /\ job \in Job /\ job # NoJob /\ job.pc = "stat" /\ conns = 1
        /\ evas \in BOOLEAN /\ evas' = evas
        /\ job.type \in {DB_INSERT, SAVE_FILE}
    BY Running DEF Stat
  <1>1. CASE /\ job' = [job EXCEPT !.pc = "get_size"]
             /\ conns' = conns
    <2>1. job' \in Job
      BY <1>0, <1>1
      DEF Job, Labels
    <2>2. /\ job'.pc = "get_size" /\ job'.type = job.type /\ job'.m = job.m
          /\ job'.target = job.target /\ job'.dst = job.dst
          /\ job'.queued = job.queued
          /\ job'.need_update_db = job.need_update_db
          /\ job'.data = job.data /\ job'.width = job.width
          /\ job'.height = job.height
      BY <1>0, <1>1
      DEF Job
    <2>3. JobOwn' /\ JobSize'
      BY <1>0, <1>1, <2>1, <2>2
      DEF Locals, JobOwn, JobSize, TrueSize, Generating, Updating, DB_INSERT,
          SAVE_FILE
    <2> QED
      BY <1>0, <1>1, <2>1, <2>2, <2>3, JobAssumption
      DEF Locals, JobTypeOK, ConnsBalanced
  <1>2. CASE /\ job' = [job EXCEPT !.pc = "remove", !.need_update_db = TRUE]
             /\ conns' = conns
    <2>1. job' \in Job
      BY <1>0, <1>2
      DEF Job, Labels, Generating
    <2>2. /\ job'.pc = "remove" /\ job'.type = job.type /\ job'.m = job.m
          /\ job'.target = job.target /\ job'.dst = job.dst
          /\ job'.queued = job.queued /\ job'.need_update_db = TRUE
          /\ job'.data = job.data /\ job'.width = job.width
          /\ job'.height = job.height
      BY <1>0, <1>2
      DEF Job
    <2>3. JobOwn' /\ JobSize'
      BY <1>0, <1>2, <2>1, <2>2
      DEF Locals, JobOwn, JobSize, TrueSize, Generating, Updating, DB_INSERT,
          SAVE_FILE
    <2> QED
      BY <1>0, <1>2, <2>1, <2>2, <2>3, JobAssumption
      DEF Locals, JobTypeOK, ConnsBalanced
  <1> QED
    BY <1>0, <1>1, <1>2 DEF Stat

LEMMA GetSizeLocals ==
  ASSUME Stores, Locals, GetSize
  PROVE  Locals'
  <1>0. /\ job \in Job /\ job # NoJob /\ job.pc = "get_size" /\ conns = 1
        /\ evas \in BOOLEAN /\ evas' = evas
        /\ job.type \in {DB_INSERT, SAVE_FILE}
    BY Running DEF GetSize
  <1>1. ASSUME NEW h \in Dim,
               job' = [job EXCEPT !.pc = "answer", !.width = h],
               conns' = 0
        PROVE  Locals'
    <2>1. job' \in Job
      BY <1>0, <1>1
      DEF Job, Labels
    <2>2. /\ job'.pc = "answer" /\ job'.type = job.type /\ job'.m = job.m
          /\ job'.target = job.target /\ job'.dst = job.dst
          /\ job'.queued = job.queued
          /\ job'.need_update_db = job.need_update_db
          /\ job'.data = job.data /\ job'.width = h
          /\ job'.height = job.height
      BY <1>0, <1>1
      DEF Job
    <2>3. JobOwn' /\ JobSize'
      BY <1>0, <1>1, <2>1, <2>2
      DEF Locals, JobOwn, JobSize, TrueSize, Generating, Updating, DB_INSERT,
          SAVE_FILE
    <2> QED
      BY <1>0, <1>1, <2>1, <2>2, <2>3, JobAssumption
      DEF Locals, JobTypeOK, ConnsBalanced
  <1>2. Listed(job.m) => db[job.m].height \in Dim
    BY <1>0 DEF Stores, StoreTypeOK, Listed, Job, Row
  <1>3. PICK h \in ReadHeights(job.m) :
           job' = [job EXCEPT !.pc = "answer", !.width = h]
    BY DEF GetSize
  <1>4. h \in Dim /\ conns' = 0
    BY <1>0, <1>2, <1>3 DEF Dim, ReadHeights, GetSize, DbDisconnect
  <1> QED
    BY <1>1, <1>3, <1>4

(***************************************************************************)
(* The steps that only move on, the pixels, and the ways out.              *)
(***************************************************************************)
LEMMA NextLabel ==
  ASSUME Locals, job \in Job, job # NoJob, conns = 1, evas \in BOOLEAN,
         NEW to \in {"exif", "rotate", "decode", "fsync",
                     "get_type", "store_path"},
         to \in Generating => job.dst # EmptyPath,
         to \in Updating => job.type = DB_INSERT,
         to \in Updating \cup {"fsync"} => TrueSize \/ job.height = 0,
         job' = [job EXCEPT !.pc = to], UNCHANGED <<conns, evas>>
  PROVE  Locals'
  <1>1. job' \in Job
    BY DEF Job, Labels, Generating, Updating
  <1>2. /\ job'.pc = to /\ job'.type = job.type /\ job'.m = job.m
        /\ job'.target = job.target /\ job'.dst = job.dst
        /\ job'.queued = job.queued
        /\ job'.need_update_db = job.need_update_db /\ job'.data = job.data
        /\ job'.width = job.width /\ job'.height = job.height
    BY DEF Job
  <1>3. JobOwn' /\ JobSize'
    BY <1>1, <1>2
    DEF Locals, JobOwn, JobSize, TrueSize, Generating, Updating, DB_INSERT,
        SAVE_FILE
  <1> QED
    BY <1>1, <1>2, <1>3, JobAssumption
    DEF Locals, JobTypeOK, ConnsBalanced, Generating, Updating

LEMMA ReturnLocals ==
  ASSUME Locals, job \in Job, job # NoJob, conns = 1, evas \in BOOLEAN,
         NEW error \in Errors, NEW path \in {DefaultPath, job.dst},
         Return(error, path), UNCHANGED evas
  PROVE  Locals'
  <1>1. job' \in Job
    BY DEF Job, Labels, Paths, Return
  <1>2. /\ job'.pc = "answer" /\ job'.type = job.type /\ job'.m = job.m
        /\ job'.target = job.target /\ job'.dst = path
        /\ job'.queued = job.queued
        /\ job'.need_update_db = job.need_update_db /\ job'.data = job.data
        /\ job'.width = job.width /\ job'.height = job.height /\ conns' = 0
    BY DEF Job, Return, DbDisconnect
  <1>3. JobOwn' /\ JobSize'
    BY <1>1, <1>2
    DEF Locals, JobOwn, JobSize, TrueSize, Generating, Updating, DB_INSERT,
        SAVE_FILE
  <1> QED
    BY <1>1, <1>2, <1>3, JobAssumption DEF Locals, JobTypeOK, ConnsBalanced

LEMMA GeneratedLocals ==
  ASSUME Locals, job \in Job, job # NoJob, conns = 1, evas \in BOOLEAN,
         job.dst # EmptyPath,
         NEW picture \in Content, picture \in {Blank} \cup OwnPictures(job.m),
         NEW size \in {<<0, 0>>, FileSize(job.m), EvasSize(job.m)},
         Generated(picture, size), UNCHANGED <<conns, evas>>
  PROVE  Locals'
  <1> DEFINE w == size[1]
             h == size[2]
  <1>0. /\ job' = [job EXCEPT !.pc = "save", !.data = picture,
                              !.width = w, !.height = h]
        /\ w \in Dim /\ h \in Dim
        /\ h = 0 \/ Sides(job.m, w, h)
    BY DEF Generated, Dim, Sides, FileSize, EvasSize
  <1> HIDE DEF w, h
  <1>1. job' \in Job
    BY <1>0 DEF Job, Labels, Generating
  <1>2. /\ job'.pc = "save" /\ job'.type = job.type /\ job'.m = job.m
        /\ job'.target = job.target /\ job'.dst = job.dst
        /\ job'.queued = job.queued
        /\ job'.need_update_db = job.need_update_db /\ job'.data = picture
        /\ job'.width = w /\ job'.height = h
    BY <1>0 DEF Job
  <1>3. JobOwn' /\ JobSize'
    BY <1>0, <1>1, <1>2
    DEF Locals, JobOwn, JobSize, TrueSize, Generating, Updating, DB_INSERT,
        SAVE_FILE
  <1> QED
    BY <1>1, <1>2, <1>3, JobAssumption DEF Locals, JobTypeOK, ConnsBalanced

LEMMA LeaveUpdateLocals ==
  ASSUME Locals, job \in Job, job # NoJob, conns = 1, evas \in BOOLEAN,
         job.pc \in Updating, LeaveUpdate, UNCHANGED evas
  PROVE  Locals'
  <1>1. CASE job.again
    BY <1>1, LocalsGone DEF LeaveUpdate, DbDisconnect
  <1>2. CASE ~job.again
    <2>1. job' \in Job
      BY <1>2 DEF Job, Labels, LeaveUpdate
    <2>2. /\ job'.pc = "answer" /\ job'.type = job.type /\ job'.m = job.m
          /\ job'.target = job.target /\ job'.dst = job.dst
          /\ job'.queued = job.queued
          /\ job'.need_update_db = job.need_update_db
          /\ job'.data = job.data /\ job'.width = job.width
          /\ job'.height = job.height /\ conns' = 0
      BY <1>2 DEF Job, LeaveUpdate, DbDisconnect
    <2>3. JobOwn' /\ JobSize'
      BY <2>1, <2>2
      DEF Locals, JobOwn, JobSize, TrueSize, Generating, Updating, DB_INSERT,
          SAVE_FILE
    <2> QED
      BY <2>1, <2>2, <2>3, JobAssumption DEF Locals, JobTypeOK, ConnsBalanced
  <1> QED
    BY <1>1, <1>2

LEMMA RemoveLocals ==
  ASSUME Locals, Remove
  PROVE  Locals'
  <1>0. /\ job \in Job /\ job # NoJob /\ job.pc = "remove" /\ conns = 1
        /\ evas \in BOOLEAN /\ evas' = evas
        /\ job.type \in {DB_INSERT, SAVE_FILE}
    BY Running DEF Remove
  <1>1. job.dst # EmptyPath
    BY <1>0 DEF Locals, JobOwn, Generating
  <1>2. PICK to \in {"exif", "decode"} :
           job' = [job EXCEPT !.pc = to] /\ conns' = conns
    BY DEF Remove
  <1> QED
    BY <1>0, <1>1, <1>2, NextLabel DEF Updating

LEMMA ExifLocals ==
  ASSUME Locals, Exif
  PROVE  Locals'
  <1>0. /\ job \in Job /\ job # NoJob /\ job.pc = "exif" /\ conns = 1
        /\ evas \in BOOLEAN /\ evas' = evas
        /\ job.type \in {DB_INSERT, SAVE_FILE}
    BY Running DEF Exif
  <1>1. job.dst # EmptyPath
    BY <1>0 DEF Locals, JobOwn, Generating
  <1>2. PICK to \in {"rotate", "decode"} :
           job' = [job EXCEPT !.pc = to] /\ conns' = conns
    BY DEF Exif
  <1> QED
    BY <1>0, <1>1, <1>2, NextLabel DEF Updating

LEMMA RotateLocals ==
  ASSUME Stores, Locals, Rotate
  PROVE  Locals'
  <1>0. /\ job \in Job /\ job # NoJob /\ job.pc = "rotate" /\ conns = 1
        /\ evas \in BOOLEAN /\ evas' = evas
        /\ job.type \in {DB_INSERT, SAVE_FILE}
    BY Running DEF Rotate
  <1>1. job.dst # EmptyPath
    BY <1>0 DEF Locals, JobOwn, Generating
  <1> DEFINE found == files[ExifPath(job.m)]
             turned == [found EXCEPT !.turns = (@ + Orient[job.m]) % 4]
  <1>2. CASE /\ found \in Picture
             /\ Generated(turned, FileSize(job.m)) /\ conns' = conns
    <2>1. job.m \in Media /\ Orient[job.m] \in Turns
      BY <1>0, StoreAssumption DEF Job
    <2>2. found \in OwnPictures(job.m)
      BY <1>2, <2>1, StoreAssumption
      DEF Stores, OwnFiles, OwnPictures, ExifPath, Content
    <2>3. PICK t \in Turns : found = [of |-> job.m, turns |-> t]
      BY <2>2 DEF OwnPictures
    <2>4. (t + Orient[job.m]) % 4 \in Turns
      BY <2>1, <2>3 DEF Turns
    <2>5. turned = [of |-> job.m, turns |-> (t + Orient[job.m]) % 4]
      BY <2>3
    <2>6. turned \in OwnPictures(job.m) /\ turned \in Content
      BY <2>1, <2>4, <2>5 DEF OwnPictures, Content, Picture
    <2> QED
      BY <1>0, <1>1, <1>2, <2>6, GeneratedLocals
  <1>3. CASE job' = [job EXCEPT !.pc = "decode"] /\ conns' = conns
    BY <1>0, <1>1, <1>3, NextLabel DEF Updating
  <1>4. CASE Return("generate", DefaultPath)
    BY <1>0, <1>4, ReturnLocals DEF Errors
  <1> QED
    BY <1>2, <1>3, <1>4 DEF Rotate

LEMMA DecodeLocals ==
  ASSUME Locals, Decode
  PROVE  Locals'
  <1>0. /\ job \in Job /\ job # NoJob /\ job.pc = "decode" /\ conns = 1
        /\ evas \in BOOLEAN /\ evas' = evas
        /\ job.type \in {DB_INSERT, SAVE_FILE}
    BY Running DEF Decode
  <1>1. job.dst # EmptyPath /\ job.m \in Media
    BY <1>0 DEF Locals, JobOwn, Generating, Job
  <1>2. PICK picture \in {Blank, Upright(job.m)},
             size \in {<<0, 0>>, FileSize(job.m), EvasSize(job.m)} :
           \/ Generated(picture, size) /\ conns' = conns
           \/ Return("generate", DefaultPath)
    BY DEF Decode
  <1>3. picture \in Content /\ picture \in {Blank} \cup OwnPictures(job.m)
    BY <1>1, <1>2, StoreAssumption DEF Upright, OwnPictures, Content, Picture
  <1>4. CASE Generated(picture, size) /\ conns' = conns
    BY <1>0, <1>1, <1>3, <1>4, GeneratedLocals
  <1>5. CASE Return("generate", DefaultPath)
    BY <1>0, <1>5, ReturnLocals DEF Errors
  <1> QED
    BY <1>2, <1>4, <1>5

LEMMA SaveLocals ==
  ASSUME Locals, Save
  PROVE  Locals'
  <1>0. /\ job \in Job /\ job # NoJob /\ job.pc = "save" /\ conns = 1
        /\ evas \in BOOLEAN /\ evas' = evas
        /\ job.type \in {DB_INSERT, SAVE_FILE}
    BY Running DEF Save
  <1>1. job.dst # EmptyPath /\ (TrueSize \/ job.height = 0)
    BY <1>0 DEF Locals, JobOwn, JobSize, Generating
  <1>2. CASE job' = [job EXCEPT !.pc = "fsync"] /\ conns' = conns
    BY <1>0, <1>1, <1>2, NextLabel DEF Updating
  <1>3. CASE \E path \in {DefaultPath, job.dst} : Return("save", path)
    BY <1>0, <1>3, ReturnLocals DEF Errors
  <1> QED
    BY <1>2, <1>3 DEF Save

LEMMA FsyncLocals ==
  ASSUME Locals, Fsync
  PROVE  Locals'
  <1>0. /\ job \in Job /\ job # NoJob /\ job.pc = "fsync" /\ conns = 1
        /\ evas \in BOOLEAN /\ evas' = evas
        /\ job.type \in {DB_INSERT, SAVE_FILE}
    BY Running DEF Fsync
  <1>1. /\ TrueSize \/ job.height = 0
        /\ job.need_update_db => job.type = DB_INSERT
    BY <1>0 DEF Locals, JobOwn, JobSize
  <1>2. CASE /\ job.need_update_db
             /\ job' = [job EXCEPT !.pc = "get_type"] /\ conns' = conns
    BY <1>0, <1>1, <1>2, NextLabel DEF Generating
  <1>3. CASE Return("none", job.dst)
    BY <1>0, <1>3, ReturnLocals DEF Errors
  <1> QED
    BY <1>2, <1>3 DEF Fsync

LEMMA GetTypeLocals ==
  ASSUME Locals, GetType
  PROVE  Locals'
  <1>0. /\ job \in Job /\ job # NoJob /\ job.pc = "get_type" /\ conns = 1
        /\ evas \in BOOLEAN /\ evas' = evas
        /\ job.type \in {DB_INSERT, SAVE_FILE}
    BY Running DEF GetType
  <1>1. (TrueSize \/ job.height = 0) /\ job.type = DB_INSERT
    BY <1>0 DEF Locals, JobOwn, JobSize, Updating
  <1>2. CASE job' = [job EXCEPT !.pc = "store_path"] /\ conns' = conns
    BY <1>0, <1>1, <1>2, NextLabel DEF Generating
  <1>3. CASE LeaveUpdate
    BY <1>0, <1>3, LeaveUpdateLocals DEF Updating
  <1> QED
    BY <1>2, <1>3 DEF GetType

LEMMA StorePathLocals ==
  ASSUME Locals, StorePath
  PROVE  Locals'
  <1>0. /\ job \in Job /\ job # NoJob /\ job.pc = "store_path" /\ conns = 1
        /\ evas \in BOOLEAN /\ evas' = evas
        /\ job.type \in {DB_INSERT, SAVE_FILE}
    BY Running DEF StorePath
  <1>1. CASE /\ job.width > 0
             /\ job.height > 0
             /\ job' = [job EXCEPT !.pc = "store_size"]
             /\ conns' = 1
    <2>1. job' \in Job
      BY <1>0, <1>1
      DEF Job, Labels, Updating
    <2>2. /\ job'.pc = "store_size" /\ job'.type = job.type
          /\ job'.m = job.m /\ job'.target = job.target
          /\ job'.dst = job.dst /\ job'.queued = job.queued
          /\ job'.need_update_db = job.need_update_db
          /\ job'.data = job.data /\ job'.width = job.width
          /\ job'.height = job.height
      BY <1>0, <1>1
      DEF Job
    <2>3. JobOwn' /\ JobSize'
      BY <1>0, <1>1, <2>1, <2>2
      DEF Locals, JobOwn, JobSize, TrueSize, Generating, Updating, DB_INSERT,
          SAVE_FILE
    <2> QED
      BY <1>0, <1>1, <2>1, <2>2, <2>3, JobAssumption
      DEF Locals, JobTypeOK, ConnsBalanced
  <1>2. CASE LeaveUpdate
    BY <1>0, <1>2, LeaveUpdateLocals DEF Updating
  <1> QED
    BY <1>0, <1>1, <1>2 DEF StorePath, StoresSize

LEMMA StoreSizeLocals ==
  ASSUME Locals, StoreSize
  PROVE  Locals'
  <1>0. /\ job \in Job /\ job # NoJob /\ job.pc = "store_size" /\ conns = 1
        /\ evas \in BOOLEAN /\ evas' = evas
        /\ job.type \in {DB_INSERT, SAVE_FILE}
    BY Running DEF StoreSize
  <1> QED
    BY <1>0, LeaveUpdateLocals DEF StoreSize, Updating

LEMMA EndQueuedLocals ==
  ASSUME Locals, EndQueued
  PROVE  Locals'
  <1>0. /\ job \in Job /\ job # NoJob /\ job.pc = "answer" /\ conns = 0
        /\ evas \in BOOLEAN /\ evas' = evas
        /\ job.type \in {DB_INSERT, SAVE_FILE}
    BY Running DEF EndQueued
  <1>1. CASE /\ job.queued
             /\ job' = [job EXCEPT !.pc = "reconnect"]
             /\ conns' = 0
    <2>1. job' \in Job
      BY <1>0, <1>1
      DEF Job, Labels
    <2>2. /\ job'.pc = "reconnect" /\ job'.type = job.type /\ job'.m = job.m
          /\ job'.target = job.target /\ job'.dst = job.dst
          /\ job'.queued = job.queued
          /\ job'.need_update_db = job.need_update_db
          /\ job'.data = job.data /\ job'.width = job.width
          /\ job'.height = job.height
      BY <1>0, <1>1
      DEF Job
    <2>3. JobOwn' /\ JobSize'
      BY <1>0, <1>1, <2>1, <2>2
      DEF Locals, JobOwn, JobSize, TrueSize, Generating, Updating, DB_INSERT,
          SAVE_FILE
    <2> QED
      BY <1>0, <1>1, <2>1, <2>2, <2>3, JobAssumption
      DEF Locals, JobTypeOK, ConnsBalanced
  <1> QED
    BY <1>0, <1>1, LocalsGone DEF EndQueued

LEMMA ReconnectLocals ==
  ASSUME Locals, Reconnect
  PROVE  Locals'
  <1>0. /\ job \in Job /\ job # NoJob /\ job.pc = "reconnect" /\ conns = 0
        /\ evas \in BOOLEAN /\ evas' = evas
        /\ job.type \in {DB_INSERT, SAVE_FILE}
    BY Running DEF Reconnect
  <1>1. CASE /\ job' = [job EXCEPT !.pc = "get_type", !.again = TRUE]
             /\ conns' = 1
    <2>1. job' \in Job
      BY <1>0, <1>1
      DEF Job, Labels, Updating
    <2>2. /\ job'.pc = "get_type" /\ job'.type = job.type /\ job'.m = job.m
          /\ job'.target = job.target /\ job'.dst = job.dst
          /\ job'.queued = job.queued
          /\ job'.need_update_db = job.need_update_db
          /\ job'.data = job.data /\ job'.width = job.width
          /\ job'.height = job.height
      BY <1>0, <1>1
      DEF Job
    <2>3. JobOwn' /\ JobSize'
      BY <1>0, <1>1, <2>1, <2>2
      DEF Locals, JobOwn, JobSize, TrueSize, Generating, Updating, DB_INSERT,
          SAVE_FILE
    <2> QED
      BY <1>0, <1>1, <2>1, <2>2, <2>3, JobAssumption
      DEF Locals, JobTypeOK, ConnsBalanced
  <1> QED
    BY <1>0, <1>1, LocalsGone DEF Reconnect, DbConnect

-----------------------------------------------------------------------------
(***************************************************************************)
(* The stores.  Two originals have two hash paths, and nobody gives one    *)
(* away as a save-to-file target.                                          *)
(***************************************************************************)
LEMMA HashNames ==
  ASSUME NEW m \in Media
  PROVE  /\ hash_name(m) \in Paths
         /\ hash_name(m) \notin SavePaths \cup {DefaultPath, EmptyPath, Null}
         /\ \A n \in Media : hash_name(m) = hash_name(n) => m = n
  BY StoreAssumption DEF hash_name, HashPaths, Paths

\* One file is written, with nothing of another original.
LEMMA FileWritten ==
  ASSUME Stores, NEW p, NEW content \in Content \cup {NoFile},
         \A m \in Media : p = hash_name(m) =>
            content \in {NoFile, Torn, Blank} \cup OwnPictures(m),
         files' = [files EXCEPT ![p] = content],
         dirty' \in SUBSET Paths, UNCHANGED db
  PROVE  Stores'
  <1>1. StoreTypeOK'
    BY DEF Stores, StoreTypeOK
  <1>2. \A m \in Media :
           files'[hash_name(m)] \in {NoFile, Torn, Blank} \cup OwnPictures(m)
    BY HashNames DEF Stores, StoreTypeOK, OwnFiles, OwnPictures
  <1> QED
    BY <1>1, <1>2
    DEF Stores, OwnFiles, OwnPictures, RowSizes, Listed

\* Some files are damaged.
LEMMA FilesTorn ==
  ASSUME Stores, files' \in [Paths -> Content \cup {NoFile}],
         \A p \in Paths : files'[p] \in {files[p], Torn},
         dirty' \in SUBSET Paths, UNCHANGED db
  PROVE  Stores'
  <1>1. \A m \in Media :
           files'[hash_name(m)] \in {NoFile, Torn, Blank} \cup OwnPictures(m)
    BY HashNames DEF Stores, StoreTypeOK, OwnFiles, OwnPictures
  <1> QED
    BY <1>1
    DEF Stores, StoreTypeOK, OwnFiles, OwnPictures, RowSizes, Listed

\* A job's target is no other original's hash path.
LEMMA OwnTarget ==
  ASSUME Locals, job \in Job, job # NoJob, job.pc \in Generating
  PROVE  /\ job.m \in Media /\ job.dst \in Paths
         /\ \A m \in Media : job.dst = hash_name(m) => m = job.m
  <1>1. /\ job.m \in Media /\ job.dst \in Paths \cup {EmptyPath}
        /\ job.type \in {DB_INSERT, SAVE_FILE}
    BY DEF Job
  <1>2. /\ job.dst # EmptyPath
        /\ job.dst \in SavePaths \cup {DefaultPath, EmptyPath, hash_name(job.m)}
    BY <1>1 DEF Locals, JobOwn
  <1> QED
    BY <1>1, <1>2, HashNames

LEMMA RemoveStores ==
  ASSUME Stores, Locals, Remove
  PROVE  Stores'
  BY FileWritten DEF Remove, RemoveFile, Stores, StoreTypeOK

LEMMA ExifStores ==
  ASSUME Stores, Locals, Exif
  PROVE  Stores'
  <1>1. job.m \in Media
    BY Running DEF Exif, Job
  <1> DEFINE path == hash_name(job.m)
             raw == [of |-> job.m, turns |-> 0]
  <1>2. PICK content \in {files[path], raw, NoFile, Torn} :
           files' = [files EXCEPT ![path] = content]
    BY DEF Exif, ExifPath
  <1>3. raw \in OwnPictures(job.m) /\ raw \in Content
    BY <1>1 DEF OwnPictures, Content, Picture, Turns
  <1>4. files[path] \in {NoFile, Torn, Blank} \cup OwnPictures(job.m)
    BY <1>1 DEF Stores, OwnFiles, OwnPictures
  <1>5. files[path] \in Content \cup {NoFile}
    BY <1>1, HashNames DEF Stores, StoreTypeOK
  <1>6. /\ content \in Content \cup {NoFile}
        /\ content \in {NoFile, Torn, Blank} \cup OwnPictures(job.m)
    BY <1>2, <1>3, <1>4, <1>5 DEF Content
  <1>7. dirty' \in SUBSET Paths /\ db' = db
    BY DEF Exif, Stores, StoreTypeOK
  <1> QED
    BY <1>1, <1>2, <1>6, <1>7, FileWritten, HashNames

LEMMA SaveStores ==
  ASSUME Stores, Locals, Save
  PROVE  Stores'
  <1>1. /\ job \in Job /\ job # NoJob /\ job.pc = "save"
        /\ job.data \in Content
        /\ job.data \in {Blank} \cup OwnPictures(job.m)
    BY Running DEF Save, Job, Locals, JobOwn
  <1>2. /\ job.m \in Media /\ job.dst \in Paths
        /\ \A m \in Media : job.dst = hash_name(m) => m = job.m
    BY <1>1, OwnTarget DEF Generating
  <1>3. dirty' \in SUBSET Paths /\ db' = db
    BY <1>2 DEF Save, Stores, StoreTypeOK
  <1>4. CASE files' = files
    BY <1>3, <1>4
    DEF Stores, StoreTypeOK, OwnFiles, RowSizes, Listed
  <1>5. CASE \E content \in {job.data, Torn} :
                files' = [files EXCEPT ![job.dst] = content]
    BY <1>1, <1>2, <1>3, <1>5, FileWritten DEF Content
  <1> QED
    BY <1>4, <1>5 DEF Save

LEMMA FsyncStores ==
  ASSUME Stores, Locals, Fsync
  PROVE  Stores'
  BY DEF Fsync, Synced, Stores, StoreTypeOK, OwnFiles, RowSizes, Listed

LEMMA StorePathStores ==
  ASSUME Stores, Locals, StorePath
  PROVE  Stores'
  <1>1. /\ job \in Job /\ job # NoJob /\ job.pc = "store_path"
        /\ job.m \in Media /\ job.dst \in Paths \cup {EmptyPath}
    BY Running DEF StorePath, Job
  <1>2. job.dst \in {DefaultPath, EmptyPath, hash_name(job.m)}
    BY <1>1, Running DEF StorePath, Locals, JobOwn, Updating
  <1>3. CASE db' = db
    BY <1>3 DEF StorePath, Stores, StoreTypeOK, OwnFiles, RowSizes,
                Listed
  <1>4. CASE Listed(job.m) /\ db' = [db EXCEPT ![job.m].thumb = job.dst]
    <2>1. db[job.m] \in Row
      BY <1>1, <1>4 DEF Stores, StoreTypeOK, Listed
    <2>2. [db[job.m] EXCEPT !.thumb = job.dst] \in Row
      BY <1>1, <2>1 DEF Row
    <2>3. /\ [db[job.m] EXCEPT !.thumb = job.dst].thumb = job.dst
          /\ [db[job.m] EXCEPT !.thumb = job.dst].width = db[job.m].width
          /\ [db[job.m] EXCEPT !.thumb = job.dst].height = db[job.m].height
      BY <2>1 DEF Row
    <2>4. StoreTypeOK'
      BY <1>4, <2>2 DEF StorePath, Stores, StoreTypeOK
    <2>5. OwnFiles'
      BY <1>1, <1>2, <1>4, <2>3 DEF StorePath, Stores, StoreTypeOK, OwnFiles, Listed
    <2>6. RowSizes'
      BY <1>1, <1>4, <2>3
      DEF StorePath, Stores, StoreTypeOK, RowSizes, Listed
    <2> QED
      BY <2>4, <2>5, <2>6 DEF Stores
  <1> QED
    BY <1>3, <1>4 DEF StorePath, WithThumbPath

LEMMA StoreSizeStores ==
  ASSUME Stores, Locals, StoreSize
  PROVE  Stores'
  <1>1. /\ job \in Job /\ job # NoJob /\ job.pc = "store_size"
        /\ job.m \in Media
    BY Running DEF StoreSize, Job
  <1>2. TrueSize
    BY <1>1 DEF Locals, JobSize
  <1>3. CASE db' = db
    BY <1>3 DEF StoreSize, Stores, StoreTypeOK, OwnFiles, RowSizes,
                Listed
  <1>4. CASE /\ Listed(job.m)
             /\ db' = [db EXCEPT ![job.m].width = job.width,
                                 ![job.m].height = job.height]
    <2> DEFINE row == [[db[job.m] EXCEPT !.width = job.width]
                          EXCEPT !.height = job.height]
    <2>1. db[job.m] \in Row
      BY <1>1, <1>4 DEF Stores, StoreTypeOK, Listed
    <2>2. row \in Row
      BY <1>1, <2>1 DEF Row, Job
    <2>3. /\ row.thumb = db[job.m].thumb
          /\ Sides(job.m, row.width, row.height)
      BY <1>2, <2>1 DEF Row, TrueSize
    <2>4. db' = [db EXCEPT ![job.m] = row]
      BY <1>1, <1>4 DEF Stores, StoreTypeOK
    <2> HIDE DEF row
    <2>5. StoreTypeOK'
      BY <2>2, <2>4 DEF StoreSize, Stores, StoreTypeOK
    <2>6. OwnFiles'
      BY <1>1, <1>4, <2>3, <2>4
      DEF StoreSize, Stores, StoreTypeOK, OwnFiles, Listed
    <2>7. RowSizes'
      BY <1>1, <2>3, <2>4
      DEF StoreSize, Stores, StoreTypeOK, RowSizes, Listed
    <2> QED
      BY <2>5, <2>6, <2>7 DEF Stores
  <1> QED
    BY <1>3, <1>4 DEF StoreSize, WithSize

-----------------------------------------------------------------------------
(***************************************************************************)
(* The steps of a job, of the process, and of the environment.             *)
(***************************************************************************)
LEMMA JobStepKeeps ==
  ASSUME Stores, Locals, JobStep
  PROVE  Stores' /\ Locals'
  <1>1. CASE Connect
    BY <1>1, StoresUnchanged, ConnectLocals DEF Connect
  <1>2. CASE Lookup
    BY <1>2, StoresUnchanged, LookupLocals DEF Lookup
  <1>3. CASE Stat
    BY <1>3, StoresUnchanged, StatLocals DEF Stat
  <1>4. CASE GetSize
    BY <1>4, StoresUnchanged, GetSizeLocals DEF GetSize
  <1>5. CASE Remove
    BY <1>5, RemoveStores, RemoveLocals
  <1>6. CASE Exif
    BY <1>6, ExifStores, ExifLocals
  <1>7. CASE Rotate
    BY <1>7, StoresUnchanged, RotateLocals DEF Rotate
  <1>8. CASE Decode
    BY <1>8, StoresUnchanged, DecodeLocals DEF Decode
  <1>9. CASE Save
    BY <1>9, SaveStores, SaveLocals
  <1>10. CASE Fsync
    BY <1>10, FsyncStores, FsyncLocals
  <1>11. CASE GetType
    BY <1>11, StoresUnchanged, GetTypeLocals DEF GetType
  <1>12. CASE StorePath
    BY <1>12, StorePathStores, StorePathLocals
  <1>13. CASE StoreSize
    BY <1>13, StoreSizeStores, StoreSizeLocals
  <1>14. CASE EndQueued
    BY <1>14, StoresUnchanged, EndQueuedLocals DEF EndQueued
  <1>15. CASE Reconnect
    BY <1>15, StoresUnchanged, ReconnectLocals DEF Reconnect
  <1> QED
    BY <1>1, <1>2, <1>3, <1>4, <1>5, <1>6, <1>7, <1>8, <1>9, <1>10, <1>11,
       <1>12, <1>13, <1>14, <1>15
    DEF JobStep

LEMMA BeginKeeps ==
  ASSUME Stores, Locals, BeginAny
  PROVE  Stores' /\ Locals'
  <1>1. Stores'
    BY StoresUnchanged DEF BeginAny, Begin
  <1>2. /\ job = NoJob /\ UNCHANGED <<conns, evas>>
        /\ conns = 0 /\ evas \in BOOLEAN
    BY DEF BeginAny, Begin, Locals, JobTypeOK, ConnsBalanced
  <1>3. ASSUME NEW type \in {DB_INSERT, SAVE_FILE}, NEW queued \in BOOLEAN,
               NEW m \in Media, NEW target \in Paths \cup {EmptyPath},
               NEW w \in {0, Junk}, NEW h \in {0, Junk},
               type = SAVE_FILE => target \in SavePaths /\ ~queued,
               queued => h = 0,
               job' = NewJob(type, queued, m, target, w, h)
        PROVE  Locals'
    <2>1. job' \in Job
      BY <1>3 DEF NewJob, Job, Labels, Dim, Content, Errors
    <2>2. /\ job'.pc = "connect" /\ job'.type = type /\ job'.m = m
          /\ job'.target = target /\ job'.dst = EmptyPath
          /\ job'.queued = queued /\ job'.need_update_db = FALSE
          /\ job'.height = h
      BY <1>3 DEF NewJob
    <2>3. JobOwn' /\ JobSize'
      BY <1>3, <2>1, <2>2
      DEF JobOwn, JobSize, TrueSize, Generating, Updating, DB_INSERT, SAVE_FILE
    <2> QED
      BY <1>2, <2>1, <2>2, <2>3, JobAssumption
      DEF Locals, JobTypeOK, ConnsBalanced
  <1>4. ASSUME NEW m \in Media, job' = QueuedJob(m)
        PROVE  Locals'
    BY <1>3, <1>4 DEF QueuedJob, DB_INSERT, SAVE_FILE
  <1>5. ASSUME NEW req \in Requests, job' \in RequestedJobs(req)
        PROVE  Locals'
    <2>1. /\ req.type \in {DB_INSERT, SAVE_FILE} /\ req.m \in Media
          /\ req.target \in Paths \cup {EmptyPath}
          /\ req.type = SAVE_FILE => req.target \in SavePaths
      BY DEF Requests, Paths, DB_INSERT, SAVE_FILE
    <2>2. PICK left \in {0, Junk} \X {0, Junk} :
             job' = NewJob(req.type, FALSE, req.m, req.target,
                           left[1], left[2])
      BY <1>5 DEF RequestedJobs
    <2>3. left[1] \in {0, Junk} /\ left[2] \in {0, Junk}
      OBVIOUS
    <2> QED
      BY <1>3, <2>1, <2>2, <2>3
  <1> QED
    BY <1>1, <1>4, <1>5 DEF BeginAny, Begin

LEMMA EndRequestedKeeps ==
  ASSUME Stores, Locals, EndRequested
  PROVE  Stores' /\ Locals'
  <1>1. conns = 0 /\ evas \in BOOLEAN
    BY Running DEF EndRequested
  <1> QED
    BY <1>1, StoresUnchanged, LocalsGone DEF EndRequested

LEMMA StartJobsKeeps ==
  ASSUME Stores, Locals, StartJobs
  PROVE  Stores' /\ Locals'
  BY StoresUnchanged
  DEF StartJobs, Locals, JobTypeOK, ConnsBalanced, JobOwn, JobSize

LEMMA StopKeeps ==
  ASSUME Stores, Locals, Stop
  PROVE  Stores' /\ Locals'
  BY StoresUnchanged, LocalsGone DEF Stop, JobDies

\* Dying damages at most the file being written.
LEMMA HalfWrittenTorn ==
  ASSUME NEW fs \in [Paths -> Content \cup {NoFile}],
         NEW left \in HalfWritten(fs)
  PROVE  /\ left \in [Paths -> Content \cup {NoFile}]
         /\ \A p \in Paths : left[p] \in {fs[p], Torn}
  <1>1. CASE left = fs
    BY <1>1
  <1>2. CASE \E q : left = [fs EXCEPT ![q] = Torn]
    BY <1>2 DEF Content
  <1> QED
    BY <1>1, <1>2 DEF HalfWritten

LEMMA CrashKeeps ==
  ASSUME Stores, Locals, Crash
  PROVE  Stores' /\ Locals'
  <1>1. /\ files \in [Paths -> Content \cup {NoFile}]
        /\ dirty' \in SUBSET Paths
    BY DEF Stores, StoreTypeOK, Crash
  <1>2. Stores'
    BY <1>1, HalfWrittenTorn, FilesTorn DEF Crash
  <1> QED
    BY <1>2, LocalsGone DEF Crash, JobDies

LEMMA PowerCutKeeps ==
  ASSUME Stores, Locals, PowerCut
  PROVE  Stores' /\ Locals'
  <1>1. /\ AfterPowerCut \in [Paths -> Content \cup {NoFile}]
        /\ \A p \in Paths : AfterPowerCut[p] \in {files[p], Torn}
    BY DEF Stores, StoreTypeOK, AfterPowerCut, Content
  <1>2. /\ files' \in [Paths -> Content \cup {NoFile}]
        /\ \A p \in Paths : files'[p] \in {AfterPowerCut[p], Torn}
    BY <1>1, HalfWrittenTorn DEF PowerCut
  <1>3. Stores'
    BY <1>1, <1>2, FilesTorn DEF PowerCut
  <1> QED
    BY <1>3, LocalsGone DEF PowerCut, JobDies

LEMMA StoreEnvStores ==
  ASSUME Stores, StoreEnv
  PROVE  Stores'
  <1>1. ASSUME NEW m \in Media, MediaAdded(m)
        PROVE  Stores'
    <2>1. /\ NewRow \in Row /\ NewRow.thumb = Null
          /\ NewRow.width = 0 /\ NewRow.height = 0
      BY DEF NewRow, Row, Dim
    <2> QED
      BY <1>1, <2>1
      DEF MediaAdded, Stores, StoreTypeOK, OwnFiles, RowSizes, Listed
  <1>2. ASSUME NEW m \in Media, MediaRemoved(m)
        PROVE  Stores'
    BY <1>2
    DEF MediaRemoved, Stores, StoreTypeOK, OwnFiles, RowSizes, Listed
  <1>3. ASSUME NEW m \in Media, Mounted(m)
        PROVE  Stores'
    <2> DEFINE row == [db[m] EXCEPT !.valid = ~@]
    <2>1. db[m] \in Row
      BY <1>3 DEF Mounted, Stores, StoreTypeOK, Listed
    <2>2. /\ row \in Row /\ row.thumb = db[m].thumb
          /\ row.width = db[m].width /\ row.height = db[m].height
      BY <2>1 DEF Row
    <2>3. db' = [db EXCEPT ![m] = row] /\ UNCHANGED <<files, dirty>>
      BY <1>3 DEF Mounted
    <2> HIDE DEF row
    <2> QED
      BY <1>3, <2>2, <2>3
      DEF Mounted, Stores, StoreTypeOK, OwnFiles, RowSizes, Listed
  <1>4. ASSUME NEW p \in Paths, ThumbDeleted(p)
        PROVE  Stores'
    BY <1>4, FileWritten DEF ThumbDeleted, Stores, StoreTypeOK
  <1>5. ASSUME NEW p \in Paths, WriteBack(p)
        PROVE  Stores'
    BY <1>5
    DEF WriteBack, Stores, StoreTypeOK, OwnFiles, RowSizes, Listed
  <1> QED
    BY <1>1, <1>2, <1>3, <1>4, <1>5 DEF StoreEnv

-----------------------------------------------------------------------------
LEMMA JobInitHolds == JobInit => JobInv
  <1> SUFFICES ASSUME JobInit PROVE JobInv
    OBVIOUS
  <1>1. Locals
    <2>1. job = NoJob /\ conns = 0 /\ evas = FALSE
      BY DEF JobInit
    <2>2. JobTypeOK
      <3>1. job \in Job \cup {NoJob} /\ conns \in 0 .. 1
        BY <2>1
      <3>2. evas \in BOOLEAN
        BY <2>1, Zenon
      <3> QED
        BY <3>1, <3>2 DEF JobTypeOK
    <2>3. ConnsBalanced
      BY <2>1 DEF ConnsBalanced
    <2>4. JobOwn /\ JobSize
      BY <2>1 DEF JobOwn, JobSize
    <2> QED
      BY <2>2, <2>3, <2>4 DEF Locals
  <1>2. /\ NewRow \in Row /\ NewRow.thumb = Null
        /\ NewRow.width = 0 /\ NewRow.height = 0
    BY DEF NewRow, Row, Dim
  <1>3. StoreTypeOK
    BY <1>2 DEF JobInit, StoreInit, StoreTypeOK, Content
  <1>4. OwnFiles /\ RowSizes
    BY <1>2, HashNames
    DEF JobInit, StoreInit, OwnFiles, RowSizes, Listed
  <1> QED
    BY <1>1, <1>3, <1>4 DEF JobInv, Stores

LEMMA JobNextKeeps == JobInv /\ [JobNext]_jobSpecVars => JobInv'
  <1> SUFFICES ASSUME Stores, Locals, [JobNext]_jobSpecVars
               PROVE  Stores' /\ Locals'
    BY DEF JobInv
  <1>1. CASE BeginAny
    BY <1>1, BeginKeeps
  <1>2. CASE JobStep
    BY <1>2, JobStepKeeps
  <1>3. CASE EndRequested
    BY <1>3, EndRequestedKeeps
  <1>4. CASE StartJobs
    BY <1>4, StartJobsKeeps
  <1>5. CASE Stop
    BY <1>5, StopKeeps
  <1>6. CASE Crash
    BY <1>6, CrashKeeps
  <1>7. CASE PowerCut
    BY <1>7, PowerCutKeeps
  <1>8. CASE StoreEnv /\ UNCHANGED jobVars
    BY <1>8, StoreEnvStores, LocalsUnchanged
  <1>9. CASE UNCHANGED jobSpecVars
    BY <1>9, StoresUnchanged, LocalsUnchanged DEF jobSpecVars
  <1> QED
    BY <1>1, <1>2, <1>3, <1>4, <1>5, <1>6, <1>7, <1>8, <1>9 DEF JobNext

\* JobInv is an invariant: it holds initially and every step keeps it.
THEOREM JobInvariant == JobSpec => []JobInv
  BY JobInitHolds, JobNextKeeps, PTL DEF JobSpec

\* The rows, files and locals always have their types; in particular the
\* server never has two connections to the database open.
THEOREM JobTyped == JobSpec => []TypeOK
  <1>1. JobInv => TypeOK
    BY DEF JobInv, Stores, Locals, TypeOK
  <1> QED
    BY <1>1, JobInvariant, PTL

\* Whatever fails, a job closes the connection it opened exactly once.
THEOREM JobConnsBalanced == JobSpec => []ConnsBalanced
  <1>1. JobInv => ConnsBalanced
    BY DEF JobInv, Locals
  <1> QED
    BY <1>1, JobInvariant, PTL

\* No original's hash path ever holds a picture of another, and no row ever
\* names another original's file.
THEOREM JobOwnFiles == JobSpec => []OwnFiles
  <1>1. JobInv => OwnFiles
    BY DEF JobInv, Stores
  <1> QED
    BY <1>1, JobInvariant, PTL

\* The size a hit answers wrongly never reaches the database: a row has no
\* size, or that of its original as its file or as Evas has it.
THEOREM JobSizeOfOriginal == JobSpec => []SizeOfOriginal
  <1>1. JobInv => SizeOfOriginal
    BY DEF JobInv, Stores, RowSizes, Sides, SizeOfOriginal
  <1> QED
    BY <1>1, JobInvariant, PTL

-----------------------------------------------------------------------------
(***************************************************************************)
(* How far pictures are turned.  A job that saves at its original's hash   *)
(* path has removed what was there, so that it turns the raw picture; one  *)
(* that saves elsewhere may find an upright one there.                     *)
(***************************************************************************)
RawPicture(m) == [of |-> m, turns |-> 0]

Turnings(p, m) == IF p \in HashPaths THEN {0, Orient[m]}
                                     ELSE {Orient[m], (2 * Orient[m]) % 4}

TurnedWork ==
    job # NoJob =>
       /\ job.pc \in {"exif", "rotate"} /\ job.dst = hash_name(job.m) =>
             files[job.dst] \in {NoFile, Torn, RawPicture(job.m)}
       /\ job.pc = "save" /\ job.data \in Picture =>
             job.data.turns \in Turnings(job.dst, job.m)

TurnedInv == PicturesTurned /\ TurnedWork

\* A step after which the job holds no picture it has not saved.
HoldsNone ==
    job' = NoJob \/ job'.pc \notin {"exif", "rotate", "save"}

\* What PicturesTurned says of one file.
FileTurned(p, content) ==
    content \in Picture => content.turns \in Turnings(p, content.of)

LEMMA TurnedFiles ==
  PicturesTurned <=> \A p \in Paths : FileTurned(p, files[p])
  BY DEF PicturesTurned, FileTurned, Turnings

LEMMA NoPictures ==
  /\ ~(NoFile \in Picture) /\ ~(Torn \in Picture) /\ ~(Blank \in Picture)
  /\ ~(Icon \in Picture)
  BY StoreAssumption DEF Content

\* One file is written.
LEMMA WriteKeepsTurned ==
  ASSUME Stores, PicturesTurned, NEW q, NEW content, FileTurned(q, content),
         files' = [files EXCEPT ![q] = content]
  PROVE  PicturesTurned'
  <1>1. ASSUME NEW p \in Paths
        PROVE  FileTurned(p, files'[p])
    <2>1. files'[p] = IF p = q THEN content ELSE files[p]
      BY DEF Stores, StoreTypeOK
    <2> QED
      BY <1>1, <2>1, TurnedFiles
  <1> QED
    BY <1>1 DEF PicturesTurned, FileTurned, Turnings

\* Some files are damaged.
LEMMA TornKeepsTurned ==
  ASSUME PicturesTurned, \A p \in Paths : files'[p] \in {files[p], Torn}
  PROVE  PicturesTurned'
  <1>1. ASSUME NEW p \in Paths
        PROVE  FileTurned(p, files'[p])
    BY <1>1, TurnedFiles, NoPictures DEF FileTurned
  <1> QED
    BY <1>1 DEF PicturesTurned, FileTurned, Turnings

\* A job that moves on without touching a file.
LEMMA QuietKeepsTurned ==
  ASSUME TurnedInv, HoldsNone, UNCHANGED files
  PROVE  TurnedInv'
  BY DEF TurnedInv, PicturesTurned, TurnedWork, HoldsNone

LEMMA RemoveKeepsTurned ==
  ASSUME JobInv, TurnedInv, Remove
  PROVE  TurnedInv'
  <1>1. job \in Job /\ job # NoJob /\ job.pc = "remove"
    BY Running DEF JobInv, Remove
  <1>2. PICK to \in {"exif", "decode"} : job' = [job EXCEPT !.pc = to]
    BY DEF Remove
  <1>3. /\ job'.pc \in {"exif", "decode"} /\ job'.dst = job.dst
        /\ job'.m = job.m
    BY <1>1, <1>2 DEF Job
  <1>4. job.m \in Media /\ files \in [Paths -> Content \cup {NoFile}]
    BY <1>1 DEF Job, JobInv, Stores, StoreTypeOK
  <1>5. job.dst = hash_name(job.m) => files'[job.dst] = NoFile
    BY <1>4, HashNames DEF Remove, RemoveFile
  <1>6. PicturesTurned'
    BY WriteKeepsTurned, NoPictures
    DEF Remove, RemoveFile, FileTurned, TurnedInv, JobInv
  <1> QED
    BY <1>3, <1>5, <1>6 DEF TurnedInv, TurnedWork

LEMMA ExifKeepsTurned ==
  ASSUME JobInv, TurnedInv, Exif
  PROVE  TurnedInv'
  <1>1. job \in Job /\ job # NoJob /\ job.pc = "exif" /\ job.m \in Media
    BY Running DEF JobInv, Exif, Job
  <1> DEFINE path == hash_name(job.m)
  <1>2. path \in Paths /\ path \in HashPaths
    BY <1>1, HashNames DEF HashPaths
  <1>3. PICK to \in {"rotate", "decode"},
             content \in {files[path], RawPicture(job.m), NoFile, Torn} :
           /\ files' = [files EXCEPT ![path] = content]
           /\ job' = [job EXCEPT !.pc = to]
    BY DEF Exif, ExifPath, RawPicture
  <1>4. job'.pc = to /\ job'.dst = job.dst /\ job'.m = job.m
    BY <1>1, <1>3 DEF Job
  <1>5. FileTurned(path, content)
    <2>1. CASE content = files[path]
      BY <1>2, <2>1, TurnedFiles DEF TurnedInv
    <2>2. CASE content = RawPicture(job.m)
      BY <1>2, <2>2 DEF FileTurned, RawPicture, Turnings
    <2>3. CASE content \in {NoFile, Torn}
      BY <2>3, NoPictures DEF FileTurned
    <2> QED
      BY <1>3, <2>1, <2>2, <2>3
  <1>6. PicturesTurned'
    BY <1>3, <1>5, WriteKeepsTurned DEF TurnedInv, JobInv
  <1>7. files'[path] = content
    BY <1>2, <1>3 DEF JobInv, Stores, StoreTypeOK
  <1>8. job.dst = path =>
           content \in {NoFile, Torn, RawPicture(job.m)}
    BY <1>1, <1>3 DEF TurnedInv, TurnedWork
  <1> QED
    BY <1>3, <1>4, <1>6, <1>7, <1>8 DEF TurnedInv, TurnedWork

\* The pixels are there, turned as they may be where they will be saved.
LEMMA GeneratedKeepsTurned ==
  ASSUME TurnedInv, job \in Job, job # NoJob, UNCHANGED files,
         NEW picture, NEW size, Generated(picture, size),
         picture \in Picture => picture.turns \in Turnings(job.dst, job.m)
  PROVE  TurnedInv'
  <1>1. /\ job'.pc = "save" /\ job'.dst = job.dst /\ job'.m = job.m
        /\ job'.data = picture
    BY DEF Generated, Job
  <1> QED
    BY <1>1 DEF TurnedInv, PicturesTurned, TurnedWork

LEMMA RotateKeepsTurned ==
  ASSUME JobInv, TurnedInv, Rotate
  PROVE  TurnedInv'
  <1>1. /\ job \in Job /\ job # NoJob /\ job.pc = "rotate"
        /\ job.m \in Media /\ UNCHANGED files
    BY Running DEF JobInv, Rotate, Job, storeVars
  <1> DEFINE path == hash_name(job.m)
             found == files[ExifPath(job.m)]
             o == Orient[job.m]
             turned == [found EXCEPT !.turns = (@ + o) % 4]
  <1>2. CASE found \in Picture /\ Generated(turned, FileSize(job.m))
    <2>1. path \in Paths /\ path \in HashPaths /\ o \in 0 .. 3
      BY <1>1, HashNames, StoreAssumption DEF HashPaths, Turns
    <2>2. found \in OwnPictures(job.m)
      BY <1>1, <1>2, NoPictures
      DEF JobInv, Stores, OwnFiles, OwnPictures, ExifPath
    <2>3. PICK t \in 0 .. 3 : found = [of |-> job.m, turns |-> t]
      BY <2>2 DEF OwnPictures, Turns
    <2>4. t \in {0, o}
      <3>1. FileTurned(path, found)
        BY <2>1, TurnedFiles DEF TurnedInv, ExifPath
      <3>2. found.turns \in Turnings(path, found.of)
        BY <1>2, <3>1 DEF FileTurned
      <3>3. found.turns = t /\ found.of = job.m
        BY <2>3
      <3> QED
        BY <2>1, <3>2, <3>3 DEF Turnings
    <2>5. turned.turns = (t + o) % 4
      BY <2>3
    <2>6. (0 + o) % 4 = o /\ (o + o) % 4 = (2 * o) % 4
      BY <2>1
    <2>7. CASE job.dst \in HashPaths
      <3>1. job.dst = path
        BY <1>1, <2>7, OwnTarget
        DEF JobInv, Generating, HashPaths
      <3>2. t = 0
        BY <1>1, <1>2, <2>3, <3>1, NoPictures
        DEF TurnedInv, TurnedWork, ExifPath, RawPicture
      <3>3. turned.turns \in Turnings(job.dst, job.m)
        BY <2>5, <2>6, <2>7, <3>2 DEF Turnings
      <3> QED
        BY <1>1, <1>2, <3>3, GeneratedKeepsTurned
    <2>8. CASE job.dst \notin HashPaths
      <3>1. turned.turns \in Turnings(job.dst, job.m)
        BY <2>4, <2>5, <2>6, <2>8 DEF Turnings
      <3> QED
        BY <1>1, <1>2, <3>1, GeneratedKeepsTurned
    <2> QED
      BY <2>7, <2>8
  <1>3. CASE job' = [job EXCEPT !.pc = "decode"]
    <2>1. job'.pc = "decode"
      BY <1>1, <1>3 DEF Job
    <2> QED
      BY <1>1, <2>1, QuietKeepsTurned DEF HoldsNone
  <1>4. CASE Return("generate", DefaultPath)
    <2>1. job'.pc = "answer"
      BY <1>1, <1>4 DEF Return, Job
    <2> QED
      BY <1>1, <2>1, QuietKeepsTurned DEF HoldsNone
  <1> QED
    BY <1>2, <1>3, <1>4 DEF Rotate

LEMMA DecodeKeepsTurned ==
  ASSUME JobInv, TurnedInv, Decode
  PROVE  TurnedInv'
  <1>1. /\ job \in Job /\ job # NoJob /\ job.pc = "decode"
        /\ job.m \in Media /\ UNCHANGED files
    BY Running DEF JobInv, Decode, Job, storeVars
  <1>2. ASSUME NEW size, NEW picture \in {Upright(job.m), Blank},
               Generated(picture, size)
        PROVE  TurnedInv'
    <2>1. picture \in Picture => picture = Upright(job.m)
      BY NoPictures
    <2>2. Upright(job.m).turns \in Turnings(job.dst, job.m)
      BY DEF Upright, Turnings
    <2> QED
      BY <1>1, <1>2, <2>1, <2>2, GeneratedKeepsTurned
  <1>3. CASE Return("generate", DefaultPath)
    <2>1. job'.pc = "answer"
      BY <1>1, <1>3 DEF Return, Job
    <2> QED
      BY <1>1, <2>1, QuietKeepsTurned DEF HoldsNone
  <1> QED
    BY <1>2, <1>3 DEF Decode

LEMMA SaveKeepsTurned ==
  ASSUME JobInv, TurnedInv, Save
  PROVE  TurnedInv'
  <1>1. /\ job \in Job /\ job # NoJob /\ job.pc = "save"
        /\ job.m \in Media
        /\ job.data \in {Blank} \cup OwnPictures(job.m)
    BY Running DEF Save, Job, JobInv, Locals, JobOwn
  <1>2. HoldsNone
    BY <1>1 DEF Save, Return, HoldsNone, Job
  <1>3. FileTurned(job.dst, job.data) /\ FileTurned(job.dst, Torn)
    <2>1. job.data \in Picture => job.data.of = job.m
      BY <1>1, NoPictures DEF OwnPictures
    <2> QED
      BY <1>1, <2>1, NoPictures DEF FileTurned, TurnedInv, TurnedWork
  <1>4. CASE files' = files
    BY <1>2, <1>4, QuietKeepsTurned
  <1>5. CASE \E content \in {job.data, Torn} :
                files' = [files EXCEPT ![job.dst] = content]
    <2>1. PicturesTurned'
      BY <1>3, <1>5, WriteKeepsTurned DEF TurnedInv, JobInv
    <2> QED
      BY <1>2, <2>1 DEF TurnedInv, TurnedWork, HoldsNone
  <1> QED
    BY <1>4, <1>5 DEF Save

\* The steps of a job that leave the files alone and hold no picture.
LEMMA StepHoldsNone ==
  ASSUME JobInv,
         \/ Connect \/ Lookup \/ Stat \/ GetSize \/ Fsync \/ GetType
         \/ StorePath \/ StoreSize \/ EndQueued \/ Reconnect
  PROVE  HoldsNone /\ UNCHANGED files
  <1>1. ASSUME NEW label, At(label)
        PROVE  job \in Job /\ job # NoJob
    BY <1>1, Running DEF JobInv
  <1>2. CASE Connect
    BY <1>1, <1>2 DEF Connect, HoldsNone, Job, storeVars
  <1>3. CASE Lookup
    BY <1>1, <1>3 DEF Lookup, LookupTo, HoldsNone, Job, storeVars
  <1>4. CASE Stat
    BY <1>1, <1>4 DEF Stat, HoldsNone, Job, storeVars
  <1>5. CASE GetSize
    BY <1>1, <1>5 DEF GetSize, HoldsNone, Job, storeVars
  <1>6. CASE Fsync
    BY <1>1, <1>6 DEF Fsync, Return, HoldsNone, Job
  <1>7. CASE GetType
    BY <1>1, <1>7 DEF GetType, LeaveUpdate, HoldsNone, Job, storeVars
  <1>8. CASE StorePath
    BY <1>1, <1>8 DEF StorePath, LeaveUpdate, HoldsNone, Job
  <1>9. CASE StoreSize
    BY <1>1, <1>9 DEF StoreSize, LeaveUpdate, HoldsNone, Job
  <1>10. CASE EndQueued
    BY <1>1, <1>10 DEF EndQueued, HoldsNone, Job, storeVars
  <1>11. CASE Reconnect
    BY <1>1, <1>11 DEF Reconnect, HoldsNone, Job, storeVars
  <1> QED
    BY <1>2, <1>3, <1>4, <1>5, <1>6, <1>7, <1>8, <1>9, <1>10, <1>11

LEMMA DeathKeepsTurned ==
  ASSUME JobInv, TurnedInv, Crash \/ PowerCut
  PROVE  TurnedInv'
  <1>1. files \in [Paths -> Content \cup {NoFile}]
    BY DEF JobInv, Stores, StoreTypeOK
  <1>2. job' = NoJob
    BY DEF Crash, PowerCut, JobDies
  <1>3. CASE Crash
    <2>1. \A p \in Paths : files'[p] \in {files[p], Torn}
      BY <1>1, <1>3, HalfWrittenTorn DEF Crash
    <2> QED
      BY <1>2, <2>1, TornKeepsTurned DEF TurnedInv, TurnedWork
  <1>4. CASE PowerCut
    <2>1. /\ AfterPowerCut \in [Paths -> Content \cup {NoFile}]
          /\ \A p \in Paths : AfterPowerCut[p] \in {files[p], Torn}
      BY <1>1 DEF AfterPowerCut, Content
    <2>2. \A p \in Paths : files'[p] \in {files[p], Torn}
      BY <1>4, <2>1, HalfWrittenTorn DEF PowerCut
    <2> QED
      BY <1>2, <2>2, TornKeepsTurned DEF TurnedInv, TurnedWork
  <1> QED
    BY <1>3, <1>4

LEMMA EnvKeepsTurned ==
  ASSUME JobInv, TurnedInv, StoreEnv, UNCHANGED jobVars
  PROVE  TurnedInv'
  <1>1. UNCHANGED job
    BY DEF jobVars
  <1>2. ASSUME NEW p \in Paths, ThumbDeleted(p)
        PROVE  TurnedInv'
    <2>1. files' = [files EXCEPT ![p] = NoFile]
      BY <1>2 DEF ThumbDeleted
    <2>2. PicturesTurned'
      BY <2>1, WriteKeepsTurned, NoPictures
      DEF FileTurned, TurnedInv, JobInv
    <2>3. job # NoJob => job.m \in Media
      BY DEF JobInv, Locals, JobTypeOK, Job
    <2>4. \A m \in Media : files'[hash_name(m)] \in
                              {files[hash_name(m)], NoFile}
      BY <2>1, HashNames DEF JobInv, Stores, StoreTypeOK
    <2> QED
      BY <1>1, <2>2, <2>3, <2>4 DEF TurnedInv, TurnedWork
  <1>3. CASE UNCHANGED files
    BY <1>1, <1>3 DEF TurnedInv, PicturesTurned, TurnedWork
  <1> QED
    BY <1>2, <1>3 DEF StoreEnv, MediaAdded, MediaRemoved, Mounted, WriteBack

LEMMA TurnedNext == JobInv /\ TurnedInv /\ [JobNext]_jobSpecVars => TurnedInv'
  <1> SUFFICES ASSUME JobInv, TurnedInv, [JobNext]_jobSpecVars
               PROVE  TurnedInv'
    OBVIOUS
  <1>1. CASE BeginAny
    <2>1. job'.pc = "connect" /\ UNCHANGED files
      BY <1>1
      DEF BeginAny, Begin, QueuedJob, RequestedJobs, NewJob, storeVars
    <2> QED
      BY <2>1, QuietKeepsTurned DEF HoldsNone
  <1>2. CASE JobStep
    BY <1>2, StepHoldsNone, QuietKeepsTurned, RemoveKeepsTurned,
       ExifKeepsTurned, RotateKeepsTurned, DecodeKeepsTurned, SaveKeepsTurned
    DEF JobStep
  <1>3. CASE EndRequested \/ Stop
    BY <1>3, QuietKeepsTurned
    DEF EndRequested, Stop, JobDies, HoldsNone, storeVars
  <1>4. CASE Crash \/ PowerCut
    BY <1>4, DeathKeepsTurned
  <1>5. CASE StoreEnv /\ UNCHANGED jobVars
    BY <1>5, EnvKeepsTurned
  <1>6. CASE UNCHANGED <<files, job>>
    BY <1>6 DEF TurnedInv, PicturesTurned, TurnedWork
  <1> QED
    BY <1>1, <1>2, <1>3, <1>4, <1>5, <1>6
    DEF JobNext, StartJobs, jobSpecVars, storeVars, jobVars

LEMMA TurnedInitHolds == JobInit => TurnedInv
  <1> SUFFICES ASSUME JobInit PROVE TurnedInv
    OBVIOUS
  <1>1. \A p \in Paths : FileTurned(p, files[p])
    BY NoPictures DEF JobInit, StoreInit, FileTurned
  <1> QED
    BY <1>1, TurnedFiles DEF TurnedInv, TurnedWork, JobInit

\* Whatever jobs run, fail or die and whatever thumbnails are deleted in
\* between, a picture at a hash path is raw or upright, and one anywhere
\* else is upright or turned once too often, never raw.
THEOREM JobPicturesTurned == JobSpec => []PicturesTurned
  <1>1. TurnedInv => PicturesTurned
    BY DEF TurnedInv
  <1> QED
    BY <1>1, JobInvariant, TurnedInitHolds, TurnedNext, PTL DEF JobSpec

-----------------------------------------------------------------------------
(***************************************************************************)
(* A job works on the default thumbnail's path only when its row names     *)
(* that path, and then generates there only after it found no file.        *)
(***************************************************************************)
JobSparesIcon ==
    job # NoJob /\ job.pc \in Generating /\ job.dst = DefaultPath =>
       files[DefaultPath] # Icon

\* Nobody writes the icon, so that it is never lost to a power cut.
IconClean == files[DefaultPath] = Icon => DefaultPath \notin dirty

IconInv == JobSparesIcon /\ IconClean

IconStep ==
    files[DefaultPath] = Icon =>
       files'[DefaultPath] = Icon \/ ThumbDeleted(DefaultPath)

\* A step after which the job is not at work on the default thumbnail's
\* path, unless it was before.
JobAway ==
    \/ job' = NoJob
    \/ job'.pc \notin Generating
    \/ job'.dst # DefaultPath
    \/ job # NoJob /\ job.pc \in Generating /\ job'.dst = job.dst

-----------------------------------------------------------------------------
LEMMA IconFacts ==
  /\ DefaultPath \in Paths /\ EmptyPath # DefaultPath
  /\ DefaultPath \notin SavePaths
  /\ Icon \notin {NoFile, Torn, Blank} \cup Picture
  BY StoreAssumption DEF Paths, Content

LEMMA QuietSparesIcon ==
  ASSUME IconInv, JobAway, UNCHANGED files, dirty' \in SUBSET dirty
  PROVE  IconInv' /\ IconStep
  BY DEF IconInv, JobSparesIcon, IconClean, IconStep, JobAway

\* A job that writes a file, of which it has something else than the icon.
LEMMA WriteSparesIcon ==
  ASSUME Stores, IconInv, JobAway, NEW p, NEW content,
         files' = [files EXCEPT ![p] = content],
         p = DefaultPath => files[p] # Icon /\ content # Icon,
         dirty' \in SUBSET (dirty \cup {p})
  PROVE  IconInv' /\ IconStep
  <1>1. files'[DefaultPath] = IF p = DefaultPath THEN content
                                                 ELSE files[DefaultPath]
    BY IconFacts DEF Stores, StoreTypeOK
  <1> QED
    BY <1>1 DEF IconInv, JobSparesIcon, IconClean, IconStep, JobAway

LEMMA DeathSparesIcon ==
  ASSUME IconClean, job' = NoJob, files'[DefaultPath] = files[DefaultPath],
         dirty' \in SUBSET dirty
  PROVE  IconInv' /\ IconStep
  BY DEF IconInv, JobSparesIcon, IconClean, IconStep

\* Dying leaves the icon: the job is not writing it.
LEMMA HalfWrittenSparesIcon ==
  ASSUME JobInv, JobSparesIcon, files[DefaultPath] = Icon,
         NEW fs \in [Paths -> Content \cup {NoFile}],
         NEW left \in HalfWritten(fs)
  PROVE  left[DefaultPath] = fs[DefaultPath]
  <1>1. CASE left = fs
    BY <1>1
  <1>2. CASE At("save") /\ left = [fs EXCEPT ![job.dst] = Torn]
    <2>1. job.dst # DefaultPath
      BY <1>2 DEF At, JobSparesIcon, Generating
    <2> QED
      BY <1>2, <2>1
  <1>3. CASE At("exif") /\ left = [fs EXCEPT ![ExifPath(job.m)] = Torn]
    <2>1. job.m \in Media
      BY <1>3, Running DEF JobInv, Job
    <2>2. ExifPath(job.m) # DefaultPath
      BY <2>1, HashNames DEF ExifPath
    <2> QED
      BY <1>3, <2>2
  <1> QED
    BY <1>1, <1>2, <1>3 DEF HalfWritten

LEMMA CrashSparesIcon ==
  ASSUME JobInv, IconInv, Crash
  PROVE  IconInv' /\ IconStep
  <1>1. files \in [Paths -> Content \cup {NoFile}]
    BY DEF JobInv, Stores, StoreTypeOK
  <1>2. files' \in HalfWritten(files) /\ dirty' = dirty /\ job' = NoJob
    BY DEF Crash, JobDies
  <1>3. files[DefaultPath] = Icon => files'[DefaultPath] = Icon
    BY <1>1, <1>2, HalfWrittenSparesIcon DEF IconInv
  <1>4. files[DefaultPath] # Icon => files'[DefaultPath] # Icon
    BY <1>1, <1>2, HalfWrittenTorn, IconFacts
  <1> QED
    BY <1>2, <1>3, <1>4 DEF IconInv, IconClean, JobSparesIcon, IconStep

LEMMA PowerCutSparesIcon ==
  ASSUME JobInv, IconInv, PowerCut
  PROVE  IconInv' /\ IconStep
  <1>1. AfterPowerCut \in [Paths -> Content \cup {NoFile}]
    BY DEF JobInv, Stores, StoreTypeOK, AfterPowerCut, Content
  <1>2. /\ files' \in HalfWritten(AfterPowerCut)
        /\ dirty' = {} /\ job' = NoJob
    BY DEF PowerCut, JobDies
  <1>3. files[DefaultPath] = Icon => AfterPowerCut[DefaultPath] = Icon
    BY IconFacts DEF IconInv, IconClean, AfterPowerCut
  <1>4. files[DefaultPath] = Icon => files'[DefaultPath] = Icon
    BY <1>1, <1>2, <1>3, HalfWrittenSparesIcon DEF IconInv
  <1> QED
    BY <1>2, <1>4 DEF IconInv, IconClean, JobSparesIcon, IconStep

-----------------------------------------------------------------------------
\* The steps of a job that write a file.
LEMMA RemoveSparesIcon ==
  ASSUME JobInv, IconInv, Remove
  PROVE  IconInv' /\ IconStep
  <1>1. job \in Job /\ job # NoJob /\ job.pc = "remove"
    BY Running DEF JobInv, Remove
  <1>2. PICK to \in {"exif", "decode"} : job' = [job EXCEPT !.pc = to]
    BY DEF Remove
  <1>3. JobAway
    BY <1>1, <1>2 DEF JobAway, Job, Generating
  <1>4. job.dst = DefaultPath => files[job.dst] # Icon
    BY <1>1 DEF IconInv, JobSparesIcon, Generating
  <1> QED
    BY <1>3, <1>4, WriteSparesIcon, IconFacts DEF JobInv, Remove, RemoveFile

LEMMA ExifSparesIcon ==
  ASSUME JobInv, IconInv, Exif
  PROVE  IconInv' /\ IconStep
  <1>1. job \in Job /\ job # NoJob /\ job.pc = "exif" /\ job.m \in Media
    BY Running DEF JobInv, Exif, Job
  <1>2. PICK to \in {"rotate", "decode"} : job' = [job EXCEPT !.pc = to]
    BY DEF Exif
  <1>3. JobAway
    BY <1>1, <1>2 DEF JobAway, Job, Generating
  <1>4. ExifPath(job.m) # DefaultPath
    BY <1>1, HashNames DEF ExifPath
  <1>5. \E content : files' = [files EXCEPT ![ExifPath(job.m)] = content]
    BY DEF Exif
  <1> QED
    BY <1>3, <1>4, <1>5, WriteSparesIcon DEF JobInv, Exif

LEMMA SaveSparesIcon ==
  ASSUME JobInv, IconInv, Save
  PROVE  IconInv' /\ IconStep
  <1>1. /\ job \in Job /\ job # NoJob /\ job.pc = "save"
        /\ job.m \in Media
        /\ job.data \in {Blank} \cup OwnPictures(job.m)
    BY Running DEF Save, Job, JobInv, Locals, JobOwn
  <1>2. job.data # Icon /\ Torn # Icon
    BY <1>1, IconFacts DEF OwnPictures, Picture
  <1>3. job.dst = DefaultPath => files[job.dst] # Icon
    BY <1>1 DEF IconInv, JobSparesIcon, Generating
  <1>4. JobAway
    BY <1>1 DEF Save, Return, JobAway, Job, Generating
  <1>5. dirty' \in SUBSET (dirty \cup {job.dst})
    BY DEF Save
  <1>6. CASE files' = files /\ dirty' = dirty
    BY <1>4, <1>6, QuietSparesIcon
  <1>7. CASE \E content \in {job.data, Torn} :
                files' = [files EXCEPT ![job.dst] = content]
    BY <1>2, <1>3, <1>4, <1>5, <1>7, WriteSparesIcon DEF JobInv
  <1> QED
    BY <1>6, <1>7 DEF Save

\* Those that only move on: but for Stat, none starts to generate at the
\* default thumbnail's path.
LEMMA StatSparesIcon ==
  ASSUME JobInv, IconInv, Stat
  PROVE  IconInv' /\ IconStep
  <1>1. job \in Job /\ job # NoJob /\ job.pc = "stat"
    BY Running DEF JobInv, Stat
  <1>2. CASE Present(job.dst)
    <2>1. JobAway
      BY <1>1, <1>2 DEF Stat, JobAway, Job, Generating
    <2> QED
      BY <2>1, QuietSparesIcon DEF Stat, storeVars
  <1>3. CASE ~Present(job.dst)
    <2>1. job'.dst = job.dst
      BY <1>1, <1>3 DEF Stat, Job
    <2>2. files[job.dst] # Icon
      BY <1>3, IconFacts DEF Present
    <2> QED
      BY <2>1, <2>2
      DEF Stat, storeVars, IconInv, JobSparesIcon, IconClean, IconStep
  <1> QED
    BY <1>2, <1>3

LEMMA StepAway ==
  ASSUME JobInv,
         \/ Connect \/ Lookup \/ GetSize \/ Rotate \/ Decode \/ Fsync
         \/ GetType \/ StorePath \/ StoreSize \/ EndQueued \/ Reconnect
  PROVE  JobAway /\ UNCHANGED files /\ dirty' \in SUBSET dirty
  <1>1. ASSUME NEW label, At(label)
        PROVE  job \in Job /\ job # NoJob /\ job.pc = label
    BY <1>1, Running DEF JobInv
  <1>2. CASE Connect
    <2>1. job.type \in {DB_INSERT, SAVE_FILE} /\ job \in Job
      BY <1>1, <1>2 DEF Connect, Job
    <2>2. job.type = SAVE_FILE => job.target # DefaultPath
      BY <1>1, <1>2, IconFacts
      DEF Connect, JobInv, Locals, JobOwn, DB_INSERT, SAVE_FILE
    <2> QED
      BY <1>2, <2>1, <2>2
      DEF Connect, JobAway, Job, Generating, storeVars
  <1>3. CASE Lookup
    <2>1. job \in Job /\ job.m \in Media
      BY <1>1, <1>3 DEF Lookup, Job
    <2>2. hash_name(job.m) # DefaultPath
      BY <2>1, HashNames
    <2>3. UNCHANGED <<files, dirty>>
      BY <1>3 DEF Lookup, storeVars
    <2>4. ASSUME NEW path, NEW need, LookupTo("stat", path, need)
          PROVE  job'.pc = "stat"
      BY <2>1, <2>4 DEF LookupTo, Job
    <2>5. ASSUME NEW need, LookupTo("remove", hash_name(job.m), need)
          PROVE  job'.dst = hash_name(job.m)
      BY <2>1, <2>5 DEF LookupTo, Job
    <2>6. job'.pc = "stat" \/ job'.dst = hash_name(job.m)
      BY <1>3, <2>4, <2>5 DEF Lookup
    <2> QED
      BY <2>2, <2>3, <2>6 DEF JobAway, Generating
  <1>4. CASE GetSize
    BY <1>1, <1>4 DEF GetSize, JobAway, Job, Generating, storeVars
  <1>5. CASE Rotate
    <2>1. job \in Job /\ job # NoJob /\ job.pc = "rotate"
      BY <1>1, <1>5 DEF Rotate
    <2>2. UNCHANGED <<files, dirty>>
      BY <1>5 DEF Rotate, storeVars
    <2>3. CASE job' = [job EXCEPT !.pc = "decode"]
      BY <2>1, <2>2, <2>3 DEF JobAway, Job, Generating
    <2>4. CASE Return("generate", DefaultPath)
      BY <2>1, <2>2, <2>4 DEF Return, JobAway, Job, Generating
    <2>5. ASSUME NEW picture, NEW size, Generated(picture, size)
          PROVE  job'.dst = job.dst
      BY <2>1, <2>5 DEF Generated, Job
    <2>6. CASE job'.dst = job.dst
      BY <2>1, <2>2, <2>6 DEF JobAway, Generating
    <2> QED
      BY <1>5, <2>3, <2>4, <2>5, <2>6 DEF Rotate
  <1>6. CASE Decode
    BY <1>1, <1>6
    DEF Decode, Generated, Return, JobAway, Job, Generating, storeVars
  <1>7. CASE Fsync
    BY <1>1, <1>7 DEF Fsync, Synced, Return, JobAway, Job, Generating
  <1>8. CASE GetType
    BY <1>1, <1>8
    DEF GetType, LeaveUpdate, JobAway, Job, Generating, storeVars
  <1>9. CASE StorePath
    BY <1>1, <1>9 DEF StorePath, LeaveUpdate, JobAway, Job, Generating
  <1>10. CASE StoreSize
    BY <1>1, <1>10 DEF StoreSize, LeaveUpdate, JobAway, Job, Generating
  <1>11. CASE EndQueued
    BY <1>1, <1>11 DEF EndQueued, JobAway, Job, Generating, storeVars
  <1>12. CASE Reconnect
    BY <1>1, <1>12 DEF Reconnect, JobAway, Job, Generating, storeVars
  <1> QED
    BY <1>2, <1>3, <1>4, <1>5, <1>6, <1>7, <1>8, <1>9, <1>10, <1>11, <1>12

LEMMA BeginAway ==
  ASSUME BeginAny
  PROVE  JobAway
  <1>1. job'.pc = "connect"
    BY DEF BeginAny, Begin, QueuedJob, RequestedJobs, NewJob
  <1> QED
    BY <1>1 DEF JobAway, Generating

LEMMA EnvSparesIcon ==
  ASSUME JobInv, IconInv, StoreEnv, UNCHANGED jobVars
  PROVE  IconInv' /\ IconStep
  <1>1. UNCHANGED job
    BY DEF jobVars
  <1>2. ASSUME NEW p \in Paths, ThumbDeleted(p)
        PROVE  IconInv' /\ IconStep
    <2>1. files'[DefaultPath] = IF p = DefaultPath THEN NoFile
                                                   ELSE files[DefaultPath]
      BY <1>2, IconFacts DEF ThumbDeleted, JobInv, Stores, StoreTypeOK
    <2>2. IconStep
      BY <1>2, <2>1 DEF IconStep
    <2> QED
      BY <1>1, <1>2, <2>1, <2>2, IconFacts
      DEF ThumbDeleted, IconInv, JobSparesIcon, IconClean
  <1>3. CASE UNCHANGED files /\ dirty' \in SUBSET dirty
    BY <1>1, <1>3 DEF IconInv, JobSparesIcon, IconClean, IconStep
  <1> QED
    BY <1>2, <1>3
    DEF StoreEnv, MediaAdded, MediaRemoved, Mounted, WriteBack

LEMMA IconNext ==
  JobInv /\ IconInv /\ [JobNext]_jobSpecVars =>
     IconInv' /\ [IconStep]_jobSpecVars
  <1> SUFFICES ASSUME JobInv, IconInv, [JobNext]_jobSpecVars
               PROVE  IconInv' /\ IconStep
    OBVIOUS
  <1>1. CASE BeginAny
    BY <1>1, BeginAway, QuietSparesIcon DEF BeginAny, Begin, storeVars
  <1>2. CASE JobStep
    BY <1>2, StepAway, QuietSparesIcon, StatSparesIcon, RemoveSparesIcon,
       ExifSparesIcon, SaveSparesIcon
    DEF JobStep
  <1>3. CASE EndRequested \/ Stop
    BY <1>3, QuietSparesIcon DEF EndRequested, Stop, JobDies, JobAway, storeVars
  <1>4. CASE StartJobs
    BY <1>4, QuietSparesIcon DEF StartJobs, JobAway, storeVars
  <1>5. CASE Crash
    BY <1>5, CrashSparesIcon
  <1>6. CASE PowerCut
    BY <1>6, PowerCutSparesIcon
  <1>7. CASE StoreEnv /\ UNCHANGED jobVars
    BY <1>7, EnvSparesIcon
  <1>8. CASE UNCHANGED jobSpecVars
    BY <1>8
    DEF jobSpecVars, storeVars, jobVars, IconInv, JobSparesIcon, IconClean,
        IconStep
  <1> QED
    BY <1>1, <1>2, <1>3, <1>4, <1>5, <1>6, <1>7, <1>8 DEF JobNext

LEMMA IconInitHolds == JobInit => IconInv
  BY DEF JobInit, StoreInit, IconInv, JobSparesIcon, IconClean

\* Whatever jobs run, fail or die, the default thumbnail is replaced or
\* removed by nobody but whoever deletes thumbnails.
THEOREM JobIconKept == JobSpec => IconKept
  <1>1. [IconStep]_jobSpecVars =>
           [files[DefaultPath] = Icon =>
               files'[DefaultPath] = Icon \/ ThumbDeleted(DefaultPath)
           ]_jobSpecVars
    BY DEF IconStep
  <1> QED
    BY <1>1, JobInvariant, IconInitHolds, IconNext, PTL DEF JobSpec, IconKept

-----------------------------------------------------------------------------
(***************************************************************************)
(* From where it found or saved its file until it answers without an       *)
(* error, the file a job names exists.  What the second update of a queued *)
(* path names was answered with an error too: nothing is known of it.      *)
(***************************************************************************)
Named(j) ==
    \/ j.pc \in {"get_size", "fsync"}
    \/ j.pc \in Updating /\ ~j.again
    \/ j.pc = "answer" /\ j.err = "none"

NamedExists == job # NoJob /\ Named(job) => files[job.dst] # NoFile

\* A step after which the job names nothing, or what it named before.
StillNamed ==
    \/ job' = NoJob
    \/ ~Named(job')
    \/ job # NoJob /\ Named(job) /\ job'.dst = job.dst

LEMMA QuietKeepsNamed ==
  ASSUME NamedExists, StillNamed, UNCHANGED files
  PROVE  NamedExists'
  BY DEF NamedExists, StillNamed

\* A job that returns has an error, or returns from its fsync.
LEMMA StepNamed ==
  ASSUME Locals, JobStep
  PROVE  Stat \/ Save \/ StillNamed
  <1>0. job # NoJob /\ job \in Job
    <2>1. job # NoJob
      BY DEF JobStep, Connect, Lookup, Stat, GetSize, Remove, Exif, Rotate,
         Decode, Save, Fsync, GetType, StorePath, StoreSize, EndQueued,
         Reconnect, At
    <2> QED
      BY <2>1 DEF Locals, JobTypeOK
  <1>1. CASE Connect \/ Lookup
    <2>1. job'.pc \in {"lookup", "remove", "stat"}
          \/ (job'.pc = "answer" /\ job'.err = "db")
      <3>1. CASE Connect
        BY <1>0, <3>1 DEF Connect, Job
      <3>2. CASE Lookup
        BY <1>0, <3>2 DEF Lookup, LookupTo, Job
      <3> QED
        BY <1>1, <3>1, <3>2
    <2> QED
      BY <2>1 DEF StillNamed, Named, Updating
  <1>2. CASE GetSize
    BY <1>0, <1>2 DEF GetSize, At, Job, StillNamed, Named, Updating
  <1>3. CASE Remove \/ Exif
    BY <1>0, <1>3 DEF Remove, Exif, Job, StillNamed, Named, Updating
  <1>4. CASE Rotate \/ Decode
    <2>1. job'.pc \in {"save", "decode"}
          \/ (job'.pc = "answer" /\ job'.err = "generate")
      <3>1. CASE Rotate
        BY <1>0, <3>1 DEF Rotate, Generated, Return, Job
      <3>2. CASE Decode
        BY <1>0, <3>2 DEF Decode, Generated, Return, Job
      <3> QED
        BY <1>4, <3>1, <3>2
    <2> QED
      BY <2>1 DEF StillNamed, Named, Updating
  <1>5. CASE Fsync
    BY <1>0, <1>5 DEF Fsync, Return, At, Job, StillNamed, Named, Updating
  <1>6. CASE GetType \/ StorePath \/ StoreSize
    BY <1>0, <1>6
    DEF GetType, StorePath, StoreSize, LeaveUpdate, At, Job, StillNamed,
        Named, Updating
  <1>7. CASE EndQueued \/ Reconnect
    <2>1. \/ job' = NoJob
          \/ job'.pc = "reconnect"
          \/ job'.pc = "get_type" /\ job'.again = TRUE
      <3>1. CASE EndQueued
        BY <1>0, <3>1 DEF EndQueued, Job
      <3>2. CASE Reconnect
        BY <1>0, <3>2 DEF Reconnect, Job
      <3> QED
        BY <1>7, <3>1, <3>2
    <2> QED
      BY <2>1 DEF StillNamed, Named, Updating
  <1> QED
    BY <1>1, <1>2, <1>3, <1>4, <1>5, <1>6, <1>7 DEF JobStep

\* The steps of a job that write files and go on name nothing but what they
\* have written.
LEMMA StepKeepsNamed ==
  ASSUME Stores, Locals, NamedExists, JobStep
  PROVE  NamedExists'
  <1>1. CASE Stat
    <2>1. job \in Job
      BY <1>1, Running DEF Stat
    <2> QED
      BY <1>1, <2>1
      DEF Stat, Present, Job, NamedExists, Named, Updating, storeVars
  <1>2. CASE Save
    <2>1. job \in Job /\ job # NoJob /\ job.pc = "save"
      BY <1>2, Running DEF Save
    <2>2. job.dst \in Paths /\ job.data # NoFile
      BY <2>1, StoreAssumption
      DEF Locals, JobOwn, Generating, Job
    <2>3. CASE /\ files' = [files EXCEPT ![job.dst] = job.data]
               /\ job' = [job EXCEPT !.pc = "fsync"]
      BY <2>1, <2>2, <2>3
      DEF Stores, StoreTypeOK, Job, NamedExists
    <2>4. CASE Return("save", IF job.type = DB_INSERT THEN DefaultPath
                                                      ELSE job.dst)
      BY <2>1, <2>4 DEF Return, Job, NamedExists, Named, Updating
    <2> QED
      BY <1>2, <2>3, <2>4 DEF Save
  <1>3. CASE Remove \/ Exif
    <2>1. job \in Job /\ job # NoJob
      BY <1>3, Running DEF Remove, Exif
    <2> QED
      BY <1>3, <2>1
      DEF Remove, Exif, Job, NamedExists, Named, Updating
  <1>4. CASE UNCHANGED files
    BY <1>1, <1>2, <1>4, StepNamed, QuietKeepsNamed
  <1> QED
    BY <1>1, <1>2, <1>3, <1>4
    DEF JobStep, Connect, Lookup, GetSize, Rotate, Decode, Fsync, GetType,
        StorePath, StoreSize, EndQueued, Reconnect, storeVars

LEMMA NamedNext ==
  ASSUME "thumb_deleted" \notin Faults
  PROVE  JobInv /\ NamedExists /\ [JobNext]_jobSpecVars => NamedExists'
  <1> SUFFICES ASSUME JobInv, NamedExists, [JobNext]_jobSpecVars
               PROVE  NamedExists'
    OBVIOUS
  <1>1. CASE BeginAny
    <2>1. job'.pc = "connect"
      BY <1>1 DEF BeginAny, Begin, QueuedJob, RequestedJobs, NewJob
    <2> QED
      BY <2>1 DEF NamedExists, Named, Updating
  <1>2. CASE JobStep
    BY <1>2, StepKeepsNamed DEF JobInv
  <1>3. CASE EndRequested \/ Stop \/ Crash \/ PowerCut
    BY <1>3 DEF EndRequested, Stop, Crash, PowerCut, JobDies, NamedExists
  <1>4. CASE StartJobs
    BY <1>4 DEF StartJobs, NamedExists
  <1>5. CASE StoreEnv /\ UNCHANGED jobVars
    <2>1. UNCHANGED files
      BY <1>5
      DEF StoreEnv, MediaAdded, MediaRemoved, Mounted, WriteBack, ThumbDeleted
    <2> QED
      BY <1>5, <2>1 DEF jobVars, NamedExists
  <1>6. CASE UNCHANGED jobSpecVars
    BY <1>6 DEF jobSpecVars, storeVars, jobVars, NamedExists
  <1> QED
    BY <1>1, <1>2, <1>3, <1>4, <1>5, <1>6 DEF JobNext

\* While nobody deletes thumbnails, a job that answers without an error
\* names a file that exists, found or made, whatever fails or dies.
THEOREM JobAnswerNamesFile ==
  ASSUME "thumb_deleted" \notin Faults
  PROVE  JobSpec => []AnswerNamesFile
  <1>1. JobInit => NamedExists
    BY DEF JobInit, NamedExists
  <1>2. NamedExists => AnswerNamesFile
    BY DEF NamedExists, Named, AnswerNamesFile, At
  <1> QED
    BY <1>1, <1>2, NamedNext, JobInvariant, PTL DEF JobSpec

-----------------------------------------------------------------------------
(***************************************************************************)
(* A row that names its original's hash path names a whole picture on the  *)
(* medium.  A job for the database generates a file only while its row     *)
(* does not name it; until then and after that, the file is whole.  A job  *)
(* that saves to a file works elsewhere, but may leave an EXIF thumbnail   *)
(* at a hash path where no file was.                                       *)
(***************************************************************************)
Names(m) == Listed(m) /\ db[m].thumb = hash_name(m)
Finished(m) == {Upright(m), Blank}
Whole(m) == files[hash_name(m)] \in Finished(m) /\ hash_name(m) \notin dirty
Settled == Updating \cup {"connect", "stat", "get_size", "answer", "reconnect"}

RowsWhole == \A m \in Media : Names(m) => Whole(m)

\* A job at work on its original's hash path.
AtHashPath ==
    /\ job.pc = "exif" => files[job.dst] = NoFile
    /\ job.pc = "rotate" => files[job.dst] = [of |-> job.m, turns |-> 0]
    /\ job.pc = "save" => job.data \in Finished(job.m)
    /\ job.pc = "fsync" => files[job.dst] \in Finished(job.m)
    /\ job.pc \in Settled => Whole(job.m)

OwnWork ==
    job # NoJob /\ job.type = DB_INSERT =>
       /\ job.pc \in Generating => ~Names(job.m)
       /\ job.pc = "stat" /\ Names(job.m) => job.dst = hash_name(job.m)
       /\ job.dst = hash_name(job.m) => AtHashPath

WholeInv == RowsWhole /\ OwnWork

\* The failures and foreign steps a thumbnail does not survive.
Durable == {"query", "fsync", "thumb_deleted"} \cap Faults = {}

LEMMA FinishedFacts ==
  ASSUME NEW m \in Media
  PROVE  NoFile \notin Finished(m) /\ Torn \notin Finished(m)
  BY StoreAssumption DEF Finished, Upright, Picture, Content

\* A step that writes no file, and after which no more rows name one.
LEMMA QuietKeepsRows ==
  ASSUME RowsWhole, UNCHANGED files, dirty' \in SUBSET dirty,
         \A m \in Media : Names(m)' => Names(m)
  PROVE  RowsWhole'
  BY DEF RowsWhole, Whole

LEMMA QuietKeepsWork ==
  ASSUME Locals, OwnWork, UNCHANGED <<files, job>>, dirty' \in SUBSET dirty,
         \A m \in Media : Names(m)' => Names(m)
  PROVE  OwnWork'
  <1>1. job # NoJob => job.m \in Media
    BY DEF Locals, JobTypeOK, Job
  <1> QED
    BY <1>1 DEF OwnWork, AtHashPath, Whole

\* A step that writes a file no row names.
LEMMA WriteKeepsRows ==
  ASSUME Stores, RowsWhole, NEW p, NEW content,
         files' = [files EXCEPT ![p] = content],
         dirty' \in SUBSET (dirty \cup {p}), UNCHANGED db,
         \A m \in Media : Names(m) => hash_name(m) # p
  PROVE  RowsWhole'
  <1>1. ASSUME NEW m \in Media, Names(m)'
        PROVE  Whole(m)'
    <2>1. Names(m) /\ Whole(m) /\ hash_name(m) # p
      BY <1>1 DEF Names, Listed, RowsWhole
    <2>2. files'[hash_name(m)] = files[hash_name(m)]
      BY <2>1, HashNames DEF Stores, StoreTypeOK
    <2> QED
      BY <2>1, <2>2 DEF Whole
  <1> QED
    BY <1>1 DEF RowsWhole

\* Where a job generates its file, no row names one.
LEMMA Unnamed ==
  ASSUME Locals, OwnWork, job \in Job, job # NoJob, job.pc \in Generating,
         NEW m \in Media, Names(m)
  PROVE  hash_name(m) # job.dst
  <1>1. job.type = DB_INSERT => ~Names(job.m)
    BY DEF OwnWork
  <1>2. job.type = SAVE_FILE => hash_name(m) # job.dst
    BY HashNames DEF Locals, JobOwn
  <1>3. job.type \in {DB_INSERT, SAVE_FILE}
    BY DEF Job
  <1> QED
    BY <1>1, <1>2, <1>3, OwnTarget

\* Where there is no file, no row names one.
LEMMA AbsentUnnamed ==
  ASSUME RowsWhole, NEW p, files[p] = NoFile, NEW m \in Media, Names(m)
  PROVE  hash_name(m) # p
  BY FinishedFacts DEF RowsWhole, Whole

-----------------------------------------------------------------------------
(***************************************************************************)
(* The process dies.                                                       *)
(***************************************************************************)
LEMMA HalfWrittenWhole ==
  ASSUME JobInv, WholeInv, NEW left,
         NEW fs \in [Paths -> Content \cup {NoFile}],
         \A p \in Paths : p \notin dirty => fs[p] = files[p],
         \A p \in Paths : fs[p] = NoFile => files[p] = NoFile,
         left \in HalfWritten(fs), NEW m \in Media, Names(m)
  PROVE  left[hash_name(m)] = files[hash_name(m)]
  <1>1. hash_name(m) \in Paths /\ fs[hash_name(m)] = files[hash_name(m)]
    BY HashNames DEF WholeInv, RowsWhole, Whole
  <1>2. CASE left = fs
    BY <1>1, <1>2
  <1>3. CASE At("save") /\ left = [fs EXCEPT ![job.dst] = Torn]
    <2>1. hash_name(m) # job.dst
      BY <1>3, Unnamed, Running DEF JobInv, WholeInv, At, Generating
    <2> QED
      BY <1>1, <1>3, <2>1
  <1>4. CASE /\ At("exif") /\ fs[ExifPath(job.m)] = NoFile
             /\ left = [fs EXCEPT ![ExifPath(job.m)] = Torn]
    <2>1. job.m \in Media
      BY <1>4, Running DEF JobInv, Job
    <2>2. files[ExifPath(job.m)] = NoFile
      BY <1>4, <2>1, HashNames DEF ExifPath
    <2>3. hash_name(m) # ExifPath(job.m)
      BY <2>2, AbsentUnnamed DEF WholeInv
    <2> QED
      BY <1>1, <1>4, <2>3
  <1> QED
    BY <1>2, <1>3, <1>4 DEF HalfWritten

LEMMA DeathKeepsWhole ==
  ASSUME JobInv, WholeInv, Crash \/ PowerCut
  PROVE  WholeInv'
  <1>1. OwnWork'
    BY DEF Crash, PowerCut, JobDies, OwnWork
  <1>2. \A m \in Media : Names(m)' <=> Names(m)
    BY DEF Crash, PowerCut, Names, Listed
  <1>3. ASSUME NEW m \in Media, Names(m)
        PROVE  files'[hash_name(m)] = files[hash_name(m)]
    <2>1. CASE Crash
      <3>1. files \in [Paths -> Content \cup {NoFile}]
        BY DEF JobInv, Stores, StoreTypeOK
      <3> QED
        BY <1>3, <2>1, <3>1, HalfWrittenWhole DEF Crash
    <2>2. CASE PowerCut
      <3>1. /\ AfterPowerCut \in [Paths -> Content \cup {NoFile}]
            /\ \A p \in Paths : p \notin dirty => AfterPowerCut[p] = files[p]
        BY DEF JobInv, Stores, StoreTypeOK, AfterPowerCut, Content
      <3>2. \A p \in Paths : AfterPowerCut[p] = NoFile => files[p] = NoFile
        BY StoreAssumption DEF AfterPowerCut, Content
      <3> QED
        BY <1>3, <2>2, <3>1, <3>2, HalfWrittenWhole DEF PowerCut
    <2> QED
      BY <2>1, <2>2
  <1>4. dirty' \in SUBSET dirty
    BY DEF Crash, PowerCut
  <1> QED
    BY <1>1, <1>2, <1>3, <1>4 DEF WholeInv, RowsWhole, Whole

-----------------------------------------------------------------------------
(***************************************************************************)
(* The steps of a job.                                                     *)
(***************************************************************************)
\* What is known of a job at work.
LEMMA Working ==
  ASSUME JobInv, WholeInv, NEW label, At(label)
  PROVE  /\ job \in Job /\ job # NoJob /\ job.pc = label /\ job.m \in Media
         /\ job.type \in {DB_INSERT, SAVE_FILE}
         /\ hash_name(job.m) \notin {DefaultPath, EmptyPath}
         /\ NoFile \notin Finished(job.m)
  <1>1. job \in Job /\ job # NoJob /\ job.pc = label /\ job.m \in Media
    BY Running DEF JobInv, Job
  <1> QED
    BY <1>1, HashNames, FinishedFacts DEF Job

\* A settled job that stays so, with its path, or ends with no path of its
\* own.
LEMMA SettledKeeps ==
  ASSUME OwnWork, job # NoJob, job.m \in Media, UNCHANGED files,
         dirty' \in SUBSET dirty, job.pc \in Settled,
         \/ job' = NoJob
         \/ /\ job'.pc \in Settled \ {"stat"}
            /\ job'.m = job.m /\ job'.type = job.type
            /\ job'.dst = job.dst
  PROVE  OwnWork'
  BY DEF OwnWork, AtHashPath, Whole, Settled, Updating, Generating

\* A job that returns with the default thumbnail's path.
LEMMA DefaultKeeps ==
  ASSUME job'.m \in Media, job'.pc = "answer",
         job'.dst = DefaultPath
  PROVE  OwnWork'
  BY HashNames DEF OwnWork, Generating

LEMMA ConnectKeepsWork ==
  ASSUME JobInv, WholeInv, Connect
  PROVE  OwnWork'
  <1>1. /\ job \in Job /\ job # NoJob /\ job.pc = "connect"
        /\ job.m \in Media /\ job.type \in {DB_INSERT, SAVE_FILE}
    BY Working DEF Connect
  <1>2. UNCHANGED storeVars
    BY DEF Connect
  <1>3. CASE job' = [job EXCEPT !.pc = "lookup"]
    BY <1>1, <1>3
    DEF Job, OwnWork, AtHashPath, Settled, Updating, Generating
  <1>4. CASE job' = [job EXCEPT !.pc = "answer", !.err = "db"]
    <2>1. /\ job'.pc = "answer" /\ job'.m = job.m /\ job'.type = job.type
          /\ job'.dst = job.dst
      BY <1>1, <1>4 DEF Job
    <2> QED
      BY <1>1, <1>2, <2>1, SettledKeeps DEF WholeInv, Settled, storeVars
  <1>5. CASE /\ job.type # DB_INSERT
             /\ job' = [job EXCEPT !.pc = "remove", !.dst = job.target]
    <2>1. job'.type = job.type
      BY <1>1, <1>5 DEF Job
    <2> QED
      BY <1>5, <2>1 DEF OwnWork
  <1> QED
    BY <1>3, <1>4, <1>5 DEF Connect

LEMMA LookupKeepsWork ==
  ASSUME JobInv, WholeInv, Durable, Lookup
  PROVE  OwnWork'
  <1>1. /\ job \in Job /\ job # NoJob /\ job.pc = "lookup"
        /\ job.m \in Media /\ hash_name(job.m) \notin {Null, EmptyPath}
    BY Working, HashNames DEF Lookup
  <1>2. UNCHANGED storeVars
    BY DEF Lookup
  <1>3. CASE /\ HasThumbPath(job.m)
             /\ LookupTo("stat", db[job.m].thumb, FALSE)
    <2>1. /\ job'.pc = "stat" /\ job'.dst = db[job.m].thumb
          /\ job'.m = job.m
      BY <1>1, <1>3 DEF LookupTo, Job
    <2>2. job'.dst = hash_name(job.m) => Whole(job.m)
      BY <1>1, <1>3, <2>1 DEF HasThumbPath, WholeInv, RowsWhole, Names
    <2> QED
      BY <1>2, <2>1, <2>2
      DEF OwnWork, AtHashPath, Generating, Names, Whole, Listed, storeVars
  <1>4. ASSUME NEW need, ~HasThumbPath(job.m),
               LookupTo("remove", hash_name(job.m), need)
        PROVE  OwnWork'
    <2>1. job'.pc = "remove" /\ job'.m = job.m
      BY <1>1, <1>4 DEF LookupTo, Job
    <2>2. ~Names(job.m)
      BY <1>1, <1>4 DEF HasThumbPath, Names
    <2> QED
      BY <1>2, <2>1, <2>2
      DEF OwnWork, AtHashPath, Settled, Updating, Names, Listed, storeVars
  <1> QED
    BY <1>3, <1>4 DEF Lookup, Durable, HasThumbPath

LEMMA StatKeepsWork ==
  ASSUME JobInv, WholeInv, Stat
  PROVE  OwnWork'
  <1>1. /\ job \in Job /\ job # NoJob /\ job.pc = "stat"
        /\ job.m \in Media /\ NoFile \notin Finished(job.m)
    BY Working DEF Stat
  <1>2. UNCHANGED storeVars
    BY DEF Stat
  <1>3. CASE Present(job.dst)
    <2>1. /\ job'.pc = "get_size" /\ job'.m = job.m /\ job'.dst = job.dst
          /\ job'.type = job.type
      BY <1>1, <1>3 DEF Stat, Job
    <2> QED
      BY <1>1, <1>2, <2>1, SettledKeeps DEF WholeInv, Settled, storeVars
  <1>4. CASE ~Present(job.dst)
    <2>1. /\ job'.pc = "remove" /\ job'.m = job.m /\ job'.type = job.type
      BY <1>1, <1>4 DEF Stat, Job
    <2>2. job.type = DB_INSERT => ~Names(job.m)
      BY <1>1, <1>4
      DEF Present, WholeInv, OwnWork, AtHashPath, Settled, Whole
    <2> QED
      BY <1>2, <2>1, <2>2
      DEF OwnWork, AtHashPath, Settled, Updating, Names, Listed, storeVars
  <1> QED
    BY <1>3, <1>4

LEMMA RemoveKeepsWhole ==
  ASSUME JobInv, WholeInv, Remove
  PROVE  WholeInv'
  <1>1. /\ job \in Job /\ job # NoJob /\ job.pc = "remove" /\ job.m \in Media
    BY Working DEF Remove
  <1>2. PICK to \in {"exif", "decode"} : job' = [job EXCEPT !.pc = to]
    BY DEF Remove
  <1>3. /\ job'.pc \in {"exif", "decode"} /\ job'.m = job.m
        /\ job'.type = job.type /\ job'.dst = job.dst
    BY <1>1, <1>2 DEF Job
  <1>4. /\ files' = [files EXCEPT ![job.dst] = NoFile]
        /\ dirty' \in SUBSET dirty /\ UNCHANGED db
    BY DEF Remove, RemoveFile
  <1>5. RowsWhole'
    BY <1>1, <1>4, Unnamed, WriteKeepsRows DEF JobInv, WholeInv, Generating
  <1>6. files'[job.dst] = NoFile
    BY <1>1, <1>4, OwnTarget
    DEF Generating, JobInv, Stores, StoreTypeOK
  <1>7. OwnWork'
    BY <1>1, <1>3, <1>4, <1>6
    DEF WholeInv, OwnWork, AtHashPath, Settled, Updating, Generating, Names,
        Listed
  <1> QED
    BY <1>5, <1>7 DEF WholeInv

LEMMA ExifKeepsWhole ==
  ASSUME JobInv, WholeInv, Exif
  PROVE  WholeInv'
  <1>1. /\ job \in Job /\ job # NoJob /\ job.pc = "exif" /\ job.m \in Media
        /\ ExifPath(job.m) \in Paths
    BY Working, HashNames DEF Exif, ExifPath
  <1>2. PICK to \in {"rotate", "decode"} : job' = [job EXCEPT !.pc = to]
    BY DEF Exif
  <1>3. /\ job'.pc \in {"rotate", "decode"} /\ job'.m = job.m
        /\ job'.type = job.type /\ job'.dst = job.dst
    BY <1>1, <1>2 DEF Job
  <1>4. UNCHANGED <<db, dirty>>
    BY DEF Exif
  <1>5. RowsWhole'
    <2>1. CASE files[ExifPath(job.m)] # NoFile
      <3>1. files' = files
        BY <1>1, <2>1 DEF Exif, JobInv, Stores, StoreTypeOK
      <3> QED
        BY <1>4, <3>1, QuietKeepsRows DEF WholeInv, Names, Listed
    <2>2. CASE files[ExifPath(job.m)] = NoFile
      <3>1. PICK content :
               files' = [files EXCEPT ![ExifPath(job.m)] = content]
        BY DEF Exif
      <3> QED
        BY <1>4, <2>2, <3>1, AbsentUnnamed, WriteKeepsRows
        DEF JobInv, WholeInv
    <2> QED
      BY <2>1, <2>2
  <1>6. ASSUME files[ExifPath(job.m)] = NoFile, job'.pc = "rotate"
        PROVE  files'[ExifPath(job.m)] = [of |-> job.m, turns |-> 0]
    <2>1. \/ files' = [files EXCEPT ![ExifPath(job.m)] =
                                       [of |-> job.m, turns |-> 0]]
          \/ job' = [job EXCEPT !.pc = "decode"]
      BY <1>6 DEF Exif
    <2>2. job' # [job EXCEPT !.pc = "decode"]
      BY <1>1, <1>6 DEF Job
    <2> QED
      BY <1>1, <2>1, <2>2 DEF JobInv, Stores, StoreTypeOK
  <1>7. OwnWork'
    BY <1>1, <1>3, <1>4, <1>6
    DEF WholeInv, OwnWork, AtHashPath, Settled, Updating, Generating, Names,
        Listed, ExifPath
  <1> QED
    BY <1>5, <1>7 DEF WholeInv

\* The picture is upright: turned from an EXIF thumbnail just written, or
\* decoded from the original.
LEMMA GeneratedKeepsWork ==
  ASSUME OwnWork, job \in Job, job # NoJob, job.pc \in Generating,
         job.m \in Media, UNCHANGED storeVars, NEW picture,
         NEW size, Generated(picture, size),
         /\ job.type = DB_INSERT
         /\ job.dst = hash_name(job.m)
         => picture \in Finished(job.m)
  PROVE  OwnWork'
  <1>1. /\ job'.pc = "save" /\ job'.m = job.m /\ job'.type = job.type
        /\ job'.dst = job.dst /\ job'.data = picture
    BY DEF Generated, Job
  <1> QED
    BY <1>1
    DEF OwnWork, AtHashPath, Settled, Updating, Names, Listed, storeVars

LEMMA RotateKeepsWork ==
  ASSUME JobInv, WholeInv, Rotate
  PROVE  OwnWork'
  <1>1. /\ job \in Job /\ job # NoJob /\ job.pc = "rotate"
        /\ job.m \in Media
    BY Working DEF Rotate
  <1>2. UNCHANGED storeVars
    BY DEF Rotate
  <1> DEFINE found == files[ExifPath(job.m)]
             turned == [found EXCEPT !.turns = (@ + Orient[job.m]) % 4]
  <1>3. CASE found \in Picture /\ Generated(turned, FileSize(job.m))
    <2>1. ASSUME job.type = DB_INSERT, job.dst = hash_name(job.m)
          PROVE  turned \in Finished(job.m)
      <3>1. found = [of |-> job.m, turns |-> 0]
        BY <1>1, <2>1
        DEF WholeInv, OwnWork, AtHashPath, ExifPath
      <3>2. turned = [of |-> job.m, turns |-> (0 + Orient[job.m]) % 4]
        BY <3>1
      <3>3. Orient[job.m] \in 0 .. 3
        BY <1>1, StoreAssumption DEF Turns
      <3>4. (0 + Orient[job.m]) % 4 = Orient[job.m]
        BY <3>3
      <3> QED
        BY <3>2, <3>4 DEF Finished, Upright
    <2> HIDE DEF turned
    <2> QED
      BY <1>1, <1>2, <1>3, <2>1, GeneratedKeepsWork DEF WholeInv, Generating
  <1>4. CASE job' = [job EXCEPT !.pc = "decode"]
    <2>1. /\ job'.pc = "decode" /\ job'.m = job.m /\ job'.type = job.type
      BY <1>1, <1>4 DEF Job
    <2> QED
      BY <1>1, <1>2, <2>1
      DEF WholeInv, OwnWork, AtHashPath, Settled, Updating, Generating, Names,
          Listed, storeVars
  <1>5. CASE Return("generate", DefaultPath)
    <2>1. job'.pc = "answer" /\ job'.dst = DefaultPath /\ job'.m = job.m
      BY <1>1, <1>5 DEF Return, Job
    <2> QED
      BY <1>1, <2>1, DefaultKeeps
  <1> QED
    BY <1>3, <1>4, <1>5 DEF Rotate

LEMMA DecodeKeepsWork ==
  ASSUME JobInv, WholeInv, Decode
  PROVE  OwnWork'
  <1>1. /\ job \in Job /\ job # NoJob /\ job.pc = "decode"
        /\ job.m \in Media
    BY Working DEF Decode
  <1>2. UNCHANGED storeVars
    BY DEF Decode
  <1>3. ASSUME NEW picture \in Finished(job.m), NEW size,
               Generated(picture, size)
        PROVE  OwnWork'
    BY <1>1, <1>2, <1>3, GeneratedKeepsWork DEF WholeInv, Generating
  <1>4. CASE Return("generate", DefaultPath)
    <2>1. job'.pc = "answer" /\ job'.dst = DefaultPath /\ job'.m = job.m
      BY <1>1, <1>4 DEF Return, Job
    <2> QED
      BY <1>1, <2>1, DefaultKeeps
  <1> QED
    BY <1>3, <1>4 DEF Decode, Finished

LEMMA SaveKeepsWhole ==
  ASSUME JobInv, WholeInv, Save
  PROVE  WholeInv'
  <1>1. /\ job \in Job /\ job # NoJob /\ job.pc = "save" /\ job.m \in Media
        /\ job.type \in {DB_INSERT, SAVE_FILE}
    BY Working DEF Save
  <1>2. /\ dirty' \in SUBSET (dirty \cup {job.dst}) /\ UNCHANGED db
    BY DEF Save
  <1>3. CASE /\ files' = [files EXCEPT ![job.dst] = job.data]
             /\ job' = [job EXCEPT !.pc = "fsync"]
    <2>1. RowsWhole'
      BY <1>1, <1>2, <1>3, Unnamed, WriteKeepsRows
      DEF JobInv, WholeInv, Generating
    <2>2. /\ job'.pc = "fsync" /\ job'.m = job.m /\ job'.type = job.type
          /\ job'.dst = job.dst
      BY <1>1, <1>3 DEF Job
    <2>3. files'[job.dst] = job.data
      BY <1>1, <1>3, OwnTarget DEF Generating, JobInv, Stores, StoreTypeOK
    <2>4. OwnWork'
      BY <1>1, <1>2, <2>2, <2>3
      DEF WholeInv, OwnWork, AtHashPath, Settled, Updating, Generating, Names,
          Listed
    <2> QED
      BY <2>1, <2>4 DEF WholeInv
  <1>4. CASE /\ \/ UNCHANGED files
                \/ files' = [files EXCEPT ![job.dst] = Torn]
             /\ UNCHANGED dirty
             /\ Return("save", IF job.type = DB_INSERT THEN DefaultPath
                                                       ELSE job.dst)
    <2>1. RowsWhole'
      <3>1. CASE UNCHANGED files
        BY <1>2, <1>4, <3>1, QuietKeepsRows DEF WholeInv, Names, Listed
      <3>2. CASE files' = [files EXCEPT ![job.dst] = Torn]
        BY <1>1, <1>2, <3>2, Unnamed, WriteKeepsRows
        DEF JobInv, WholeInv, Generating
      <3> QED
        BY <1>4, <3>1, <3>2
    <2>2. OwnWork'
      <3>1. CASE job.type = DB_INSERT
        <4>1. /\ job'.pc = "answer" /\ job'.dst = DefaultPath
              /\ job'.m = job.m
          BY <1>1, <1>4, <3>1 DEF Return, Job
        <4> QED
          BY <1>1, <4>1, DefaultKeeps
      <3>2. CASE job.type # DB_INSERT
        <4>1. job'.type = job.type
          BY <1>1, <1>4, <3>2 DEF Return, Job
        <4> QED
          BY <3>2, <4>1 DEF OwnWork
      <3> QED
        BY <3>1, <3>2
    <2> QED
      BY <2>1, <2>2 DEF WholeInv
  <1> QED
    BY <1>3, <1>4 DEF Save

LEMMA FsyncKeepsWhole ==
  ASSUME JobInv, WholeInv, Durable, Fsync
  PROVE  WholeInv'
  <1>1. /\ job \in Job /\ job # NoJob /\ job.pc = "fsync" /\ job.m \in Media
    BY Working DEF Fsync
  <1>2. dirty' = dirty \ {job.dst} /\ UNCHANGED <<db, files>>
    BY DEF Fsync, Synced, Durable
  <1>3. RowsWhole'
    BY <1>2, QuietKeepsRows DEF WholeInv, Names, Listed
  <1>4. /\ job'.pc \in {"get_type", "answer"} /\ job'.m = job.m
        /\ job'.type = job.type /\ job'.dst = job.dst
    BY <1>1 DEF Fsync, Return, Job
  <1>5. OwnWork'
    BY <1>1, <1>2, <1>4
    DEF WholeInv, OwnWork, AtHashPath, Whole, Generating, Updating
  <1> QED
    BY <1>3, <1>5 DEF WholeInv

\* From get_size on the job writes no file.
LEMMA SettledSteps ==
  ASSUME JobInv, WholeInv,
         \/ GetSize \/ GetType \/ StorePath \/ StoreSize
         \/ EndQueued \/ Reconnect
  PROVE  OwnWork'
  <1>1. /\ job \in Job /\ job # NoJob /\ job.m \in Media
        /\ job.pc \in Settled
    BY Working
    DEF GetSize, GetType, StorePath, StoreSize, EndQueued, Reconnect, Settled,
        Updating
  <1>2. UNCHANGED <<files, dirty>>
    BY DEF GetSize, GetType, StorePath, StoreSize, EndQueued, Reconnect,
       storeVars
  <1>3. \/ job' = NoJob
        \/ /\ job'.pc \in Settled \ {"stat"} /\ job'.m = job.m
           /\ job'.type = job.type /\ job'.dst = job.dst
    <2>1. CASE GetSize
      BY <1>1, <2>1 DEF GetSize, Job, Settled
    <2>2. CASE GetType \/ StorePath \/ StoreSize
      BY <1>1, <2>2
      DEF GetType, StorePath, StoreSize, LeaveUpdate, Job, Settled, Updating
    <2>3. CASE EndQueued
      BY <1>1, <2>3 DEF EndQueued, Job, Settled
    <2>4. CASE Reconnect
      BY <1>1, <2>4 DEF Reconnect, Job, Settled, Updating
    <2> QED
      BY <2>1, <2>2, <2>3, <2>4
  <1> QED
    BY <1>1, <1>2, <1>3, SettledKeeps DEF WholeInv

\* Only a job for the database stores a path, and what it stores is whole.
LEMMA StorePathKeepsRows ==
  ASSUME JobInv, WholeInv, StorePath
  PROVE  RowsWhole'
  <1>1. /\ job \in Job /\ job # NoJob /\ job.pc = "store_path"
        /\ job.m \in Media
    BY Working DEF StorePath
  <1>2. job.type = DB_INSERT
    BY <1>1 DEF JobInv, Locals, JobOwn, Job, Updating
  <1>3. UNCHANGED <<files, dirty>>
    BY DEF StorePath
  <1>4. ASSUME NEW m \in Media, Names(m)'
        PROVE  Whole(m)
    <2>1. CASE Names(m)
      BY <2>1 DEF WholeInv, RowsWhole
    <2>2. CASE ~Names(m)
      <3>1. db' = [db EXCEPT ![job.m].thumb = job.dst]
        BY <1>4, <2>2 DEF StorePath, WithThumbPath, Names, Listed
      <3>2. m = job.m /\ db'[m].thumb = job.dst
        BY <1>1, <1>4, <2>2, <3>1
        DEF Names, Listed, JobInv, Stores, StoreTypeOK, Row
      <3>3. job.dst = hash_name(job.m)
        BY <1>4, <3>2 DEF Names
      <3> QED
        BY <1>1, <1>2, <3>2, <3>3
        DEF WholeInv, OwnWork, AtHashPath, Settled, Updating
    <2> QED
      BY <2>1, <2>2
  <1> QED
    BY <1>3, <1>4 DEF RowsWhole, Whole

LEMMA StoreSizeKeepsRows ==
  ASSUME JobInv, WholeInv, StoreSize
  PROVE  RowsWhole'
  <1>1. UNCHANGED <<files, dirty>>
    BY DEF StoreSize
  <1>2. ASSUME NEW m \in Media, Names(m)'
        PROVE  Names(m)
    <2>1. CASE db' = db
      BY <1>2, <2>1 DEF Names, Listed
    <2>2. CASE /\ Listed(job.m)
               /\ db' = [db EXCEPT ![job.m].width = job.width,
                                   ![job.m].height = job.height]
      <3>1. db \in [Media -> Row \cup {NoRow}]
        BY DEF JobInv, Stores, StoreTypeOK
      <3> QED
        BY <1>2, <2>2, <3>1 DEF Names, Listed, Row
    <2> QED
      BY <2>1, <2>2 DEF StoreSize, WithSize
  <1> QED
    BY <1>1, <1>2, QuietKeepsRows DEF WholeInv

LEMMA StepKeepsWhole ==
  ASSUME JobInv, WholeInv, Durable, JobStep
  PROVE  WholeInv'
  <1>1. CASE UNCHANGED storeVars
    <2>1. RowsWhole'
      BY <1>1, QuietKeepsRows DEF WholeInv, Names, Listed, storeVars
    <2>2. OwnWork' \/ Remove \/ Exif \/ Save \/ Fsync
      BY ConnectKeepsWork, LookupKeepsWork, StatKeepsWork, RotateKeepsWork,
         DecodeKeepsWork, SettledSteps
      DEF JobStep
    <2> QED
      BY <2>1, <2>2, RemoveKeepsWhole, ExifKeepsWhole, SaveKeepsWhole,
         FsyncKeepsWhole
      DEF WholeInv
  <1>2. CASE Remove \/ Exif \/ Save \/ Fsync
    BY <1>2, RemoveKeepsWhole, ExifKeepsWhole, SaveKeepsWhole,
       FsyncKeepsWhole
  <1>3. CASE StorePath \/ StoreSize
    BY <1>3, StorePathKeepsRows, StoreSizeKeepsRows, SettledSteps
    DEF WholeInv
  <1> QED
    BY <1>1, <1>2, <1>3
    DEF JobStep, Connect, Lookup, Stat, GetSize, Rotate, Decode, GetType,
        EndQueued, Reconnect

\* The environment lists no path and, here, deletes no file.
LEMMA EnvKeepsWhole ==
  ASSUME JobInv, WholeInv, Durable, StoreEnv, UNCHANGED jobVars
  PROVE  WholeInv'
  <1>1. UNCHANGED <<files, job>> /\ dirty' \in SUBSET dirty
    BY DEF StoreEnv, MediaAdded, MediaRemoved, Mounted, WriteBack,
       ThumbDeleted, Durable, jobVars
  <1>2. ASSUME NEW m \in Media, Names(m)'
        PROVE  Names(m)
    <2>1. db \in [Media -> Row \cup {NoRow}]
      BY DEF JobInv, Stores, StoreTypeOK
    <2>2. ASSUME NEW n \in Media, MediaAdded(n)
          PROVE  Names(m)
      BY <1>2, <2>1, <2>2, HashNames DEF MediaAdded, NewRow, Names, Listed
    <2>3. ASSUME NEW n \in Media, MediaRemoved(n)
          PROVE  Names(m)
      BY <1>2, <2>1, <2>3 DEF MediaRemoved, Names, Listed
    <2>4. ASSUME NEW n \in Media, Mounted(n)
          PROVE  Names(m)
      BY <1>2, <2>1, <2>4 DEF Mounted, Names, Listed, Row
    <2>5. CASE UNCHANGED db
      BY <1>2, <2>5 DEF Names, Listed
    <2> QED
      BY <2>2, <2>3, <2>4, <2>5
      DEF StoreEnv, WriteBack, ThumbDeleted
  <1> QED
    BY <1>1, <1>2, QuietKeepsRows, QuietKeepsWork DEF JobInv, WholeInv

LEMMA WholeNext ==
  ASSUME Durable
  PROVE  JobInv /\ WholeInv /\ [JobNext]_jobSpecVars => WholeInv'
  <1> SUFFICES ASSUME JobInv, WholeInv, [JobNext]_jobSpecVars
               PROVE  WholeInv'
    OBVIOUS
  <1>1. CASE BeginAny
    <2>1. UNCHANGED storeVars
      BY <1>1 DEF BeginAny, Begin
    <2>2. job'.pc = "connect" /\ job'.dst = EmptyPath
      BY <1>1 DEF BeginAny, Begin, QueuedJob, RequestedJobs, NewJob
    <2>3. job'.m \in Media
      BY <1>1
      DEF BeginAny, Begin, QueuedJob, Requests, RequestedJobs, NewJob
    <2>4. OwnWork'
      BY <2>2, <2>3, HashNames DEF OwnWork, Generating
    <2> QED
      BY <2>1, <2>4, QuietKeepsRows DEF WholeInv, Names, Listed, storeVars
  <1>2. CASE JobStep
    BY <1>2, StepKeepsWhole
  <1>3. CASE EndRequested \/ Stop
    <2>1. UNCHANGED storeVars /\ job' = NoJob
      BY <1>3 DEF EndRequested, Stop, JobDies
    <2> QED
      BY <2>1, QuietKeepsRows DEF WholeInv, OwnWork, Names, Listed, storeVars
  <1>4. CASE Crash \/ PowerCut
    BY <1>4, DeathKeepsWhole
  <1>5. CASE StoreEnv /\ UNCHANGED jobVars
    BY <1>5, EnvKeepsWhole
  <1>6. CASE UNCHANGED <<storeVars, job>>
    BY <1>6, QuietKeepsRows, QuietKeepsWork
    DEF JobInv, WholeInv, Names, Listed, storeVars
  <1> QED
    BY <1>1, <1>2, <1>3, <1>4, <1>5, <1>6
    DEF JobNext, StartJobs, jobSpecVars, jobVars

\* Unless thumbnails are deleted, queries fail or syncs fail, a row that
\* names its original's hash path names a complete, upright picture that is
\* on the medium: whatever else fails, and wherever the process dies or the
\* power is cut.
THEOREM JobListedIsWhole ==
  ASSUME {"query", "fsync", "thumb_deleted"} \cap Faults = {}
  PROVE  JobSpec => []ListedIsWhole
  <1>1. Durable
    BY DEF Durable
  <1>2. JobInit => WholeInv
    <2>1. ASSUME JobInit, NEW m \in Media
          PROVE  ~Names(m)
      BY <2>1, HashNames DEF JobInit, StoreInit, Names, Listed, NewRow
    <2> QED
      BY <2>1 DEF JobInit, WholeInv, RowsWhole, OwnWork
  <1>3. WholeInv => ListedIsWhole
    BY DEF WholeInv, RowsWhole, Names, Whole, Finished, ListedIsWhole
  <1> QED
    BY <1>1, <1>2, <1>3, WholeNext, JobInvariant, PTL DEF JobSpec
=============================================================================
