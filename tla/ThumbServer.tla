---------------------------- MODULE ThumbServer -----------------------------
(***************************************************************************)
(* media-thumbnail-server: one thread that runs a GLib main loop.  A watch *)
(* on the UDP socket calls _thumb_server_read_socket; each request to      *)
(* extract all thumbnails appends the paths without one to arr_path and    *)
(* adds an idle source that calls _thumb_daemon_process_queue_jobs until   *)
(* it returns FALSE.  The socket has the priority: idle sources run in an  *)
(* iteration that found no datagram.  The jobs are those of ThumbJob.      *)
(***************************************************************************)
EXTENDS ThumbJob, Sequences, FiniteSets

CONSTANTS
    Clients,    \* sockets of clients; each sends one request
    SockSize,   \* datagrams the server's socket holds before it drops
    Closed, Waiting,  \* states of a client's socket without an answer in it
    Nobody      \* no client is being served

ALL_MEDIA == "ALL_MEDIA"    \* THUMB_REQUEST_ALL_MEDIA

ServerRequests ==
    Requests \cup [type : {ALL_MEDIA}, m : {EmptyPath}, target : {EmptyPath}]

Answers == [status : {SUCCESS, FAIL}, dst : Paths \cup {EmptyPath},
            width : Dim, height : Dim]

VARIABLES
    up,         \* "running", "off" or "aborted"
    sock,       \* datagrams received and not yet read
    peer,       \* client_addr of the request being served
    csock,      \* each client's socket: Closed, Waiting, or the answer in it
    g_idx,      \* paths appended to arr_path
    g_cur_idx,  \* paths taken from it
    arr_path,   \* the array, a sequence
    heap,       \* what the pointer arr_path is: "null", "live" or "freed"
    idle,       \* idle sources with _thumb_daemon_process_queue_jobs
    dispatch    \* how many of them this iteration has still to call

netVars == <<sock, peer, csock>>
queueVars == <<g_idx, g_cur_idx, arr_path, heap>>
loopVars == <<idle, dispatch>>

ASSUME ServerAssumption ==
    /\ Clients # {} /\ IsFiniteSet(Media)
    /\ SockSize \in Nat \ {0}
    /\ {Closed, Waiting} \cap Answers = {} /\ Closed # Waiting
    /\ Nobody \notin Clients

Datagrams == [from : Clients, req : ServerRequests]

ServerTypeOK ==
    /\ up \in {"running", "off", "aborted"}
    /\ sock \in Seq(Datagrams)
    /\ peer \in Clients \cup {Nobody}
    /\ csock \in [Clients -> Answers \cup {Closed, Waiting}]
    /\ g_idx \in Nat /\ g_cur_idx \in Nat
    /\ arr_path \in Seq(Media)
    /\ heap \in {"null", "live", "freed"}
    /\ idle \in Nat /\ dispatch \in Nat

(***************************************************************************)
(* Clients.  A datagram to a full socket, or to no server, is lost.        *)
(***************************************************************************)
Received(c, req) ==
    sock' = IF up = "running" /\ Len(sock) < SockSize
            THEN Append(sock, [from |-> c, req |-> req])
            ELSE sock

Ask(c, req) ==
    /\ csock[c] = Closed
    /\ csock' = [csock EXCEPT ![c] = Waiting]
    /\ Received(c, req)
    /\ UNCHANGED <<peer, up, storeVars, jobVars, queueVars, loopVars>>

(***************************************************************************)
(* The main loop.                                                          *)
(***************************************************************************)
Polling == up = "running" /\ job = NoJob /\ dispatch = 0

\* Mutant of Answered: failures are not answered.
AnsweredSuccess(c, answer) ==
    csock' = IF csock[c] = Waiting /\ answer.status = SUCCESS
             THEN [csock EXCEPT ![c] = answer] ELSE csock

\* Mutant of Answered: the address is that of the last datagram to arrive.
AnsweredLast(c, answer) ==
    LET to == IF sock = <<>> THEN c ELSE sock[Len(sock)].from IN
    csock' = IF csock[to] = Waiting THEN [csock EXCEPT ![to] = answer] ELSE csock

Answered(c, answer) ==
    csock' = IF csock[c] = Waiting THEN [csock EXCEPT ![c] = answer] ELSE csock

\* _thumb_server_read_socket, a request for one thumbnail
ReadRequest ==
    /\ Polling /\ sock # <<>>
    /\ LET req == Head(sock).req IN
       /\ req.type # ALL_MEDIA
       /\ job' \in RequestedJobs(req)
    /\ peer' = Head(sock).from
    /\ sock' = Tail(sock)
    /\ UNCHANGED <<up, csock, storeVars, conns, evas, queueVars, loopVars>>

\* ... and its answer, sent when _thumb_daemon_process_job returns
Reply ==
    /\ up = "running"
    /\ At("answer") /\ ~job.queued
    /\ Answered(peer, [status |-> Status, dst |-> job.dst,
                       width |-> job.width, height |-> job.height])
    /\ peer' = Nobody
    /\ job' = NoJob
    /\ UNCHANGED <<up, sock, storeVars, conns, evas, queueVars, loopVars>>

(***************************************************************************)
(* _thumb_daemon_all_extract: the rows in any order; a failed connection   *)
(* or statement gives none, a failed step ends the rows early.             *)
(***************************************************************************)
Orders(S) ==
    {s \in [1 .. Cardinality(S) -> S] :
        \A i, j \in 1 .. Cardinality(S) : s[i] = s[j] => i = j}

Batches ==
    Orders(Unextracted)
    \cup (IF Faults \cap {"connect", "select"} # {} THEN {<<>>} ELSE {})
    \cup (IF "query" \in Faults
          THEN UNION {Orders(S) : S \in SUBSET Unextracted} ELSE {})

\* Mutant of Extended: the new paths go to the start of the array.
Prepended(batch) == IF g_idx = 0 THEN batch ELSE batch \o arr_path

\* malloc for the first path, realloc for the others
Extended(batch) == IF g_idx = 0 THEN batch ELSE arr_path \o batch

AllExtract(batch) ==
    IF batch = <<>> THEN UNCHANGED queueVars
    ELSE /\ arr_path' = Extended(batch)
         /\ heap' = "live"
         /\ g_idx' = g_idx + Len(batch)
         /\ UNCHANGED g_cur_idx

\* _thumb_server_read_socket, a request to extract all thumbnails: the
\* answer is sent at once, and it is never initialised
ReadExtractAll ==
    /\ Polling /\ sock # <<>>
    /\ Head(sock).req.type = ALL_MEDIA
    /\ \E batch \in Batches : AllExtract(batch)
    /\ idle' = idle + 1
    /\ \E status \in {SUCCESS, FAIL}, w, h \in {0, Junk} :
          Answered(Head(sock).from, [status |-> status, dst |-> EmptyPath,
                                     width |-> w, height |-> h])
    /\ sock' = Tail(sock)
    /\ UNCHANGED <<up, peer, storeVars, jobVars, dispatch>>

\* An iteration of the main loop that found no datagram calls every idle
\* source once; the first such iteration starts with _thumb_daemon_start_jobs.
PollIdle ==
    /\ Polling /\ sock = <<>>
    /\ idle > 0 \/ ~evas
    /\ dispatch' = idle
    /\ evas' = TRUE
    /\ UNCHANGED <<up, netVars, storeVars, job, conns, queueVars, idle>>

Dispatching == up = "running" /\ job = NoJob /\ dispatch > 0

\* Mutant of KeepSource: the callback returns FALSE after a path.
DropSource == idle' = idle - 1

KeepSource == UNCHANGED idle

\* _thumb_daemon_process_queue_jobs: take a path; returns TRUE
TakePath ==
    /\ Dispatching
    /\ g_cur_idx < g_idx
    /\ job' = QueuedJob(arr_path[g_cur_idx + 1])
    /\ g_cur_idx' = g_cur_idx + 1
    /\ dispatch' = dispatch - 1
    /\ KeepSource
    /\ UNCHANGED <<up, netVars, storeVars, conns, evas, g_idx, arr_path, heap>>

(***************************************************************************)
(* The end of the process, and what it takes with it: its memory and the   *)
(* datagrams in its socket.                                                *)
(***************************************************************************)
ServerGone(how) ==
    /\ up' = how
    /\ sock' = <<>> /\ peer' = Nobody
    /\ g_idx' = 0 /\ g_cur_idx' = 0 /\ arr_path' = <<>> /\ heap' = "null"
    /\ idle' = 0 /\ dispatch' = 0
    /\ UNCHANGED csock

(***************************************************************************)
(* _thumb_daemon_process_queue_jobs with no path left: delete the array    *)
(* and return FALSE, which destroys the source.  The pointer is not reset. *)
(* Freeing the same array twice is undefined: the C library aborts the     *)
(* server or does not notice.                                              *)
(***************************************************************************)
\* Mutant of ResetIndices: the number of paths is not reset.
ResetCurrentOnly == g_cur_idx' = 0 /\ UNCHANGED g_idx

ResetIndices == g_cur_idx' = 0 /\ g_idx' = 0

DeleteArray ==
    /\ Dispatching
    /\ g_cur_idx >= g_idx
    /\ \/ /\ ResetIndices
          /\ arr_path' = <<>>
          /\ heap' = IF heap = "null" THEN "null" ELSE "freed"
          /\ idle' = idle - 1
          /\ dispatch' = dispatch - 1
          /\ UNCHANGED <<up, netVars, storeVars, jobVars>>
       \/ /\ heap = "freed"
          /\ ServerGone("aborted")
          /\ Stop

\* heynoti "power_off_start": the main loop is quit
PowerOff ==
    /\ "power_off" \in Faults
    /\ Polling
    /\ ServerGone("off")
    /\ Stop

ServerCrash == up = "running" /\ Crash /\ ServerGone("aborted")

ServerPowerCut == PowerCut /\ ServerGone("off")

\* /etc/init.d/thumbsvr starts the server when the device boots
Boot ==
    /\ "reboot" \in Faults
    /\ up # "running"
    /\ up' = "running"
    /\ UNCHANGED <<netVars, storeVars, jobVars, queueVars, loopVars>>

RunJob ==
    /\ up = "running"
    /\ JobStep
    /\ UNCHANGED <<up, netVars, queueVars, loopVars>>

ServerStep ==
    \/ ReadRequest \/ ReadExtractAll \/ Reply
    \/ PollIdle \/ TakePath \/ DeleteArray
    \/ RunJob

Failure == PowerOff \/ ServerCrash \/ ServerPowerCut \/ Boot

Environment ==
    /\ StoreEnv
    /\ UNCHANGED <<up, netVars, jobVars, queueVars, loopVars>>

-----------------------------------------------------------------------------
(***************************************************************************)
(* The server among any clients.                                           *)
(***************************************************************************)
serverVars == <<storeVars, jobVars, up, netVars, queueVars, loopVars>>

ServerInit ==
    /\ JobInit
    /\ up = "running"
    /\ sock = <<>> /\ peer = Nobody
    /\ csock = [c \in Clients |-> Closed]
    /\ g_idx = 0 /\ g_cur_idx = 0 /\ arr_path = <<>> /\ heap = "null"
    /\ idle = 0 /\ dispatch = 0

ServerNext ==
    \/ \E c \in Clients, req \in ServerRequests : Ask(c, req)
    \/ ServerStep
    \/ Failure
    \/ Environment

ServerSpec == ServerInit /\ [][ServerNext]_serverVars

\* The server's thread runs whenever it has something to do.
FairServerSpec == ServerSpec /\ WF_serverVars(ServerStep)

-----------------------------------------------------------------------------
(***************************************************************************)
(* Properties                                                              *)
(***************************************************************************)
ServerOK == TypeOK /\ ServerTypeOK

\* The paths not yet taken, in order.
Todo == SubSeq(arr_path, g_cur_idx + 1, g_idx)

\* arr_path is never indexed or extended once it is freed: between the
\* indices that are used it is live and as long as g_idx says, however many
\* idle sources share it and though the pointer outlives the array.
ArrayLive ==
    /\ g_cur_idx <= g_idx
    /\ g_idx = Len(arr_path)
    /\ g_idx > 0 => heap = "live"

\* A path in the queue has an idle source to work it: requests that arrive
\* while another's sources are ending never leave paths behind.
NoStrandedWork == g_cur_idx < g_idx => idle > 0

\* The array and the sources as an abstract queue: every path appended is
\* taken once, in order, and none is dropped while the server runs.
Queue == INSTANCE ExtractQueue WITH todo <- Todo, workers <- idle

QueueSpec == Queue!Spec

\* "Once thumbnail generated, the thumbnail path ... will be updated to
\* media database": a queued original ends with a thumbnail path, that of
\* the default thumbnail when generation fails, unless its row or the server
\* goes away.
QueuedGetThumb ==
    \A m \in Media :
       (\E i \in 1 .. Len(Todo) : Todo[i] = m)
          ~> (HasThumbPath(m) \/ ~Listed(m) \/ up # "running")

\* A request the server has received is answered unless the server ends.
RequestsAnswered ==
    \A c \in Clients :
       (\E i \in 1 .. Len(sock) : sock[i].from = c)
          ~> (csock[c] \in Answers \/ up # "running")

\* "Deleting array": there is an array to delete, or never was one.
DeletesArrayOnce == Dispatching /\ g_cur_idx >= g_idx => heap # "freed"
=============================================================================
