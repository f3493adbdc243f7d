------------------------------ MODULE ThumbIpc ------------------------------
(***************************************************************************)
(* The client library: the functions of media-thumbnail.c, the synchronous *)
(* _media_thumb_request and the asynchronous _media_thumb_request_async,   *)
(* in applications that talk to the server of ThumbServer over UDP.        *)
(*                                                                         *)
(* Each member of Clients is one call of the library, made by one thread   *)
(* of an application.  A synchronous call blocks that thread; an           *)
(* asynchronous one leaves a watch with the application's GLib main loop,  *)
(* which calls _media_thumb_write_socket when the descriptor it was given  *)
(* becomes readable.  A watch holds the number of a descriptor and not the *)
(* socket: a number that was closed is given out again.                    *)
(*                                                                         *)
(* Two things are taken from the kernel that the code does not see to.     *)
(* The UDP port of a closed socket is not given to a later call while an   *)
(* answer to the closed one may still come: an answer names no request,    *)
(* and of its sender at most the IP address is checked.  And nobody but    *)
(* the server writes to the socket of an asynchronous call, which does     *)
(* not check even that.                                                    *)
(***************************************************************************)
EXTENDS ThumbServer

CONSTANTS
    App,        \* [Clients -> applications]: who makes a call
    LongPaths,  \* answered paths that do not fit the caller's buffer
    Cut,        \* such a path after strncpy: cut short, not terminated
    NoPath      \* nothing was returned

FROM_DB     == "thumbnail_request_from_db"
WITH_SIZE   == "thumbnail_request_from_db_with_size"
SAVE        == "thumbnail_request_save_to_file"
EXTRACT_ALL == "thumbnail_request_extract_all_thumbs"
ASYNC       == "thumbnail_request_from_db_async"

Apis == {FROM_DB, WITH_SIZE, SAVE, EXTRACT_ALL, ASYNC}

Results == {"NONE", "INVALID_PARAMETER", "FAILED", "UNSUPPORTED",
            "NETWORK", "TIMEOUT"}
NoResult == "no result"

Call == [api : Apis, m : Media \cup {EmptyPath},
         ret : Results \cup {NoResult},       \* what the function returned
         cb : Results \cup {NoResult},        \* the callback's error_code
         path : Paths \cup {EmptyPath, Cut, NoPath},
         user_data : {"none", "live", "freed"}]

NewCall == [api |-> FROM_DB, m |-> EmptyPath, ret |-> NoResult, cb |-> NoResult,
            path |-> NoPath, user_data |-> "none"]

VARIABLES
    state,   \* each call: "new", "blocked", "returned"
    call,    \* its arguments and results
    fd,      \* its descriptor; 0 when it has none open
    watch,   \* the descriptor its watch was given; 0 when it has no watch
    ready    \* calls whose watches this iteration of their main loop calls

ipcVars == <<state, call, fd, watch, ready>>
ipcSpecVars == <<serverVars, ipcVars>>

Descriptors == 1 .. Cardinality(Clients)

ASSUME IpcAssumption ==
    /\ IsFiniteSet(Clients)
    /\ DOMAIN App = Clients
    /\ LongPaths \subseteq Paths
    /\ {Cut, NoPath} \cap (Paths \cup {EmptyPath}) = {} /\ Cut # NoPath

IpcTypeOK ==
    /\ state \in [Clients -> {"new", "blocked", "returned"}]
    /\ call \in [Clients -> Call]
    /\ fd \in [Clients -> {0} \cup Descriptors]
    /\ watch \in [Clients -> {0} \cup Descriptors]
    /\ ready \in SUBSET Clients

Mates(c) == {d \in Clients : App[d] = App[c]}

\* The thread of the application is in no synchronous call.
Free(c) == \A d \in Mates(c) : state[d] # "blocked"

\* socket() gives the lowest number that no open socket of the process has.
Lowest(c) ==
    CHOOSE n \in Descriptors :
       /\ \A d \in Mates(c) : fd[d] # n
       /\ \A k \in 1 .. n - 1 : \E d \in Mates(c) : fd[d] = k

(***************************************************************************)
(* The message a function sends.                                           *)
(***************************************************************************)
Message(api, m, target) ==
    CASE api = SAVE        -> [type |-> SAVE_FILE, m |-> m, target |-> target]
      [] api = EXTRACT_ALL -> [type |-> ALL_MEDIA, m |-> m, target |-> EmptyPath]
      [] OTHER             -> [type |-> DB_INSERT, m |-> m, target |-> EmptyPath]

Arguments ==
    {<<EXTRACT_ALL, EmptyPath, EmptyPath>>}
    \cup ({FROM_DB, WITH_SIZE, ASYNC} \X Media \X {EmptyPath})
    \cup ({SAVE} \X Media \X SavePaths)

\* The function returns without having opened a socket.
GiveUp(c, result, user_data, api, m) ==
    /\ call' = [call EXCEPT ![c] = [NewCall EXCEPT !.api = api, !.m = m,
                                       !.ret = result, !.user_data = user_data]]
    /\ state' = [state EXCEPT ![c] = "returned"]
    /\ UNCHANGED <<serverVars, fd, watch, ready>>

(***************************************************************************)
(* The checks of media-thumbnail.c; the asynchronous function allocates    *)
(* its user data before the last of them and forgets it.  Then socket().   *)
(***************************************************************************)
Reject(c, api, m) ==
    \/ /\ "reject" \in Faults /\ api # EXTRACT_ALL
       /\ \E data \in (IF api = ASYNC THEN {"none", "live"} ELSE {"none"}) :
             GiveUp(c, "INVALID_PARAMETER", data, api, m)
    \/ /\ "socket" \in Faults
       /\ GiveUp(c, "NETWORK", IF api = ASYNC THEN "live" ELSE "none", api, m)

\* setsockopt fails: the descriptor stays open
NoTimeout(c, api, m) ==
    /\ "setsockopt" \in Faults
    /\ fd' = [fd EXCEPT ![c] = Lowest(c)]
    /\ csock' = [csock EXCEPT ![c] = Waiting]
    /\ call' = [call EXCEPT ![c] = [NewCall EXCEPT
                   !.api = api, !.m = m, !.ret = "NETWORK",
                   !.user_data = IF api = ASYNC THEN "live" ELSE "none"]]
    /\ state' = [state EXCEPT ![c] = "returned"]
    /\ UNCHANGED <<storeVars, jobVars, up, sock, peer, queueVars, loopVars,
                   watch, ready>>

(***************************************************************************)
(* _media_thumb_request up to its recvfrom.                                *)
(***************************************************************************)
RequestSync(c, api, m, target) ==
    \/ /\ Ask(c, Message(api, m, target))
       /\ fd' = [fd EXCEPT ![c] = Lowest(c)]
       /\ call' = [call EXCEPT ![c] = [NewCall EXCEPT !.api = api, !.m = m]]
       /\ state' = [state EXCEPT ![c] = "blocked"]
       /\ UNCHANGED <<watch, ready>>
    \/ /\ "sendto" \in Faults
       /\ GiveUp(c, "NETWORK", "none", api, m)

(***************************************************************************)
(* _media_thumb_request_async.  The watch is added before sendto; when     *)
(* that fails the channel is shut down, which closes the descriptor, but   *)
(* the watch and the user data stay.                                       *)
(***************************************************************************)
RequestAsync(c, m) ==
    /\ watch' = [watch EXCEPT ![c] = Lowest(c)]
    /\ state' = [state EXCEPT ![c] = "returned"]
    /\ LET Returns(result) ==
              call' = [call EXCEPT ![c] = [NewCall EXCEPT
                         !.api = ASYNC, !.m = m, !.ret = result,
                         !.user_data = "live"]]
       IN \/ /\ Ask(c, Message(ASYNC, m, EmptyPath))
             /\ fd' = [fd EXCEPT ![c] = Lowest(c)]
             /\ Returns("NONE")
          \/ /\ "sendto" \in Faults
             /\ Returns("NETWORK")
             /\ UNCHANGED <<serverVars, fd>>
    /\ UNCHANGED ready

Start(c) ==
    /\ state[c] = "new" /\ Free(c)
    /\ \E args \in Arguments :
          LET api == args[1]  m == args[2]  target == args[3] IN
          \/ Reject(c, api, m)
          \/ NoTimeout(c, api, m)
          \/ api # ASYNC /\ RequestSync(c, api, m, target)
          \/ api = ASYNC /\ RequestAsync(c, m)

(***************************************************************************)
(* The end of _media_thumb_request.  close(sock) drops what may still come *)
(* for this request.  The length compared with the caller's buffer is that *)
(* of org_path, which the server never sets: any buffer but one of         *)
(* MAX_PATH_SIZE may be refused.                                           *)
(***************************************************************************)
Close(c) ==
    /\ fd' = [fd EXCEPT ![c] = 0]
    /\ csock' = [csock EXCEPT ![c] = Closed]

Returned(c, result, path) ==
    /\ call' = [call EXCEPT ![c].ret = result, ![c].path = path]
    /\ state' = [state EXCEPT ![c] = "returned"]
    /\ UNCHANGED <<storeVars, jobVars, up, sock, peer, queueVars, loopVars,
                   watch, ready>>

Copied(path) == IF path \in LongPaths THEN Cut ELSE path

Receive(c) ==
    /\ state[c] = "blocked" /\ csock[c] \in Answers
    /\ Close(c)
    /\ LET answer == csock[c]
           wantsPath == call[c].api \in {FROM_DB, WITH_SIZE}
       IN \/ /\ wantsPath
             /\ Returned(c, "INVALID_PARAMETER", NoPath)
          \/ /\ answer.status = FAIL
             /\ Returned(c, "FAILED", NoPath)
          \/ /\ answer.status = SUCCESS
             /\ Returned(c, "NONE",
                         IF wantsPath THEN Copied(answer.dst) ELSE NoPath)

\* Mutant of TimeoutCloses: the descriptor is forgotten.
TimeoutLeaks(c) == UNCHANGED <<fd, csock>>

TimeoutCloses(c) == Close(c)

\* SO_RCVTIMEO passed and nothing came
Timeout(c) ==
    /\ state[c] = "blocked" /\ csock[c] = Waiting
    /\ TimeoutCloses(c)
    /\ Returned(c, "TIMEOUT", NoPath)

\* recvfrom fails in any other way, or what it returns is not from the
\* server's address
ReceiveFails(c) ==
    /\ state[c] = "blocked"
    /\ {"recvfrom", "foreign"} \cap Faults # {}
    /\ Close(c)
    /\ Returned(c, "NETWORK", NoPath)

(***************************************************************************)
(* The main loop of an application: an iteration finds the watches whose   *)
(* descriptors are readable and calls them one after the other.            *)
(***************************************************************************)
Readable(c) ==
    /\ watch[c] # 0
    /\ \E d \in Mates(c) : fd[d] = watch[c] /\ csock[d] \in Answers

PollWatches(c) ==
    /\ Free(c) /\ Readable(c)
    /\ ready \cap Mates(c) = {}
    /\ ready' = ready \cup {d \in Mates(c) : Readable(d)}
    /\ UNCHANGED <<serverVars, state, call, fd, watch>>

(***************************************************************************)
(* _media_thumb_write_socket.  It reads from the descriptor number of the  *)
(* watch, whoever has it now, shuts the channel down, which closes that    *)
(* number, calls the user's function and frees the user data.              *)
(***************************************************************************)
\* Mutant of CalledBack: the watch is kept, as if TRUE were returned.
CalledBackKept(c, result, path) ==
    /\ call' = [call EXCEPT ![c].cb = result, ![c].path = path,
                            ![c].user_data = "freed"]
    /\ ready' = ready \ {c}
    /\ UNCHANGED <<storeVars, jobVars, up, sock, peer, queueVars, loopVars,
                   state, watch>>

CalledBack(c, result, path) ==
    /\ call' = [call EXCEPT ![c].cb = result, ![c].path = path,
                            ![c].user_data = "freed"]
    /\ watch' = [watch EXCEPT ![c] = 0]
    /\ ready' = ready \ {c}
    /\ UNCHANGED <<storeVars, jobVars, up, sock, peer, queueVars, loopVars, state>>

WriteSocket(c) ==
    /\ c \in ready /\ Free(c)
    /\ \/ \E d \in Mates(c) :
             /\ fd[d] = watch[c]
             /\ Close(d)
             /\ \/ IF csock[d] = Waiting
                   THEN CalledBack(c, "TIMEOUT", EmptyPath)
                   ELSE CalledBack(c, IF csock[d].status = FAIL
                                      THEN "UNSUPPORTED" ELSE "NONE", csock[d].dst)
                \/ /\ "recvfrom" \in Faults
                   /\ CalledBack(c, "NETWORK", EmptyPath)
       \/ /\ \A d \in Mates(c) : fd[d] # watch[c]
          /\ CalledBack(c, "NETWORK", EmptyPath)
          /\ UNCHANGED <<fd, csock>>

ClientStep(c) ==
    \/ Receive(c) \/ Timeout(c) \/ ReceiveFails(c)
    \/ PollWatches(c) \/ WriteSocket(c)

-----------------------------------------------------------------------------
IpcInit ==
    /\ ServerInit
    /\ state = [c \in Clients |-> "new"]
    /\ call = [c \in Clients |-> NewCall]
    /\ fd = [c \in Clients |-> 0]
    /\ watch = [c \in Clients |-> 0]
    /\ ready = {}

IpcNext ==
    \/ \E c \in Clients : Start(c) \/ ClientStep(c)
    \/ (ServerStep \/ Failure \/ Environment) /\ UNCHANGED ipcVars

IpcSpec == IpcInit /\ [][IpcNext]_ipcSpecVars

(***************************************************************************)
(* recvfrom returns or times out; an application runs its main loop; the   *)
(* server's thread runs.                                                   *)
(***************************************************************************)
FairIpcSpec ==
    /\ IpcSpec
    /\ WF_ipcSpecVars(ServerStep /\ UNCHANGED ipcVars)
    /\ \A c \in Clients : WF_ipcSpecVars(ClientStep(c))

-----------------------------------------------------------------------------
(***************************************************************************)
(* Properties                                                              *)
(***************************************************************************)
IpcOK == ServerOK /\ IpcTypeOK

OwnPaths(c) ==
    {NoPath, EmptyPath, Cut, DefaultPath}
    \cup (IF call[c].m \in Media THEN {hash_name(call[c].m)} ELSE {})

\* What a call returns or hands to its callback is for the original it was
\* about: a late answer, another call's timeout, or a descriptor used again
\* never crosses two requests of the same applications.
ResultOwn == \A c \in Clients : call[c].path \in OwnPaths(c)

\* A call that failed and yet left a watch, called back since or not.
LeftWatch(c) == call[c].ret = "NETWORK" /\ (watch[c] # 0 \/ call[c].cb # NoResult)

\* The same whatever system calls fail, for applications none of whose
\* asynchronous requests failed: those leave a watch behind.
OwnUnlessLeft ==
    \A c \in Clients :
       call[c].path \in OwnPaths(c) \/ \E d \in Mates(c) : LeftWatch(d)

\* A call that is over has no descriptor left open.
DescriptorsClosed ==
    \A c \in Clients :
       /\ state[c] = "returned"
       /\ call[c].api # ASYNC \/ call[c].ret # "NONE" \/ call[c].cb # NoResult
       => fd[c] = 0

\* An asynchronous request that the server has received is called back
\* unless the server goes down: its answer is neither lost, nor sent to whoever
\* asked last, nor taken by another call of the application.
AsyncAnswered ==
    \A c \in Clients :
       (call[c].api = ASYNC /\ \E i \in 1 .. Len(sock) : sock[i].from = c)
          ~> (call[c].cb # NoResult \/ up # "running")

(***************************************************************************)
(* The calls as an abstract service.  An asynchronous request is pending   *)
(* until its callback, unless the function itself returned an error.       *)
(***************************************************************************)
Phase ==
    [c \in Clients |->
       IF state[c] = "new" THEN "new"
       ELSE IF \/ state[c] = "blocked"
               \/ call[c].api = ASYNC /\ call[c].ret = "NONE"
                     /\ call[c].cb = NoResult
       THEN "pending" ELSE "done"]

Outcome ==
    [c \in Clients |->
       IF Phase[c] # "done" THEN NoResult
       ELSE IF call[c].cb # NoResult THEN call[c].cb ELSE call[c].ret]

Service ==
    INSTANCE ThumbService WITH
       Calls <- Clients, phase <- Phase, outcome <- Outcome,
       blocking <- [c \in Clients |-> call[c].api # ASYNC]

ServiceSpec == Service!Spec
=============================================================================
