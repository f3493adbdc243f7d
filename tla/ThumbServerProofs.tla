------------------------- MODULE ThumbServerProofs --------------------------
(***************************************************************************)
(* Proofs about ThumbServer, for any clients, originals, size of the       *)
(* socket and set of faults: the server implements ThumbJob, so that what  *)
(* is proved of single jobs holds of the server; its extract-all array is  *)
(* never used after it is freed; no path is left without a source; and its *)
(* extract-all queue implements ExtractQueue.                              *)
(***************************************************************************)
EXTENDS ThumbServer, ThumbJobProofs, FiniteSetTheorems, SequenceTheorems

(***************************************************************************)
(* An iteration calls no more idle sources than there are: each call       *)
(* destroys at most the source it is made for.                             *)
(***************************************************************************)
SourcesCalled == dispatch <= idle

LoopInv == ServerTypeOK /\ ArrayLive /\ NoStrandedWork /\ SourcesCalled

ServerInv == JobInv /\ LoopInv

-----------------------------------------------------------------------------
(***************************************************************************)
(* Every step of the server is a step of a job or leaves it alone.         *)
(***************************************************************************)
LEMMA ReadIsBegin ==
  ASSUME ServerTypeOK, ReadRequest
  PROVE  BeginAny
  <1> DEFINE req == Head(sock).req
  <1>1. req \in ServerRequests
    <2>1. sock \in Seq(Datagrams) /\ sock # <<>>
      BY DEF ServerTypeOK, ReadRequest
    <2>2. Head(sock) \in Datagrams
      BY <2>1
    <2> QED
      BY <2>2 DEF Datagrams
  <1>2. req.type # ALL_MEDIA /\ job' \in RequestedJobs(req)
    BY DEF ReadRequest
  <1>3. req \in Requests
    BY <1>1, <1>2 DEF ServerRequests
  <1>4. Begin(job')
    BY DEF ReadRequest, Polling, Begin
  <1> QED
    BY <1>2, <1>3, <1>4 DEF BeginAny

LEMMA TakeIsBegin ==
  ASSUME ServerTypeOK, ArrayLive, TakePath
  PROVE  BeginAny
  <1>1. arr_path[g_cur_idx + 1] \in Media
    BY DEF ServerTypeOK, ArrayLive, TakePath
  <1>2. Begin(QueuedJob(arr_path[g_cur_idx + 1]))
    BY DEF TakePath, Dispatching, Begin
  <1> QED
    BY <1>1, <1>2 DEF BeginAny

LEMMA PollIsStart ==
  ASSUME JobTypeOK, PollIdle
  PROVE  StartJobs \/ UNCHANGED jobSpecVars
  <1>1. UNCHANGED <<storeVars, job, conns>> /\ job = NoJob /\ evas' = TRUE
    BY DEF PollIdle, Polling
  <1>2. CASE evas = TRUE
    BY <1>1, <1>2 DEF jobSpecVars, jobVars
  <1>3. CASE evas = FALSE
    BY <1>1, <1>3 DEF StartJobs
  <1>4. evas = TRUE \/ evas = FALSE
    BY Zenon DEF JobTypeOK
  <1> QED
    BY <1>2, <1>3, <1>4

LEMMA ServerRefinesStep ==
  ASSUME JobTypeOK, ServerTypeOK, ArrayLive, [ServerNext]_serverVars
  PROVE  [JobNext]_jobSpecVars
  <1>1. ASSUME NEW c \in Clients, NEW req \in ServerRequests, Ask(c, req)
        PROVE  UNCHANGED jobSpecVars
    BY <1>1 DEF Ask, jobSpecVars
  <1>2. CASE ReadRequest
    BY <1>2, ReadIsBegin DEF JobNext
  <1>3. CASE ReadExtractAll
    BY <1>3 DEF ReadExtractAll, jobSpecVars
  <1>4. CASE Reply
    BY <1>4 DEF Reply, EndRequested, JobNext
  <1>5. CASE PollIdle
    BY <1>5, PollIsStart DEF JobNext
  <1>6. CASE TakePath
    BY <1>6, TakeIsBegin DEF JobNext
  <1>7. CASE DeleteArray
    BY <1>7 DEF DeleteArray, JobNext, jobSpecVars
  <1>8. CASE RunJob
    BY <1>8 DEF RunJob, JobNext
  <1>9. CASE Failure
    BY <1>9
    DEF Failure, PowerOff, ServerCrash, ServerPowerCut, Boot, JobNext,
        jobSpecVars
  <1>10. CASE Environment
    BY <1>10 DEF Environment, JobNext
  <1>11. CASE UNCHANGED serverVars
    BY <1>11 DEF serverVars, jobSpecVars
  <1> QED
    BY <1>1, <1>2, <1>3, <1>4, <1>5, <1>6, <1>7, <1>8, <1>9, <1>10, <1>11
    DEF ServerNext, ServerStep

-----------------------------------------------------------------------------
(***************************************************************************)
(* The queue and the main loop.                                            *)
(***************************************************************************)

\* The rows of a query, however many of them are read, are originals.
LEMMA BatchesAreSequences ==
  ASSUME NEW batch \in Batches
  PROVE  batch \in Seq(Media)
  <1>1. ASSUME NEW S \in SUBSET Media, batch \in Orders(S)
        PROVE  batch \in Seq(Media)
    <2>1. IsFiniteSet(S)
      BY FS_Subset, ServerAssumption
    <2>2. Cardinality(S) \in Nat
      BY <2>1, FS_CardinalityType
    <2>3. batch \in [1 .. Cardinality(S) -> Media]
      BY <1>1 DEF Orders
    <2> QED
      BY <2>2, <2>3
  <1>2. CASE batch = <<>>
    BY <1>2
  <1>3. Unextracted \in SUBSET Media
    BY DEF Unextracted
  <1>4. CASE batch \in UNION {Orders(S) : S \in SUBSET Unextracted}
    <2>1. PICK S \in SUBSET Unextracted : batch \in Orders(S)
      BY <1>4
    <2> QED
      BY <2>1, <1>1, <1>3
  <1> QED
    BY <1>1, <1>2, <1>3, <1>4 DEF Batches

\* An answer in a client's socket leaves the sockets well-typed.
LEMMA AnsweredTyped ==
  ASSUME ServerTypeOK, NEW c, NEW answer \in Answers, Answered(c, answer)
  PROVE  csock' \in [Clients -> Answers \cup {Closed, Waiting}]
  BY DEF ServerTypeOK, Answered

\* The end of the process leaves an empty queue and loop.
LEMMA GoneKeeps ==
  ASSUME LoopInv, NEW how \in {"off", "aborted"}, ServerGone(how)
  PROVE  LoopInv'
  BY DEF LoopInv, ServerTypeOK, ArrayLive, NoStrandedWork, SourcesCalled,
         ServerGone

\* Steps that touch neither the queue nor the loop.
LEMMA LoopUnchanged ==
  ASSUME LoopInv, UNCHANGED <<queueVars, loopVars>>,
         up' \in {"running", "off", "aborted"},
         sock' \in Seq(Datagrams),
         peer' \in Clients \cup {Nobody},
         csock' \in [Clients -> Answers \cup {Closed, Waiting}]
  PROVE  LoopInv'
  BY DEF LoopInv, ServerTypeOK, ArrayLive, NoStrandedWork, SourcesCalled,
         queueVars, loopVars

LEMMA AskKeeps ==
  ASSUME LoopInv, NEW c \in Clients, NEW req \in ServerRequests, Ask(c, req)
  PROVE  LoopInv'
  <1>1. [from |-> c, req |-> req] \in Datagrams
    BY DEF Datagrams
  <1>2. /\ sock \in Seq(Datagrams)
        /\ csock \in [Clients -> Answers \cup {Closed, Waiting}]
        /\ up \in {"running", "off", "aborted"}
        /\ peer \in Clients \cup {Nobody}
    BY DEF LoopInv, ServerTypeOK
  <1>3. sock' \in Seq(Datagrams)
    BY <1>1, <1>2 DEF Ask, Received
  <1>4. csock' \in [Clients -> Answers \cup {Closed, Waiting}]
    BY <1>2 DEF Ask
  <1> QED
    BY <1>2, <1>3, <1>4, LoopUnchanged DEF Ask

LEMMA ReadRequestKeeps ==
  ASSUME LoopInv, ReadRequest
  PROVE  LoopInv'
  <1>1. /\ sock \in Seq(Datagrams) /\ sock # <<>>
        /\ csock \in [Clients -> Answers \cup {Closed, Waiting}]
        /\ up \in {"running", "off", "aborted"}
    BY DEF LoopInv, ServerTypeOK, ReadRequest
  <1>2. Head(sock) \in Datagrams /\ Tail(sock) \in Seq(Datagrams)
    BY <1>1
  <1>3. Head(sock).from \in Clients
    BY <1>2 DEF Datagrams
  <1> QED
    BY <1>1, <1>2, <1>3, LoopUnchanged DEF ReadRequest

LEMMA ReplyKeeps ==
  ASSUME Locals, LoopInv, Reply
  PROVE  LoopInv'
  <1> DEFINE answer == [status |-> Status, dst |-> job.dst,
                        width |-> job.width, height |-> job.height]
  <1>1. job \in Job
    BY Running DEF Reply
  <1>2. /\ job.dst \in Paths \cup {EmptyPath}
        /\ job.width \in Dim /\ job.height \in Dim
    BY <1>1 DEF Job
  <1>3. answer \in Answers
    BY <1>2 DEF Answers, Status
  <1>4. csock' \in [Clients -> Answers \cup {Closed, Waiting}]
    BY <1>3, AnsweredTyped DEF LoopInv, Reply
  <1>5. /\ sock \in Seq(Datagrams)
        /\ up \in {"running", "off", "aborted"}
    BY DEF LoopInv, ServerTypeOK
  <1> QED
    BY <1>4, <1>5, LoopUnchanged DEF Reply

LEMMA ReadExtractAllKeeps ==
  ASSUME LoopInv, ReadExtractAll
  PROVE  LoopInv'
  <1>1. /\ sock \in Seq(Datagrams) /\ sock # <<>>
        /\ arr_path \in Seq(Media)
        /\ g_idx \in Nat /\ g_cur_idx \in Nat
        /\ idle \in Nat /\ dispatch \in Nat
        /\ heap \in {"null", "live", "freed"}
    BY DEF LoopInv, ServerTypeOK, ReadExtractAll
  <1>2. Tail(sock) \in Seq(Datagrams)
    BY <1>1
  <1>3. csock' \in [Clients -> Answers \cup {Closed, Waiting}]
    <2>1. PICK status \in {SUCCESS, FAIL}, w \in {0, Junk}, h \in {0, Junk} :
             Answered(Head(sock).from, [status |-> status, dst |-> EmptyPath,
                                        width |-> w, height |-> h])
      BY DEF ReadExtractAll
    <2>2. [status |-> status, dst |-> EmptyPath,
           width |-> w, height |-> h] \in Answers
      BY DEF Answers, Dim
    <2> QED
      BY <2>1, <2>2, AnsweredTyped DEF LoopInv
  <1>4. PICK batch \in Batches : AllExtract(batch)
    BY DEF ReadExtractAll
  <1>5. batch \in Seq(Media)
    BY BatchesAreSequences
  <1>6. /\ g_idx' = Len(arr_path') /\ g_cur_idx' <= g_idx'
        /\ g_idx' > 0 => heap' = "live"
        /\ arr_path' \in Seq(Media)
        /\ g_idx' \in Nat /\ g_cur_idx' \in Nat
        /\ heap' \in {"null", "live", "freed"}
    <2>1. CASE batch = <<>>
      BY <1>1, <1>4, <2>1 DEF AllExtract, LoopInv, ArrayLive, queueVars
    <2>2. CASE batch # <<>>
      <3>1. /\ arr_path' = IF g_idx = 0 THEN batch ELSE arr_path \o batch
            /\ heap' = "live" /\ g_idx' = g_idx + Len(batch)
            /\ g_cur_idx' = g_cur_idx
        BY <1>4, <2>2 DEF AllExtract, Extended
      <3>2. g_idx = Len(arr_path) /\ g_cur_idx <= g_idx
        BY DEF LoopInv, ArrayLive
      <3>3. Len(batch) \in Nat /\ Len(arr_path \o batch) = g_idx + Len(batch)
        BY <1>1, <1>5, <3>2
      <3>4. arr_path \o batch \in Seq(Media)
        BY <1>1, <1>5
      <3> QED
        BY <1>1, <1>5, <3>1, <3>2, <3>3, <3>4
    <2> QED
      BY <2>1, <2>2
  <1>7. idle' = idle + 1 /\ dispatch' = dispatch /\ up' = up /\ peer' = peer
        /\ sock' = Tail(sock)
    BY DEF ReadExtractAll
  <1> QED
    BY <1>1, <1>2, <1>3, <1>6, <1>7
    DEF LoopInv, ServerTypeOK, ArrayLive, NoStrandedWork, SourcesCalled

LEMMA PollIdleKeeps ==
  ASSUME LoopInv, PollIdle
  PROVE  LoopInv'
  BY DEF LoopInv, ServerTypeOK, ArrayLive, NoStrandedWork, SourcesCalled,
         PollIdle, netVars, queueVars

LEMMA TakePathKeeps ==
  ASSUME LoopInv, TakePath
  PROVE  LoopInv'
  BY DEF LoopInv, ServerTypeOK, ArrayLive, NoStrandedWork, SourcesCalled,
         TakePath, Dispatching, KeepSource, netVars

\* A source that finds no path retires.  Both indices are reset, so the
\* other sources find no path either, though the pointer is left dangling.
LEMMA DeleteArrayKeeps ==
  ASSUME LoopInv, DeleteArray
  PROVE  LoopInv'
  <1>1. CASE ServerGone("aborted")
    BY <1>1, GoneKeeps
  <1>2. CASE ~ServerGone("aborted")
    <2>1. /\ g_cur_idx' = 0 /\ g_idx' = 0 /\ arr_path' = <<>>
          /\ heap' = IF heap = "null" THEN "null" ELSE "freed"
          /\ idle' = idle - 1 /\ dispatch' = dispatch - 1
          /\ UNCHANGED <<up, sock, peer, csock>>
      BY <1>2 DEF DeleteArray, ResetIndices, netVars
    <2>2. dispatch > 0
      BY DEF DeleteArray, Dispatching
    <2>3. ServerTypeOK /\ dispatch <= idle
      BY DEF LoopInv, SourcesCalled
    <2>4. ServerTypeOK' /\ SourcesCalled'
      BY <2>1, <2>2, <2>3 DEF ServerTypeOK, SourcesCalled
    <2>5. ArrayLive' /\ NoStrandedWork'
      BY <2>1 DEF ArrayLive, NoStrandedWork
    <2> QED
      BY <2>4, <2>5 DEF LoopInv
  <1> QED
    BY <1>1, <1>2

LEMMA QuietKeeps ==
  ASSUME LoopInv, UNCHANGED <<netVars, queueVars, loopVars>>,
         up' \in {up, "running"}
  PROVE  LoopInv'
  BY LoopUnchanged DEF LoopInv, ServerTypeOK, netVars

LEMMA FailureKeeps ==
  ASSUME LoopInv, Failure
  PROVE  LoopInv'
  <1>1. CASE PowerOff
    BY <1>1, GoneKeeps DEF PowerOff
  <1>2. CASE ServerCrash
    BY <1>2, GoneKeeps DEF ServerCrash
  <1>3. CASE ServerPowerCut
    BY <1>3, GoneKeeps DEF ServerPowerCut
  <1>4. CASE Boot
    BY <1>4, QuietKeeps DEF Boot
  <1> QED
    BY <1>1, <1>2, <1>3, <1>4 DEF Failure

LEMMA LoopKeeps ==
  ASSUME Locals, LoopInv, [ServerNext]_serverVars
  PROVE  LoopInv'
  <1>1. ASSUME NEW c \in Clients, NEW req \in ServerRequests, Ask(c, req)
        PROVE  LoopInv'
    BY <1>1, AskKeeps
  <1>2. CASE ReadRequest
    BY <1>2, ReadRequestKeeps
  <1>3. CASE ReadExtractAll
    BY <1>3, ReadExtractAllKeeps
  <1>4. CASE Reply
    BY <1>4, ReplyKeeps
  <1>5. CASE PollIdle
    BY <1>5, PollIdleKeeps
  <1>6. CASE TakePath
    BY <1>6, TakePathKeeps
  <1>7. CASE DeleteArray
    BY <1>7, DeleteArrayKeeps
  <1>8. CASE RunJob
    BY <1>8, QuietKeeps DEF RunJob
  <1>9. CASE Failure
    BY <1>9, FailureKeeps
  <1>10. CASE Environment
    BY <1>10, QuietKeeps DEF Environment
  <1>11. CASE UNCHANGED serverVars
    BY <1>11, QuietKeeps DEF serverVars
  <1> QED
    BY <1>1, <1>2, <1>3, <1>4, <1>5, <1>6, <1>7, <1>8, <1>9, <1>10, <1>11
    DEF ServerNext, ServerStep

-----------------------------------------------------------------------------
LEMMA ServerInitHolds == ServerInit => JobInit /\ ServerInv
  <1> SUFFICES ASSUME ServerInit PROVE JobInit /\ ServerInv
    OBVIOUS
  <1>1. LoopInv
    BY DEF ServerInit, LoopInv, ServerTypeOK, ArrayLive, NoStrandedWork,
           SourcesCalled
  <1> QED
    BY <1>1, JobInitHolds DEF ServerInit, ServerInv

LEMMA ServerNextKeeps ==
  ServerInv /\ [ServerNext]_serverVars =>
     ServerInv' /\ [JobNext]_jobSpecVars
  <1> SUFFICES ASSUME ServerInv, [ServerNext]_serverVars
               PROVE  ServerInv' /\ [JobNext]_jobSpecVars
    OBVIOUS
  <1>1. [JobNext]_jobSpecVars
    BY ServerRefinesStep DEF ServerInv, JobInv, Locals, LoopInv
  <1>2. JobInv'
    BY <1>1, JobNextKeeps DEF ServerInv
  <1>3. LoopInv'
    BY LoopKeeps DEF ServerInv, JobInv
  <1> QED
    BY <1>1, <1>2, <1>3 DEF ServerInv

\* ServerInv is an invariant of the server.
THEOREM ServerInvariant == ServerSpec => []ServerInv
  BY ServerInitHolds, ServerNextKeeps, PTL DEF ServerSpec

\* The server implements ThumbJob: whatever its main loop, queue and clients
\* do, its jobs run one at a time, as ThumbJob describes them.
THEOREM ServerImplementsJob == ServerSpec => JobSpec
  BY ServerInvariant, ServerInitHolds, ServerNextKeeps, PTL
  DEF ServerSpec, JobSpec

\* All of the server's variables always have their types.
THEOREM ServerTyped == ServerSpec => []ServerOK
  <1>1. ServerInv => ServerOK
    BY DEF ServerInv, ServerOK, JobInv, Stores, Locals, LoopInv, TypeOK
  <1> QED
    BY <1>1, ServerInvariant, PTL

\* The extract-all array is live and long enough wherever it is indexed or
\* extended, however many sources share it.
THEOREM ServerArrayLive == ServerSpec => []ArrayLive
  <1>1. ServerInv => ArrayLive
    BY DEF ServerInv, LoopInv
  <1> QED
    BY <1>1, ServerInvariant, PTL

\* A path in the queue always has an idle source to work it.
THEOREM ServerNoStrandedWork == ServerSpec => []NoStrandedWork
  <1>1. ServerInv => NoStrandedWork
    BY DEF ServerInv, LoopInv
  <1> QED
    BY <1>1, ServerInvariant, PTL

(***************************************************************************)
(* The queue: however many requests share them, the array, the two indices *)
(* and the idle sources behave as one sequence of paths and a number of    *)
(* workers.                                                                *)
(***************************************************************************)
\* Between the indices the array is the sequence of paths still to do.
BetweenIndices ==
    /\ Todo \in Seq(Media) /\ Len(Todo) = g_idx - g_cur_idx
    /\ \A i \in 1 .. g_idx - g_cur_idx : Todo[i] = arr_path[g_cur_idx + i]
    /\ g_cur_idx = g_idx => Todo = <<>>

LEMMA TodoIs == LoopInv => BetweenIndices
  <1> SUFFICES ASSUME LoopInv PROVE BetweenIndices
    OBVIOUS
  <1>1. /\ arr_path \in Seq(Media) /\ g_idx \in Nat /\ g_cur_idx \in Nat
        /\ g_cur_idx <= g_idx /\ g_idx = Len(arr_path)
    BY DEF LoopInv, ServerTypeOK, ArrayLive
  <1>2. \A i \in g_cur_idx + 1 .. g_idx : arr_path[i] \in Media
    BY <1>1
  <1>3. /\ SubSeq(arr_path, g_cur_idx + 1, g_idx) \in Seq(Media)
        /\ Len(SubSeq(arr_path, g_cur_idx + 1, g_idx)) =
              IF g_cur_idx + 1 <= g_idx THEN g_idx - (g_cur_idx + 1) + 1 ELSE 0
        /\ \A i \in 1 .. g_idx - (g_cur_idx + 1) + 1 :
              SubSeq(arr_path, g_cur_idx + 1, g_idx)[i] = arr_path[g_cur_idx + 1 + i - 1]
    <2>1. g_cur_idx + 1 \in Int /\ g_idx \in Int
      BY <1>1
    <2> QED
      BY <1>2, <2>1, SubSeqProperties
  <1>4. g_idx - (g_cur_idx + 1) + 1 = g_idx - g_cur_idx
    BY <1>1
  <1>5. \A i \in 1 .. g_idx - g_cur_idx : g_cur_idx + 1 + i - 1 = g_cur_idx + i
    BY <1>1
  <1> QED
    BY <1>1, <1>3, <1>4, <1>5 DEF Todo, BetweenIndices

\* The rows of a query, as a batch of the abstract queue.
LEMMA BatchIsBatch ==
  ASSUME NEW batch \in Batches
  PROVE  batch \in Queue!Batch
  <1> DEFINE N == Cardinality(Media)
  <1>1. N \in Nat
    BY ServerAssumption, FS_CardinalityType
  <1>2. ASSUME NEW n \in 0 .. N, batch \in [1 .. n -> Media],
               \A i, j \in 1 .. n : batch[i] = batch[j] => i = j
        PROVE  batch \in Queue!Batch
    <2>1. batch \in UNION {[1 .. k -> Media] : k \in 0 .. N}
      BY <1>2
    <2>2. DOMAIN batch = 1 .. n
      BY <1>2
    <2>3. Queue!Cardinality(Media) = N
      BY Zenon DEF Queue!Cardinality, Cardinality
    <2> QED
      BY <1>2, <2>1, <2>2, <2>3 DEF Queue!Batch
  <1>3. ASSUME NEW S \in SUBSET Media, batch \in Orders(S)
        PROVE  batch \in Queue!Batch
    <2>1. IsFiniteSet(S) /\ Cardinality(S) <= N
      BY FS_Subset, ServerAssumption
    <2>2. Cardinality(S) \in 0 .. N
      BY <1>1, <2>1, FS_CardinalityType
    <2>3. /\ batch \in [1 .. Cardinality(S) -> Media]
          /\ \A i, j \in 1 .. Cardinality(S) : batch[i] = batch[j] => i = j
      BY <1>3 DEF Orders
    <2> QED
      BY <1>2, <2>2, <2>3
  <1>4. CASE batch = <<>>
    <2>1. batch \in [1 .. 0 -> Media] /\ 0 \in 0 .. N
      BY <1>1, <1>4
    <2> QED
      BY <1>2, <2>1
  <1>5. Unextracted \in SUBSET Media
    BY DEF Unextracted
  <1>6. CASE batch \in UNION {Orders(S) : S \in SUBSET Unextracted}
    <2>1. PICK S \in SUBSET Unextracted : batch \in Orders(S)
      BY <1>6
    <2> QED
      BY <2>1, <1>3, <1>5
  <1> QED
    BY <1>3, <1>4, <1>5, <1>6 DEF Batches

\* A batch goes to the end of the paths to do, whether the array is made for
\* it or grown.
LEMMA ExtendsTodo ==
  ASSUME LoopInv, ReadExtractAll, NEW batch \in Batches, AllExtract(batch)
  PROVE  Todo' = Todo \o batch
  <1>1. /\ arr_path \in Seq(Media) /\ g_idx \in Nat /\ g_cur_idx \in Nat
        /\ g_cur_idx <= g_idx /\ g_idx = Len(arr_path)
    BY DEF LoopInv, ServerTypeOK, ArrayLive
  <1>2. batch \in Seq(Media) /\ Len(batch) \in Nat
    BY BatchesAreSequences
  <1>3. LoopInv'
    BY ReadExtractAllKeeps
  <1>4. /\ Todo \in Seq(Media) /\ Len(Todo) = g_idx - g_cur_idx
        /\ \A i \in 1 .. g_idx - g_cur_idx : Todo[i] = arr_path[g_cur_idx + i]
    BY TodoIs DEF BetweenIndices
  <1>5. /\ Todo' \in Seq(Media) /\ Len(Todo') = g_idx' - g_cur_idx'
        /\ \A i \in 1 .. g_idx' - g_cur_idx' : Todo'[i] = arr_path'[g_cur_idx' + i]
    <2>1. BetweenIndices'
      BY <1>3, TodoIs, PTL
    <2> QED
      BY <2>1 DEF BetweenIndices
  <1>6. CASE batch = <<>>
    <2>1. Todo' = Todo
      BY <1>6 DEF AllExtract, queueVars, Todo
    <2> QED
      BY <1>4, <1>6, <2>1, ConcatEmptySeq
  <1>7. CASE batch # <<>>
    <2>1. /\ arr_path' = IF g_idx = 0 THEN batch ELSE arr_path \o batch
          /\ g_idx' = g_idx + Len(batch) /\ g_cur_idx' = g_cur_idx
      BY <1>7 DEF AllExtract, Extended
    <2>2. /\ Todo \o batch \in Seq(Media)
          /\ Len(Todo \o batch) = g_idx - g_cur_idx + Len(batch)
          /\ \A i \in 1 .. g_idx - g_cur_idx + Len(batch) :
                (Todo \o batch)[i] = IF i <= g_idx - g_cur_idx THEN Todo[i]
                                     ELSE batch[i - (g_idx - g_cur_idx)]
      <3> DEFINE d == g_idx - g_cur_idx
      <3>1. /\ Todo \o batch \in Seq(Media)
            /\ Len(Todo \o batch) = Len(Todo) + Len(batch)
            /\ \A i \in 1 .. Len(Todo) + Len(batch) :
                  (Todo \o batch)[i] = IF i <= Len(Todo) THEN Todo[i]
                                       ELSE batch[i - Len(Todo)]
        BY <1>2, <1>4, ConcatProperties
      <3>2. Len(Todo) = d
        BY <1>4
      <3> HIDE DEF d
      <3>3. /\ Todo \o batch \in Seq(Media)
            /\ Len(Todo \o batch) = d + Len(batch)
            /\ \A i \in 1 .. d + Len(batch) :
                  (Todo \o batch)[i] = IF i <= d THEN Todo[i] ELSE batch[i - d]
        BY <3>1, <3>2, Zenon
      <3> QED
        BY <3>3 DEF d
    <2>3. \A i \in 1 .. g_idx + Len(batch) :
             arr_path'[i] = IF i <= g_idx THEN arr_path[i] ELSE batch[i - g_idx]
      <3>1. CASE g_idx = 0
        BY <1>1, <1>2, <2>1, <3>1
      <3>2. CASE g_idx # 0
        BY <1>1, <1>2, <2>1, <3>2, ConcatProperties
      <3> QED
        BY <3>1, <3>2
    <2>4. Len(Todo') = Len(Todo \o batch)
      BY <1>1, <1>2, <1>5, <2>1, <2>2
    <2>5. ASSUME NEW i \in 1 .. Len(Todo')
          PROVE  Todo'[i] = (Todo \o batch)[i]
      <3>1. /\ i \in 1 .. g_idx - g_cur_idx + Len(batch)
            /\ g_cur_idx + i \in 1 .. g_idx + Len(batch)
        BY <1>1, <1>2, <1>5, <2>1
      <3>2. Todo'[i] = IF g_cur_idx + i <= g_idx THEN arr_path[g_cur_idx + i]
                       ELSE batch[g_cur_idx + i - g_idx]
        BY <1>1, <1>2, <1>5, <2>1, <2>3, <3>1
      <3>3. CASE i <= g_idx - g_cur_idx
        BY <1>1, <1>4, <2>2, <3>1, <3>2, <3>3
      <3>4. CASE ~(i <= g_idx - g_cur_idx)
        <4>1. g_cur_idx + i - g_idx = i - (g_idx - g_cur_idx)
          BY <1>1, <3>1
        <4> QED
          BY <1>1, <2>2, <3>1, <3>2, <3>4, <4>1
      <3> QED
        BY <3>3, <3>4
    <2> QED
      BY <1>5, <2>2, <2>4, <2>5, SeqEqual
  <1> QED
    BY <1>6, <1>7

LEMMA TakesFirst ==
  ASSUME LoopInv, TakePath
  PROVE  Todo # <<>> /\ Todo' = Tail(Todo)
  <1>1. /\ arr_path \in Seq(Media) /\ g_idx \in Nat /\ g_cur_idx \in Nat
        /\ g_idx = Len(arr_path) /\ g_cur_idx < g_idx
    BY DEF LoopInv, ServerTypeOK, ArrayLive, TakePath
  <1>2. Todo # <<>>
    <2>1. Len(Todo) = g_idx - g_cur_idx
      BY TodoIs DEF BetweenIndices
    <2> QED
      BY <1>1, <2>1
  <1>3. Todo' = SubSeq(arr_path, g_cur_idx + 1 + 1, g_idx)
    BY DEF TakePath, Todo
  <1>4. Tail(SubSeq(arr_path, g_cur_idx + 1, g_idx)) =
           SubSeq(arr_path, g_cur_idx + 1 + 1, g_idx)
    <2>1. g_cur_idx + 1 \in 1 .. Len(arr_path) /\ g_idx \in g_cur_idx + 1 .. Len(arr_path)
      BY <1>1
    <2> QED
      BY <1>1, <2>1, HeadTailOfSubSeq
  <1> QED
    BY <1>2, <1>3, <1>4 DEF Todo

\* The last source to find no path finds none at all.
LEMMA RetiresEmpty ==
  ASSUME LoopInv, DeleteArray
  PROVE  Queue!Retire \/ Queue!Lose
  <1>1. CASE ServerGone("aborted")
    <2>1. Todo' = <<>>
      BY <1>1, SubSeqEmpty DEF ServerGone, Todo
    <2> QED
      BY <1>1, <2>1 DEF ServerGone, Queue!Lose
  <1>2. CASE ~ServerGone("aborted")
    <2>1. /\ g_cur_idx' = 0 /\ g_idx' = 0 /\ idle' = idle - 1
      BY <1>2 DEF DeleteArray, ResetIndices
    <2>2. /\ dispatch > 0 /\ idle > 0 /\ g_cur_idx = g_idx
      BY DEF DeleteArray, Dispatching, LoopInv, ServerTypeOK, SourcesCalled, ArrayLive
    <2>3. Todo = <<>>
      BY <2>2, TodoIs DEF BetweenIndices
    <2>4. Todo' = <<>>
      BY <2>1, SubSeqEmpty DEF Todo
    <2> QED
      BY <2>1, <2>2, <2>3, <2>4 DEF Queue!Retire
  <1> QED
    BY <1>1, <1>2

LEMMA GoneLoses ==
  ASSUME NEW how, ServerGone(how)
  PROVE  Queue!Lose
  <1>1. Todo' = <<>>
    BY SubSeqEmpty DEF ServerGone, Todo
  <1> QED
    BY <1>1 DEF ServerGone, Queue!Lose

LEMMA QueueStep ==
  LoopInv /\ [ServerNext]_serverVars => [Queue!Next]_<<Todo, idle>>
  <1> SUFFICES ASSUME LoopInv, [ServerNext]_serverVars
               PROVE  Queue!Next \/ UNCHANGED <<Todo, idle>>
    OBVIOUS
  <1>1. CASE ReadExtractAll
    <2>1. PICK batch \in Batches : AllExtract(batch)
      BY <1>1 DEF ReadExtractAll
    <2>2. Todo' = Todo \o batch /\ batch \in Queue!Batch
      BY <1>1, <2>1, ExtendsTodo, BatchIsBatch
    <2>3. idle' = idle + 1
      BY <1>1 DEF ReadExtractAll
    <2> QED
      BY <2>2, <2>3 DEF Queue!Next, Queue!Enqueue
  <1>2. CASE TakePath
    <2>1. idle > 0 /\ idle' = idle
      BY <1>2 DEF TakePath, Dispatching, KeepSource, LoopInv, ServerTypeOK,
         SourcesCalled
    <2> QED
      BY <1>2, <2>1, TakesFirst DEF Queue!Next, Queue!Take
  <1>3. CASE DeleteArray
    BY <1>3, RetiresEmpty DEF Queue!Next
  <1>4. CASE PowerOff \/ ServerCrash \/ ServerPowerCut
    BY <1>4, GoneLoses DEF PowerOff, ServerCrash, ServerPowerCut, Queue!Next
  <1>5. UNCHANGED <<queueVars, idle>> => UNCHANGED <<Todo, idle>>
    BY DEF queueVars, Todo
  <1>6. ASSUME NEW c \in Clients, NEW req \in ServerRequests, Ask(c, req)
        PROVE  UNCHANGED <<queueVars, idle>>
    BY <1>6 DEF Ask, loopVars
  <1>7. CASE \/ ReadRequest \/ Reply \/ PollIdle \/ RunJob \/ Boot \/ Environment
             \/ UNCHANGED serverVars
    BY <1>5, <1>7
    DEF ReadRequest, Reply, PollIdle, RunJob, Boot, Environment, serverVars, loopVars
  <1> QED
    BY <1>1, <1>2, <1>3, <1>4, <1>5, <1>6, <1>7 DEF ServerNext, ServerStep, Failure

\* Each step of the server maps to a step of ExtractQueue or to none: a path
\* appended is taken once and in order, a source retires only when nothing is
\* left, and paths are lost only with the server.
THEOREM ServerImplementsQueue ==
  ServerSpec => Queue!Init /\ [][Queue!Next]_<<Todo, idle>>
  <1>1. ServerInit => Queue!Init
    <2>1. ServerInit => Todo = <<>>
      BY SubSeqEmpty DEF ServerInit, Todo
    <2> QED
      BY <2>1 DEF ServerInit, Queue!Init
  <1>2. ServerInv => LoopInv
    BY DEF ServerInv
  <1> QED
    BY <1>1, <1>2, QueueStep, ServerInvariant, PTL DEF ServerSpec
=============================================================================
