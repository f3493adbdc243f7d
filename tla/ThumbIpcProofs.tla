--------------------------- MODULE ThumbIpcProofs ---------------------------
(***************************************************************************)
(* Proofs about ThumbIpc, for any applications and calls, originals, size  *)
(* of the server's socket and set of faults: the server among these        *)
(* clients still implements ThumbJob; a call that is over has closed its   *)
(* descriptor; and what a call returns is about its own original.          *)
(***************************************************************************)
EXTENDS ThumbIpc, ThumbServerProofs, WellFoundedInduction

(***************************************************************************)
(* Calls.  One that was not made yet has nothing; a blocking one has no    *)
(* watch and no result; a watch belongs to an asynchronous call, and only  *)
(* watches are called.                                                     *)
(***************************************************************************)
NothingYet(c) ==
    /\ fd[c] = 0 /\ watch[c] = 0 /\ csock[c] = Closed
    /\ call[c] = NewCall

CallStates ==
    \A c \in Clients :
       /\ state[c] = "new" => NothingYet(c)
       /\ state[c] = "blocked" =>
             call[c].api # ASYNC /\ call[c].ret = NoResult /\ watch[c] = 0
       /\ state[c] # "new" => call[c].m \in Media \/ call[c].api = EXTRACT_ALL
       /\ watch[c] # 0 => state[c] = "returned" /\ call[c].api = ASYNC
       /\ c \in ready => watch[c] # 0

(***************************************************************************)
(* Descriptors.  No two calls of an application have the same, an open one *)
(* has its socket, and a watch is for the descriptor of its own call as    *)
(* long as that is open.                                                   *)
(***************************************************************************)
OwnDescriptors ==
    \A c \in Clients :
       /\ fd[c] # 0 => csock[c] # Closed
       /\ watch[c] # 0 /\ fd[c] # 0 => fd[c] = watch[c]
       /\ \A d \in Mates(c) : fd[c] # 0 /\ fd[c] = fd[d] => c = d

(***************************************************************************)
(* Messages.  A datagram, the job made from it and the answer in a client's*)
(* socket are about the original of the call they belong to, if that call  *)
(* takes a path from its answer.                                           *)
(***************************************************************************)
TakesPath(c) == call[c].api \in {FROM_DB, WITH_SIZE, ASYNC}

About(c, type, m) ==
    /\ c \in Clients /\ state[c] # "new"
    /\ TakesPath(c) => type = DB_INSERT /\ m = call[c].m

AnswerAbout(c, dst) ==
    TakesPath(c) => dst \in {EmptyPath, DefaultPath, hash_name(call[c].m)}

DatagramsAbout ==
    \A i \in 1 .. Len(sock) : About(sock[i].from, sock[i].req.type, sock[i].req.m)

JobAbout == job # NoJob /\ ~job.queued => About(peer, job.type, job.m)

AnswersAbout == \A c \in Clients : csock[c] \in Answers => AnswerAbout(c, csock[c].dst)

Messages == DatagramsAbout /\ JobAbout /\ AnswersAbout

(***************************************************************************)
(* Unless a watch was left behind, a call's watch and its descriptor go    *)
(* together, and so no path crosses calls.                                 *)
(***************************************************************************)
Left(c) == \E d \in Mates(c) : LeftWatch(d)

NothingCrosses ==
    \A c \in Clients :
       \/ Left(c)
       \/ /\ watch[c] # 0 => fd[c] = watch[c]
          /\ call[c].path \in OwnPaths(c)

IpcInv ==
    /\ JobInv /\ LoopInv /\ IpcTypeOK
    /\ CallStates /\ OwnDescriptors /\ Messages /\ NothingCrosses

-----------------------------------------------------------------------------
(***************************************************************************)
(* socket() finds a number that is free: there are as many as calls, and   *)
(* the call itself has none yet.                                           *)
(***************************************************************************)
LEMMA LeastNatural ==
  ASSUME NEW S \in SUBSET Nat, S # {}
  PROVE  \E n \in S : \A k \in S : n <= k
  <1>1. PICK n \in S : \A k \in S : ~(<<k, n>> \in OpToRel(<, Nat))
    BY NatLessThanWellFounded, WFMin, Zenon
  <1>2. \A k \in S : <<k, n>> \in OpToRel(<, Nat) <=> k < n
    BY DEF OpToRel
  <1>3. \A k \in S : ~(k < n)
    BY <1>1, <1>2, Zenon
  <1>4. n \in Nat /\ \A k \in S : k \in Nat
    OBVIOUS
  <1> QED
    BY ONLY <1>3, <1>4, n \in S

LEMMA LowestFree ==
  ASSUME IpcTypeOK, NEW c \in Clients, fd[c] = 0
  PROVE  /\ Lowest(c) \in Descriptors
         /\ \A d \in Mates(c) : fd[d] # Lowest(c)
  <1> DEFINE Unused(n) == \A d \in Mates(c) : fd[d] # n
             used == [d \in Clients |-> IF d \in Mates(c) THEN fd[d] ELSE 0]
             N == Cardinality(Clients)
  <1>1. IsFiniteSet(Clients) /\ N \in Nat
    BY IpcAssumption, FS_CardinalityType
  <1>2. c \in Mates(c) /\ Mates(c) \subseteq Clients
    BY DEF Mates
  <1>3. fd \in [Clients -> {0} \cup Descriptors] /\ Descriptors = 1 .. N
    BY DEF IpcTypeOK, Descriptors
  <1>4. \E n \in Descriptors : Unused(n)
    <2>1. SUFFICES ASSUME \A n \in Descriptors : ~Unused(n) PROVE FALSE
      OBVIOUS
    <2>2. used \in [Clients -> 0 .. N]
      BY <1>1, <1>3
    <2>3. \A n \in 0 .. N : \E d \in Clients : used[d] = n
      <3>1. used[c] = 0
        BY <1>2
      <3>2. ASSUME NEW n \in 1 .. N PROVE \E d \in Clients : used[d] = n
        BY <1>2, <1>3, <2>1, <3>2
      <3> QED
        BY <1>1, <3>1, <3>2
    <2>4. used \in Surjection(Clients, 0 .. N)
      BY <2>2, <2>3 DEF Surjection
    <2>5. Cardinality(0 .. N) <= N
      BY <1>1, <2>4, FS_Surjection
    <2>6. Cardinality(0 .. N) = N + 1
      BY <1>1, FS_Interval
    <2> QED
      BY <1>1, <2>5, <2>6
  <1>5. PICK n \in Descriptors : Unused(n) /\ \A k \in Descriptors : Unused(k) => n <= k
    <2> DEFINE free == {n \in Descriptors : Unused(n)}
    <2>1. free \in SUBSET Nat /\ free # {}
      BY <1>1, <1>3, <1>4
    <2>2. PICK n \in free : \A k \in free : n <= k
      BY <2>1, LeastNatural
    <2> QED
      BY <2>2
  <1>6. \A k \in 1 .. n - 1 : \E d \in Mates(c) : fd[d] = k
    BY <1>1, <1>3, <1>5
  <1> QED
    BY <1>5, <1>6 DEF Lowest

-----------------------------------------------------------------------------
(***************************************************************************)
(* The ways a call begins.                                                 *)
(***************************************************************************)
Argument(api, m, target) == <<api, m, target>> \in Arguments

AskSync(c, api, m, target) ==
    /\ Ask(c, Message(api, m, target))
    /\ fd' = [fd EXCEPT ![c] = Lowest(c)]
    /\ call' = [call EXCEPT ![c] = [NewCall EXCEPT !.api = api, !.m = m]]
    /\ state' = [state EXCEPT ![c] = "blocked"]
    /\ UNCHANGED <<watch, ready>>

AsyncCall(c, m, result) ==
    /\ watch' = [watch EXCEPT ![c] = Lowest(c)]
    /\ state' = [state EXCEPT ![c] = "returned"]
    /\ call' = [call EXCEPT ![c] = [NewCall EXCEPT
                   !.api = ASYNC, !.m = m, !.ret = result, !.user_data = "live"]]
    /\ UNCHANGED ready

AskAsync(c, m) ==
    /\ AsyncCall(c, m, "NONE")
    /\ Ask(c, Message(ASYNC, m, EmptyPath))
    /\ fd' = [fd EXCEPT ![c] = Lowest(c)]

LeaveWatch(c, m) ==
    AsyncCall(c, m, "NETWORK") /\ UNCHANGED <<serverVars, fd>>

LEMMA ArgumentType ==
  ASSUME NEW api, NEW m, NEW target, Argument(api, m, target)
  PROVE  /\ api \in Apis /\ m \in Media \cup {EmptyPath}
         /\ m \in Media \/ api = EXTRACT_ALL
         /\ Message(api, m, target) \in ServerRequests
         /\ api \in {FROM_DB, WITH_SIZE, ASYNC} =>
               Message(api, m, target).type = DB_INSERT
         /\ Message(api, m, target).m = m
  BY DEF Argument, Arguments, Apis, Message, ServerRequests, Requests, FROM_DB,
         WITH_SIZE, SAVE, EXTRACT_ALL, ASYNC, SAVE_FILE, DB_INSERT, ALL_MEDIA

LEMMA StartCases ==
  ASSUME NEW c \in Clients, Start(c)
  PROVE  /\ state[c] = "new"
         /\ \E api, m, target :
               /\ Argument(api, m, target)
               /\ \/ \E result \in {"INVALID_PARAMETER", "NETWORK"},
                        data \in {"none", "live"} :
                        GiveUp(c, result, data, api, m)
                  \/ NoTimeout(c, api, m)
                  \/ api # ASYNC /\ AskSync(c, api, m, target)
                  \/ api = ASYNC /\ AskAsync(c, m)
                  \/ api = ASYNC /\ LeaveWatch(c, m) /\ "sendto" \in Faults
  <1>1. PICK args \in Arguments :
           \/ Reject(c, args[1], args[2])
           \/ NoTimeout(c, args[1], args[2])
           \/ args[1] # ASYNC /\ RequestSync(c, args[1], args[2], args[3])
           \/ args[1] = ASYNC /\ RequestAsync(c, args[2])
    BY DEF Start
  <1> DEFINE api == args[1]
             m == args[2]
             target == args[3]
  <1>2. Argument(api, m, target)
    BY DEF Argument, Arguments
  <1>3. CASE Reject(c, api, m)
    <2>1. \E result \in {"INVALID_PARAMETER", "NETWORK"}, data \in {"none", "live"} :
             GiveUp(c, result, data, api, m)
      BY <1>3 DEF Reject
    <2> QED
      BY <1>2, <2>1 DEF Start
  <1>4. CASE NoTimeout(c, api, m)
    BY <1>2, <1>4 DEF Start
  <1>5. CASE api # ASYNC /\ RequestSync(c, api, m, target)
    <2>1. AskSync(c, api, m, target) \/ GiveUp(c, "NETWORK", "none", api, m)
      BY <1>5 DEF RequestSync, AskSync
    <2> QED
      BY <1>2, <1>5, <2>1 DEF Start
  <1>6. CASE api = ASYNC /\ RequestAsync(c, m)
    <2>1. AskAsync(c, m) \/ (LeaveWatch(c, m) /\ "sendto" \in Faults)
      BY <1>6 DEF RequestAsync, AskAsync, LeaveWatch, AsyncCall
    <2> QED
      BY <1>2, <1>6, <2>1 DEF Start
  <1> QED
    BY <1>1, <1>3, <1>4, <1>5, <1>6

\* What is written of a call when it begins.
CallOf(api, m, result, data) ==
    [api |-> api, m |-> m, ret |-> result, cb |-> NoResult, path |-> NoPath,
     user_data |-> data]

LEMMA CallOfType ==
  \A api \in Apis, m \in Media \cup {EmptyPath}, result \in Results \cup {NoResult},
     data \in {"none", "live"} :
        LET new == CallOf(api, m, result, data) IN
        /\ new \in Call /\ new.api = api /\ new.m = m /\ new.ret = result
        /\ new.cb = NoResult /\ new.path = NoPath
  BY DEF CallOf, Call, Results

LEMMA AskedIs ==
  \A api, m : [NewCall EXCEPT !.api = api, !.m = m] = CallOf(api, m, NoResult, "none")
  <1> TAKE api, m
  <1>1. NewCall = CallOf(FROM_DB, EmptyPath, NoResult, "none")
    BY DEF NewCall, CallOf
  <1>2. [CallOf(FROM_DB, EmptyPath, NoResult, "none") EXCEPT !.api = api]
          = CallOf(api, EmptyPath, NoResult, "none")
    BY DEF CallOf
  <1>3. [CallOf(api, EmptyPath, NoResult, "none") EXCEPT !.m = m]
          = CallOf(api, m, NoResult, "none")
    BY DEF CallOf
  <1> QED
    BY <1>1, <1>2, <1>3, Zenon

LEMMA ReturnedIs ==
  \A api, m, result, data :
     [NewCall EXCEPT !.api = api, !.m = m, !.ret = result, !.user_data = data]
       = CallOf(api, m, result, data)
  <1> TAKE api, m, result, data
  <1>1. [NewCall EXCEPT !.api = api, !.m = m] = CallOf(api, m, NoResult, "none")
    BY AskedIs, Zenon
  <1>2. [CallOf(api, m, NoResult, "none") EXCEPT !.ret = result]
          = CallOf(api, m, result, "none")
    BY DEF CallOf
  <1>3. [CallOf(api, m, result, "none") EXCEPT !.user_data = data]
          = CallOf(api, m, result, data)
    BY DEF CallOf
  <1> QED
    BY <1>1, <1>2, <1>3, Zenon

-----------------------------------------------------------------------------
(***************************************************************************)
(* What the steps of a call have in common: it begins, with or without a   *)
(* descriptor and a watch; it ends; its watch is called.                   *)
(***************************************************************************)
SentOne(c, new) ==
    \/ sock' = sock
    \/ \E req \in ServerRequests :
          /\ sock' = Append(sock, [from |-> c, req |-> req])
          /\ new.api \in {FROM_DB, WITH_SIZE, ASYNC} =>
                req.type = DB_INSERT /\ req.m = new.m

Begun(c, s, new, opened, watched) ==
    /\ state[c] = "new" /\ s \in {"blocked", "returned"}
    /\ new \in Call /\ new.cb = NoResult /\ new.path = NoPath
    /\ new.m \in Media \/ new.api = EXTRACT_ALL
    /\ s = "blocked" => new.api # ASYNC /\ new.ret = NoResult /\ ~watched
    /\ s = "returned" => new.ret \in Results
    /\ watched => new.api = ASYNC
    /\ watched => new.ret = IF opened THEN "NONE" ELSE "NETWORK"
    /\ watched /\ ~opened => "sendto" \in Faults
    /\ opened => \/ s = "blocked"
                 \/ new.api = ASYNC /\ new.ret = "NONE"
                 \/ "setsockopt" \in Faults
    /\ state' = [state EXCEPT ![c] = s]
    /\ call' = [call EXCEPT ![c] = new]
    /\ fd' = IF opened THEN [fd EXCEPT ![c] = Lowest(c)] ELSE fd
    /\ csock' = IF opened THEN [csock EXCEPT ![c] = Waiting] ELSE csock
    /\ watch' = IF watched THEN [watch EXCEPT ![c] = Lowest(c)] ELSE watch
    /\ SentOne(c, new)
    /\ UNCHANGED <<ready, peer, up, storeVars, jobVars, queueVars, loopVars>>

Ended(c, result, path) ==
    /\ state[c] = "blocked"
    /\ result \in Results
    /\ \/ path \in {NoPath, Cut}
       \/ csock[c] \in Answers /\ TakesPath(c) /\ path = csock[c].dst
    /\ state' = [state EXCEPT ![c] = "returned"]
    /\ call' = [call EXCEPT ![c].ret = result, ![c].path = path]
    /\ fd' = [fd EXCEPT ![c] = 0]
    /\ csock' = [csock EXCEPT ![c] = Closed]
    /\ UNCHANGED <<watch, ready, sock, peer, up, storeVars, jobVars, queueVars,
                   loopVars>>

WatchCalled(c, result, path) ==
    /\ c \in ready
    /\ result \in Results
    /\ call' = [call EXCEPT ![c].cb = result, ![c].path = path,
                            ![c].user_data = "freed"]
    /\ watch' = [watch EXCEPT ![c] = 0]
    /\ ready' = ready \ {c}
    /\ UNCHANGED <<state, sock, peer, up, storeVars, jobVars, queueVars, loopVars>>

CalledFor(c, d, result, path) ==
    /\ d \in Mates(c) /\ fd[d] = watch[c]
    /\ \/ path = EmptyPath
       \/ csock[d] # Waiting /\ path = csock[d].dst
    /\ fd' = [fd EXCEPT ![d] = 0]
    /\ csock' = [csock EXCEPT ![d] = Closed]
    /\ WatchCalled(c, result, path)

CalledForNone(c) ==
    /\ \A d \in Mates(c) : fd[d] # watch[c]
    /\ UNCHANGED <<fd, csock>>
    /\ WatchCalled(c, "NETWORK", EmptyPath)

LEMMA AskSends ==
  ASSUME NEW c \in Clients, NEW api, NEW m, NEW target, Argument(api, m, target),
         NEW new, new.api = api, new.m = m, Ask(c, Message(api, m, target))
  PROVE  /\ SentOne(c, new) /\ csock' = [csock EXCEPT ![c] = Waiting]
         /\ UNCHANGED <<peer, up, storeVars, jobVars, queueVars, loopVars>>
  <1> DEFINE req == Message(api, m, target)
  <1>1. /\ req \in ServerRequests /\ req.m = m
        /\ api \in {FROM_DB, WITH_SIZE, ASYNC} => req.type = DB_INSERT
    BY ArgumentType
  <1>2. sock' \in {sock, Append(sock, [from |-> c, req |-> req])}
    BY DEF Ask, Received
  <1> HIDE DEF req
  <1>3. SentOne(c, new)
    BY <1>1, <1>2 DEF SentOne
  <1> QED
    BY <1>3 DEF Ask

LEMMA StartBegins ==
  ASSUME NEW c \in Clients, Start(c)
  PROVE  \E s, new : \E opened, watched \in BOOLEAN : Begun(c, s, new, opened, watched)
  <1>1. state[c] = "new"
    BY StartCases
  <1>2. PICK api, m, target :
          /\ Argument(api, m, target)
          /\ \/ \E result \in {"INVALID_PARAMETER", "NETWORK"},
                   data \in {"none", "live"} :
                   GiveUp(c, result, data, api, m)
             \/ NoTimeout(c, api, m)
             \/ api # ASYNC /\ AskSync(c, api, m, target)
             \/ api = ASYNC /\ AskAsync(c, m)
             \/ api = ASYNC /\ LeaveWatch(c, m) /\ "sendto" \in Faults
    BY StartCases
  <1>3. api \in Apis /\ m \in Media \cup {EmptyPath}
        /\ (m \in Media \/ api = EXTRACT_ALL)
    BY <1>2, ArgumentType
  <1> DEFINE New(result, data) == CallOf(api, m, result, data)
  <1>4. \A result \in Results \cup {NoResult}, data \in {"none", "live"} :
          /\ New(result, data) \in Call
          /\ New(result, data).api = api /\ New(result, data).m = m
          /\ New(result, data).ret = result
          /\ New(result, data).cb = NoResult /\ New(result, data).path = NoPath
    BY <1>3, CallOfType
  <1>5. {"INVALID_PARAMETER", "NETWORK", "NONE"} \subseteq Results
    BY DEF Results
  <1> HIDE DEF New
  <1>6. ASSUME NEW result \in {"INVALID_PARAMETER", "NETWORK"},
               NEW data \in {"none", "live"}, GiveUp(c, result, data, api, m)
        PROVE  Begun(c, "returned", New(result, data), FALSE, FALSE)
    <2>0. [NewCall EXCEPT !.api = api, !.m = m, !.ret = result, !.user_data = data]
            = New(result, data)
      BY ReturnedIs, Zenon DEF New
    <2>1. call' = [call EXCEPT ![c] = New(result, data)]
      BY <1>6, <2>0, Zenon DEF GiveUp
    <2>2. New(result, data).ret \in Results
      BY <1>4, <1>5
    <2> QED
      BY <1>1, <1>3, <1>4, <1>5, <1>6, <2>1, <2>2
      DEF GiveUp, Begun, SentOne, serverVars, netVars
  <1>7. ASSUME NoTimeout(c, api, m)
        PROVE  \E new : Begun(c, "returned", new, TRUE, FALSE)
    <2> DEFINE data == IF api = ASYNC THEN "live" ELSE "none"
               new == New("NETWORK", data)
    <2>0. [NewCall EXCEPT !.api = api, !.m = m, !.ret = "NETWORK", !.user_data = data]
            = new
      BY ReturnedIs, Zenon DEF New
    <2>1. call' = [call EXCEPT ![c] = new]
      BY <1>7, <2>0, Zenon DEF NoTimeout
    <2>2. /\ new \in Call /\ new.m = m /\ new.api = api
          /\ new.cb = NoResult /\ new.path = NoPath /\ new.ret \in Results
      BY <1>4, <1>5
    <2> HIDE DEF new
    <2>3. Begun(c, "returned", new, TRUE, FALSE)
      BY <1>1, <1>3, <1>7, <2>1, <2>2 DEF NoTimeout, Begun, SentOne
    <2> QED
      BY <2>3
  <1>8. ASSUME api # ASYNC, AskSync(c, api, m, target)
        PROVE  Begun(c, "blocked", New(NoResult, "none"), TRUE, FALSE)
    <2>1. call' = [call EXCEPT ![c] = New(NoResult, "none")]
      BY <1>8, AskedIs DEF AskSync, New
    <2>2. /\ SentOne(c, New(NoResult, "none")) /\ csock' = [csock EXCEPT ![c] = Waiting]
          /\ UNCHANGED <<peer, up, storeVars, jobVars, queueVars, loopVars>>
      BY <1>2, <1>4, <1>8, AskSends DEF AskSync
    <2> QED
      BY <1>1, <1>3, <1>4, <1>8, <2>1, <2>2 DEF AskSync, Begun
  <1>9. ASSUME api = ASYNC, AskAsync(c, m)
        PROVE  Begun(c, "returned", New("NONE", "live"), TRUE, TRUE)
    <2>0. [NewCall EXCEPT !.api = ASYNC, !.m = m, !.ret = "NONE", !.user_data = "live"]
            = New("NONE", "live")
      BY <1>9, ReturnedIs, Zenon DEF New
    <2>1. call' = [call EXCEPT ![c] = New("NONE", "live")]
      BY <1>9, <2>0, Zenon DEF AskAsync, AsyncCall
    <2>2. Message(ASYNC, m, EmptyPath) = Message(api, m, target)
      BY <1>9 DEF Message, ASYNC, SAVE, EXTRACT_ALL
    <2>3. /\ SentOne(c, New("NONE", "live")) /\ csock' = [csock EXCEPT ![c] = Waiting]
          /\ UNCHANGED <<peer, up, storeVars, jobVars, queueVars, loopVars>>
      BY <1>2, <1>4, <1>5, <1>9, <2>2, AskSends DEF AskAsync
    <2> QED
      BY <1>1, <1>3, <1>4, <1>5, <1>9, <2>1, <2>3 DEF AskAsync, AsyncCall, Begun
  <1>10. ASSUME api = ASYNC, LeaveWatch(c, m), "sendto" \in Faults
         PROVE  Begun(c, "returned", New("NETWORK", "live"), FALSE, TRUE)
    <2>0. [NewCall EXCEPT !.api = ASYNC, !.m = m, !.ret = "NETWORK", !.user_data = "live"]
            = New("NETWORK", "live")
      BY <1>10, ReturnedIs, Zenon DEF New
    <2>1. call' = [call EXCEPT ![c] = New("NETWORK", "live")]
      BY <1>10, <2>0, Zenon DEF LeaveWatch, AsyncCall
    <2> QED
      BY <1>1, <1>3, <1>4, <1>5, <1>10, <2>1
      DEF LeaveWatch, AsyncCall, Begun, SentOne, serverVars, netVars
  <1> QED
    BY <1>2, <1>6, <1>7, <1>8, <1>9, <1>10, Zenon

LEMMA ReturnEnds ==
  ASSUME NEW c \in Clients, Receive(c) \/ Timeout(c) \/ ReceiveFails(c)
  PROVE  \E result, path : Ended(c, result, path)
  <1>1. CASE Timeout(c)
    <2>1. Ended(c, "TIMEOUT", NoPath)
      BY <1>1 DEF Timeout, TimeoutCloses, Close, Returned, Ended, Results
    <2> QED
      BY <2>1
  <1>2. CASE Receive(c)
    <2>1. PICK result, path :
             /\ result \in Results
             /\ Returned(c, result, path)
             /\ \/ path = NoPath
                \/ TakesPath(c) /\ path \in {Cut, csock[c].dst}
      BY <1>2 DEF Receive, Copied, TakesPath, Results
    <2>2. Ended(c, result, path)
      BY <1>2, <2>1 DEF Receive, Close, Returned, Ended
    <2> QED
      BY <2>2
  <1>3. CASE ReceiveFails(c)
    <2>1. Ended(c, "NETWORK", NoPath)
      BY <1>3 DEF ReceiveFails, Close, Returned, Ended, Results
    <2> QED
      BY <2>1
  <1> QED
    BY <1>1, <1>2, <1>3

LEMMA WriteCalls ==
  ASSUME NEW c \in Clients, WriteSocket(c)
  PROVE  \/ \E d, result, path : CalledFor(c, d, result, path)
         \/ CalledForNone(c)
  <1>1. CASE \A d \in Mates(c) : fd[d] # watch[c]
    BY <1>1 DEF WriteSocket, CalledBack, CalledForNone, WatchCalled, Results
  <1>2. CASE \E d \in Mates(c) : fd[d] = watch[c]
    <2>1. PICK d \in Mates(c) :
             /\ fd[d] = watch[c]
             /\ Close(d)
             /\ \/ IF csock[d] = Waiting
                   THEN CalledBack(c, "TIMEOUT", EmptyPath)
                   ELSE CalledBack(c, IF csock[d].status = FAIL
                                      THEN "UNSUPPORTED" ELSE "NONE", csock[d].dst)
                \/ CalledBack(c, "NETWORK", EmptyPath)
      BY <1>2 DEF WriteSocket
    <2>2. PICK result, path :
             /\ result \in Results
             /\ CalledBack(c, result, path)
             /\ path = EmptyPath \/ (csock[d] # Waiting /\ path = csock[d].dst)
      <3>1. CASE CalledBack(c, "NETWORK", EmptyPath)
        BY <3>1 DEF Results
      <3>2. CASE csock[d] = Waiting /\ ~CalledBack(c, "NETWORK", EmptyPath)
        BY <2>1, <3>2 DEF Results
      <3>3. CASE csock[d] # Waiting /\ ~CalledBack(c, "NETWORK", EmptyPath)
        BY <2>1, <3>3 DEF Results
      <3> QED
        BY <3>1, <3>2, <3>3
    <2>3. CalledFor(c, d, result, path)
      BY <2>1, <2>2 DEF WriteSocket, CalledFor, CalledBack, Close, WatchCalled
    <2> QED
      BY <2>3
  <1> QED
    BY <1>1, <1>2

-----------------------------------------------------------------------------
(***************************************************************************)
(* A call begins.                                                          *)
(***************************************************************************)
LEMMA BegunTyped ==
  ASSUME IpcInv, NEW c \in Clients, NEW s, NEW new, NEW opened \in BOOLEAN,
         NEW watched \in BOOLEAN, Begun(c, s, new, opened, watched)
  PROVE  IpcTypeOK' /\ LoopInv'
  <1>1. fd[c] = 0
    BY DEF IpcInv, CallStates, NothingYet, Begun
  <1>2. Lowest(c) \in Descriptors
    BY <1>1, LowestFree DEF IpcInv
  <1>3. IpcTypeOK'
    <2>1. /\ state' \in [Clients -> {"new", "blocked", "returned"}]
          /\ call' \in [Clients -> Call]
      BY DEF IpcInv, IpcTypeOK, Begun
    <2>2. /\ fd' \in [Clients -> {0} \cup Descriptors]
          /\ watch' \in [Clients -> {0} \cup Descriptors]
          /\ ready' \in SUBSET Clients
      BY <1>2 DEF IpcInv, IpcTypeOK, Begun
    <2> QED
      BY <2>1, <2>2 DEF IpcTypeOK
  <1>4. LoopInv'
    <2>1. LoopInv /\ sock \in Seq(Datagrams)
          /\ csock \in [Clients -> Answers \cup {Closed, Waiting}]
          /\ up \in {"running", "off", "aborted"} /\ peer \in Clients \cup {Nobody}
      BY DEF IpcInv, LoopInv, ServerTypeOK
    <2>2. sock' \in Seq(Datagrams)
      <3>1. CASE sock' = sock
        BY <2>1, <3>1
      <3>2. CASE sock' # sock
        <4>1. PICK req \in ServerRequests : sock' = Append(sock, [from |-> c, req |-> req])
          BY <3>2 DEF Begun, SentOne
        <4>2. [from |-> c, req |-> req] \in Datagrams
          BY DEF Datagrams
        <4> QED
          BY <2>1, <4>1, <4>2
      <3> QED
        BY <3>1, <3>2
    <2>3. csock' \in [Clients -> Answers \cup {Closed, Waiting}]
      BY <2>1 DEF Begun
    <2> QED
      BY <2>1, <2>2, <2>3, LoopUnchanged DEF Begun
  <1> QED
    BY <1>3, <1>4

LEMMA BegunStates ==
  ASSUME IpcInv, NEW c \in Clients, NEW s, NEW new, NEW opened \in BOOLEAN,
         NEW watched \in BOOLEAN, Begun(c, s, new, opened, watched)
  PROVE  CallStates'
  <1> SUFFICES ASSUME NEW e \in Clients
               PROVE  /\ state'[e] = "new" => NothingYet(e)'
                      /\ state'[e] = "blocked" =>
                            call'[e].api # ASYNC /\ call'[e].ret = NoResult
                            /\ watch'[e] = 0
                      /\ state'[e] # "new" =>
                            call'[e].m \in Media \/ call'[e].api = EXTRACT_ALL
                      /\ watch'[e] # 0 => state'[e] = "returned" /\ call'[e].api = ASYNC
                      /\ e \in ready' => watch'[e] # 0
    BY DEF CallStates
  <1>1. CallStates /\ IpcTypeOK
    BY DEF IpcInv
  <1>2. \A f \in Clients : csock[f] = csock[f]
    OBVIOUS
  <1>3. csock \in [Clients -> Answers \cup {Closed, Waiting}]
    BY DEF IpcInv, LoopInv, ServerTypeOK
  <1>4. CASE e = c
    <2>1. state'[e] = s /\ call'[e] = new
      BY <1>1, <1>4 DEF Begun, IpcTypeOK
    <2>2. watch[e] = 0 /\ e \notin ready
      BY <1>1, <1>4 DEF Begun, CallStates, NothingYet
    <2>3. watch'[e] # 0 => watched
      BY <1>1, <1>4, <2>2 DEF Begun
    <2> QED
      BY <1>4, <2>1, <2>2, <2>3 DEF Begun
  <1>5. CASE e # c
    <2>1. /\ state'[e] = state[e] /\ call'[e] = call[e] /\ fd'[e] = fd[e]
          /\ watch'[e] = watch[e] /\ csock'[e] = csock[e] /\ ready' = ready
      BY <1>1, <1>3, <1>5 DEF Begun, IpcTypeOK
    <2> QED
      BY <1>1, <2>1 DEF CallStates, NothingYet
  <1> QED
    BY <1>4, <1>5

LEMMA BegunDescriptors ==
  ASSUME IpcInv, NEW c \in Clients, NEW s, NEW new, NEW opened \in BOOLEAN,
         NEW watched \in BOOLEAN, Begun(c, s, new, opened, watched)
  PROVE  OwnDescriptors'
  <1>1. fd[c] = 0 /\ watch[c] = 0
    BY DEF IpcInv, CallStates, NothingYet, Begun
  <1>2. Lowest(c) \in Descriptors /\ \A d \in Mates(c) : fd[d] # Lowest(c)
    BY <1>1, LowestFree DEF IpcInv
  <1>3. OwnDescriptors /\ IpcTypeOK
        /\ csock \in [Clients -> Answers \cup {Closed, Waiting}]
    BY DEF IpcInv, LoopInv, ServerTypeOK
  <1>4. \A e \in Clients : e # c =>
           fd'[e] = fd[e] /\ watch'[e] = watch[e] /\ csock'[e] = csock[e]
    BY <1>3 DEF Begun, IpcTypeOK
  <1>5. fd'[c] # 0 => opened /\ fd'[c] = Lowest(c) /\ csock'[c] = Waiting
    BY <1>1, <1>3 DEF Begun, IpcTypeOK
  <1>6. watch'[c] # 0 => watch'[c] = Lowest(c)
    BY <1>1, <1>3 DEF Begun, IpcTypeOK
  <1> SUFFICES ASSUME NEW e \in Clients
               PROVE  /\ fd'[e] # 0 => csock'[e] # Closed
                      /\ watch'[e] # 0 /\ fd'[e] # 0 => fd'[e] = watch'[e]
                      /\ \A d \in Mates(e) : fd'[e] # 0 /\ fd'[e] = fd'[d] => e = d
    BY DEF OwnDescriptors, Mates
  <1>7. (fd'[e] # 0 => csock'[e] # Closed)
        /\ (watch'[e] # 0 /\ fd'[e] # 0 => fd'[e] = watch'[e])
    BY <1>3, <1>4, <1>5, <1>6, ServerAssumption DEF OwnDescriptors
  <1>8. ASSUME NEW d \in Mates(e), fd'[e] # 0, fd'[e] = fd'[d]
        PROVE  e = d
    <2>1. d \in Clients /\ e \in Mates(d)
      BY DEF Mates
    <2> QED
      BY <1>2, <1>3, <1>4, <1>5, <1>8, <2>1 DEF OwnDescriptors
  <1> QED
    BY <1>7, <1>8

LEMMA BegunMessages ==
  ASSUME IpcInv, NEW c \in Clients, NEW s, NEW new, NEW opened \in BOOLEAN,
         NEW watched \in BOOLEAN, Begun(c, s, new, opened, watched)
  PROVE  Messages'
  <1>1. IpcTypeOK /\ Messages /\ state[c] = "new" /\ csock[c] = Closed
    BY DEF IpcInv, CallStates, NothingYet, Begun
  <1>2. /\ sock \in Seq(Datagrams)
        /\ csock \in [Clients -> Answers \cup {Closed, Waiting}]
    BY DEF IpcInv, LoopInv, ServerTypeOK
  <1>3. state'[c] = s /\ s # "new" /\ call'[c] = new
    BY <1>1 DEF Begun, IpcTypeOK
  <1>4. \A e \in Clients : e # c => state'[e] = state[e] /\ call'[e] = call[e]
                                   /\ csock'[e] = csock[e]
    BY <1>1, <1>2 DEF Begun, IpcTypeOK
  <1>5. \A e, type, m : About(e, type, m) => About(e, type, m)'
    BY <1>1, <1>4 DEF About, TakesPath
  <1>6. DatagramsAbout'
    <2>1. CASE sock' = sock
      BY <1>1, <1>5, <2>1 DEF Messages, DatagramsAbout
    <2>2. CASE sock' # sock
      <3>1. PICK req \in ServerRequests :
              /\ sock' = Append(sock, [from |-> c, req |-> req])
              /\ new.api \in {FROM_DB, WITH_SIZE, ASYNC} =>
                    req.type = DB_INSERT /\ req.m = new.m
        BY <2>2 DEF Begun, SentOne
      <3>2. About(c, req.type, req.m)'
        BY <1>3, <3>1 DEF About, TakesPath
      <3>3. /\ Len(sock') = Len(sock) + 1 /\ Len(sock) \in Nat
            /\ sock'[Len(sock) + 1] = [from |-> c, req |-> req]
            /\ \A i \in 1 .. Len(sock) : sock'[i] = sock[i]
        BY <1>2, <3>1
      <3>4. SUFFICES ASSUME NEW i \in 1 .. Len(sock')
                     PROVE  About(sock[i].from, sock[i].req.type, sock[i].req.m)'
        BY DEF DatagramsAbout
      <3>5. CASE i = Len(sock) + 1
        BY <3>2, <3>3, <3>5 DEF About, TakesPath
      <3>6. CASE i # Len(sock) + 1
        <4>1. i \in 1 .. Len(sock) /\ sock'[i] = sock[i]
          BY <3>3, <3>4, <3>6
        <4>2. About(sock[i].from, sock[i].req.type, sock[i].req.m)
          BY <1>1, <4>1 DEF Messages, DatagramsAbout
        <4> QED
          BY <1>5, <4>1, <4>2 DEF About, TakesPath
      <3> QED
        BY <3>5, <3>6
    <2> QED
      BY <2>1, <2>2
  <1>7. JobAbout'
    BY <1>1, <1>5 DEF Messages, JobAbout, Begun, jobVars
  <1>8. AnswersAbout'
    <2> SUFFICES ASSUME NEW e \in Clients, csock'[e] \in Answers
                 PROVE  AnswerAbout(e, csock[e].dst)'
      BY DEF AnswersAbout
    <2>1. e # c
      BY <1>1, <1>2, ServerAssumption DEF Begun
    <2> QED
      BY <1>1, <1>4, <2>1 DEF Messages, AnswersAbout, AnswerAbout, TakesPath
  <1> QED
    BY <1>6, <1>7, <1>8 DEF Messages

LEMMA BegunCrosses ==
  ASSUME IpcInv, NEW c \in Clients, NEW s, NEW new, NEW opened \in BOOLEAN,
         NEW watched \in BOOLEAN, Begun(c, s, new, opened, watched)
  PROVE  NothingCrosses'
  <1>1. IpcTypeOK /\ NothingCrosses /\ state[c] = "new" /\ watch[c] = 0
        /\ call[c] = NewCall
    BY DEF IpcInv, CallStates, NothingYet, Begun
  <1>2. /\ call'[c] = new
        /\ watch'[c] # 0 => watched /\ watch'[c] = Lowest(c)
        /\ opened => fd'[c] = Lowest(c)
    BY <1>1 DEF Begun, IpcTypeOK
  <1>3. \A e \in Clients : e # c => call'[e] = call[e] /\ watch'[e] = watch[e]
                                   /\ fd'[e] = fd[e]
    BY <1>1 DEF Begun, IpcTypeOK
  <1>4. ~LeftWatch(c)
    <2>1. call[c].ret = NoResult
      BY <1>1 DEF NewCall
    <2> QED
      BY <2>1 DEF LeftWatch, NoResult
  <1>5. \A e \in Clients : LeftWatch(e) => LeftWatch(e)'
    BY <1>3, <1>4 DEF LeftWatch
  <1>6. \A e \in Clients : Left(e) => Left(e)'
    BY <1>5 DEF Left, Mates
  <1> SUFFICES ASSUME NEW e \in Clients, ~Left(e)'
               PROVE  /\ watch'[e] # 0 => fd'[e] = watch'[e]
                      /\ call'[e].path \in OwnPaths(e)'
    BY DEF NothingCrosses
  <1>7. CASE e # c
    BY <1>1, <1>3, <1>6, <1>7 DEF NothingCrosses, OwnPaths
  <1>8. CASE e = c
    <2>1. ~LeftWatch(c)'
      BY <1>8 DEF Left, Mates
    <2>2. watch'[c] # 0 => opened
      BY <1>2, <2>1 DEF Begun, LeftWatch
    <2>3. call'[c].path \in OwnPaths(c)'
      BY <1>2 DEF Begun, OwnPaths
    <2> QED
      BY <1>2, <1>8, <2>2, <2>3
  <1> QED
    BY <1>7, <1>8

-----------------------------------------------------------------------------
(***************************************************************************)
(* A blocking call ends, with an answer or without.                        *)
(***************************************************************************)
\* The original of a call that takes a path is one, so that its hash path is
\* one of its own.
LEMMA OwnAnswer ==
  ASSUME IpcInv, NEW c \in Clients, state[c] # "new", TakesPath(c),
         csock[c] \in Answers
  PROVE  /\ csock[c].dst \in {EmptyPath, DefaultPath, hash_name(call[c].m)}
         /\ call[c].m \in Media
  BY DEF IpcInv, Messages, AnswersAbout, AnswerAbout, CallStates, TakesPath,
         FROM_DB, WITH_SIZE, ASYNC, EXTRACT_ALL

LEMMA EndedKeeps ==
  ASSUME IpcInv, NEW c \in Clients, NEW result, NEW path, Ended(c, result, path)
  PROVE  /\ IpcTypeOK' /\ LoopInv' /\ CallStates' /\ OwnDescriptors'
         /\ Messages' /\ NothingCrosses'
  <1>1. /\ IpcTypeOK /\ CallStates /\ OwnDescriptors /\ Messages /\ NothingCrosses
        /\ csock \in [Clients -> Answers \cup {Closed, Waiting}]
        /\ state[c] = "blocked" /\ call[c].ret = NoResult /\ watch[c] = 0
    BY DEF IpcInv, LoopInv, ServerTypeOK, CallStates, Ended
  <1>2. /\ state'[c] = "returned" /\ fd'[c] = 0 /\ csock'[c] = Closed
        /\ watch' = watch /\ ready' = ready
    BY <1>1 DEF Ended, IpcTypeOK
  <1>3. call[c] \in Call
    BY <1>1 DEF IpcTypeOK
  <1>4. /\ call'[c].m = call[c].m /\ call'[c].api = call[c].api
        /\ call'[c].path = path
    BY <1>1, <1>3 DEF Ended, IpcTypeOK, Call
  <1>5. \A e \in Clients : e # c =>
           /\ state'[e] = state[e] /\ call'[e] = call[e] /\ fd'[e] = fd[e]
           /\ csock'[e] = csock[e]
    BY <1>1 DEF Ended, IpcTypeOK
  <1>6. path \in Paths \cup {EmptyPath, Cut, NoPath}
    BY DEF Ended, Answers
  <1>7. IpcTypeOK'
    <2>1. call' \in [Clients -> Call]
      BY <1>1, <1>3, <1>6 DEF Ended, IpcTypeOK, Call
    <2> QED
      BY <1>1, <2>1 DEF Ended, IpcTypeOK
  <1>8. LoopInv'
    <2>1. csock' \in [Clients -> Answers \cup {Closed, Waiting}]
      BY <1>1 DEF Ended
    <2> QED
      BY <2>1, LoopUnchanged DEF Ended, IpcInv, LoopInv, ServerTypeOK
  <1>9. CallStates'
    <2> SUFFICES ASSUME NEW e \in Clients
                 PROVE  /\ state'[e] = "new" => NothingYet(e)'
                        /\ state'[e] = "blocked" =>
                              call'[e].api # ASYNC /\ call'[e].ret = NoResult
                              /\ watch'[e] = 0
                        /\ state'[e] # "new" =>
                              call'[e].m \in Media \/ call'[e].api = EXTRACT_ALL
                        /\ watch'[e] # 0 => state'[e] = "returned" /\ call'[e].api = ASYNC
                        /\ e \in ready' => watch'[e] # 0
      BY DEF CallStates
    <2>1. CASE e = c
      BY <1>1, <1>2, <1>4, <2>1 DEF CallStates
    <2>2. CASE e # c
      BY <1>1, <1>2, <1>5, <2>2 DEF CallStates, NothingYet
    <2> QED
      BY <2>1, <2>2
  <1>10. OwnDescriptors'
    <2> SUFFICES ASSUME NEW e \in Clients
                 PROVE  /\ fd'[e] # 0 => csock'[e] # Closed
                        /\ watch'[e] # 0 /\ fd'[e] # 0 => fd'[e] = watch'[e]
                        /\ \A d \in Mates(e) : fd'[e] # 0 /\ fd'[e] = fd'[d] => e = d
      BY DEF OwnDescriptors, Mates
    <2>1. \A d \in Mates(e) : d \in Clients
      BY DEF Mates
    <2> QED
      BY <1>1, <1>2, <1>5, <2>1 DEF OwnDescriptors
  <1>11. Messages'
    <2>1. \A e, type, m : About(e, type, m) => About(e, type, m)'
      BY <1>2, <1>4, <1>5 DEF About, TakesPath
    <2>2. DatagramsAbout'
      BY <1>1, <2>1 DEF Messages, DatagramsAbout, Ended
    <2>3. JobAbout'
      BY <1>1, <2>1 DEF Messages, JobAbout, Ended, jobVars
    <2>4. AnswersAbout'
      BY <1>1, <1>2, <1>5, ServerAssumption
      DEF Messages, AnswersAbout, AnswerAbout, TakesPath
    <2> QED
      BY <2>2, <2>3, <2>4 DEF Messages
  <1>12. NothingCrosses'
    <2>1. \A e \in Clients : LeftWatch(e) => LeftWatch(e)'
      <3>1. ~LeftWatch(c)
        BY <1>1 DEF LeftWatch, NoResult
      <3> QED
        BY <1>2, <1>5, <3>1 DEF LeftWatch
    <2>2. \A e \in Clients : Left(e) => Left(e)'
      BY <2>1 DEF Left, Mates
    <2> SUFFICES ASSUME NEW e \in Clients, ~Left(e)'
                 PROVE  /\ watch'[e] # 0 => fd'[e] = watch'[e]
                        /\ call'[e].path \in OwnPaths(e)'
      BY DEF NothingCrosses
    <2>3. CASE e # c
      BY <1>1, <1>2, <1>5, <2>2, <2>3 DEF NothingCrosses, OwnPaths
    <2>4. CASE e = c
      <3>1. path \in OwnPaths(c)
        <4>1. CASE path \in {NoPath, Cut}
          BY <4>1 DEF OwnPaths
        <4>2. CASE csock[c] \in Answers /\ TakesPath(c) /\ path = csock[c].dst
          BY <1>1, <4>2, OwnAnswer DEF OwnPaths
        <4> QED
          BY <4>1, <4>2 DEF Ended
      <3> QED
        BY <1>1, <1>2, <1>4, <2>4, <3>1 DEF OwnPaths
    <2> QED
      BY <2>3, <2>4
  <1> QED
    BY <1>7, <1>8, <1>9, <1>10, <1>11, <1>12

-----------------------------------------------------------------------------
(***************************************************************************)
(* A watch is called.                                                      *)
(***************************************************************************)
LEMMA WatchCalledKeeps ==
  ASSUME IpcInv, NEW c \in Clients, NEW result, NEW path, WatchCalled(c, result, path),
         path \in Paths \cup {EmptyPath},
         NEW d, fd' = [fd EXCEPT ![d] = 0], csock' = [csock EXCEPT ![d] = Closed]
  PROVE  /\ IpcTypeOK' /\ LoopInv' /\ CallStates' /\ OwnDescriptors' /\ Messages'
         /\ \A e \in Clients : Left(e) => Left(e)'
  <1>1. /\ IpcTypeOK /\ CallStates /\ OwnDescriptors /\ Messages
        /\ csock \in [Clients -> Answers \cup {Closed, Waiting}]
        /\ watch[c] # 0 /\ state[c] = "returned" /\ call[c].api = ASYNC
    BY DEF IpcInv, LoopInv, ServerTypeOK, CallStates, WatchCalled
  <1>2. /\ state' = state /\ watch'[c] = 0 /\ ready' = ready \ {c}
        /\ call[c] \in Call
    BY <1>1 DEF WatchCalled, IpcTypeOK
  <1>3. /\ call'[c].m = call[c].m /\ call'[c].api = call[c].api
        /\ call'[c].ret = call[c].ret /\ call'[c].cb = result
    BY <1>1, <1>2 DEF WatchCalled, IpcTypeOK, Call
  <1>4. \A e \in Clients : e # c => call'[e] = call[e] /\ watch'[e] = watch[e]
    BY <1>1 DEF WatchCalled, IpcTypeOK
  <1>5. \A e \in Clients : /\ e # d => fd'[e] = fd[e] /\ csock'[e] = csock[e]
                           /\ e = d => fd'[e] = 0 /\ csock'[e] = Closed
    BY <1>1 DEF IpcTypeOK
  <1>6. IpcTypeOK'
    <2>1. call' \in [Clients -> Call]
      BY <1>1, <1>2 DEF WatchCalled, IpcTypeOK, Call
    <2>2. /\ fd' \in [Clients -> {0} \cup Descriptors]
          /\ watch' \in [Clients -> {0} \cup Descriptors]
      BY <1>1 DEF WatchCalled, IpcTypeOK
    <2> QED
      BY <1>1, <1>2, <2>1, <2>2 DEF IpcTypeOK
  <1>7. LoopInv'
    <2>1. csock' \in [Clients -> Answers \cup {Closed, Waiting}]
      BY <1>1
    <2> QED
      BY <2>1, LoopUnchanged DEF WatchCalled, IpcInv, LoopInv, ServerTypeOK
  <1>8. CallStates'
    <2> SUFFICES ASSUME NEW e \in Clients
                 PROVE  /\ state'[e] = "new" => NothingYet(e)'
                        /\ state'[e] = "blocked" =>
                              call'[e].api # ASYNC /\ call'[e].ret = NoResult
                              /\ watch'[e] = 0
                        /\ state'[e] # "new" =>
                              call'[e].m \in Media \/ call'[e].api = EXTRACT_ALL
                        /\ watch'[e] # 0 => state'[e] = "returned" /\ call'[e].api = ASYNC
                        /\ e \in ready' => watch'[e] # 0
      BY DEF CallStates
    <2>1. CASE e = c
      BY <1>1, <1>2, <1>3, <2>1 DEF CallStates
    <2>2. CASE e # c
      BY <1>1, <1>2, <1>4, <1>5, <2>2 DEF CallStates, NothingYet
    <2> QED
      BY <2>1, <2>2
  <1>9. OwnDescriptors'
    <2> SUFFICES ASSUME NEW e \in Clients
                 PROVE  /\ fd'[e] # 0 => csock'[e] # Closed
                        /\ watch'[e] # 0 /\ fd'[e] # 0 => fd'[e] = watch'[e]
                        /\ \A f \in Mates(e) : fd'[e] # 0 /\ fd'[e] = fd'[f] => e = f
      BY DEF OwnDescriptors, Mates
    <2>1. \A f \in Mates(e) : f \in Clients
      BY DEF Mates
    <2> QED
      BY <1>1, <1>2, <1>4, <1>5, <2>1 DEF OwnDescriptors
  <1>10. Messages'
    <2>1. \A e, type, m : About(e, type, m) => About(e, type, m)'
      BY <1>2, <1>3, <1>4 DEF About, TakesPath
    <2>2. DatagramsAbout'
      BY <1>1, <2>1 DEF Messages, DatagramsAbout, WatchCalled
    <2>3. JobAbout'
      BY <1>1, <2>1 DEF Messages, JobAbout, WatchCalled, jobVars
    <2>4. AnswersAbout'
      <3> SUFFICES ASSUME NEW e \in Clients, csock'[e] \in Answers
                   PROVE  AnswerAbout(e, csock[e].dst)'
        BY DEF AnswersAbout
      <3>1. csock'[e] = csock[e]
        BY <1>5, ServerAssumption
      <3>2. call'[e].api = call[e].api /\ call'[e].m = call[e].m
        BY <1>3, <1>4
      <3>3. AnswerAbout(e, csock[e].dst)
        BY <1>1, <3>1 DEF Messages, AnswersAbout
      <3> QED
        BY <3>1, <3>2, <3>3 DEF AnswerAbout, TakesPath
    <2> QED
      BY <2>2, <2>3, <2>4 DEF Messages
  <1>11. ASSUME NEW e \in Clients, Left(e)
         PROVE  Left(e)'
    <2>1. PICK f \in Mates(e) : LeftWatch(f)
      BY <1>11 DEF Left
    <2>2. result # NoResult
      BY DEF WatchCalled, Results, NoResult
    <2>3. LeftWatch(f)'
      BY <1>3, <1>4, <2>1, <2>2 DEF LeftWatch, Mates
    <2> QED
      BY <2>1, <2>3 DEF Left, Mates
  <1> QED
    BY <1>6, <1>7, <1>8, <1>9, <1>10, <1>11

LEMMA CalledForKeeps ==
  ASSUME IpcInv, NEW c \in Clients, NEW d, NEW result, NEW path,
         CalledFor(c, d, result, path)
  PROVE  /\ IpcTypeOK' /\ LoopInv' /\ CallStates' /\ OwnDescriptors'
         /\ Messages' /\ NothingCrosses'
  <1>1. /\ IpcTypeOK /\ CallStates /\ OwnDescriptors /\ Messages /\ NothingCrosses
        /\ csock \in [Clients -> Answers \cup {Closed, Waiting}]
        /\ watch[c] # 0 /\ state[c] = "returned" /\ call[c].api = ASYNC
        /\ d \in Clients /\ App[d] = App[c]
    BY DEF IpcInv, LoopInv, ServerTypeOK, CallStates, CalledFor, WatchCalled, Mates
  <1>2. path = EmptyPath \/ (csock[d] \in Answers /\ path = csock[d].dst)
    BY <1>1 DEF CalledFor, OwnDescriptors
  <1>3. path \in Paths \cup {EmptyPath}
    BY <1>2 DEF Answers
  <1>4. /\ IpcTypeOK' /\ LoopInv' /\ CallStates' /\ OwnDescriptors' /\ Messages'
        /\ \A e \in Clients : Left(e) => Left(e)'
    BY <1>3, WatchCalledKeeps DEF CalledFor
  <1>5. ~Left(c) => d = c
    BY <1>1 DEF NothingCrosses, OwnDescriptors, CalledFor, Mates
  <1>6. /\ watch'[c] = 0 /\ call'[c].path = path
        /\ call'[c].m = call[c].m
    BY <1>1 DEF CalledFor, WatchCalled, IpcTypeOK, Call
  <1>7. \A e \in Clients : /\ e # c => call'[e] = call[e] /\ watch'[e] = watch[e]
                           /\ e # d => fd'[e] = fd[e]
    BY <1>1 DEF CalledFor, WatchCalled, IpcTypeOK
  <1>8. NothingCrosses'
    <2> SUFFICES ASSUME NEW e \in Clients, ~Left(e)'
                 PROVE  /\ watch'[e] # 0 => fd'[e] = watch'[e]
                        /\ call'[e].path \in OwnPaths(e)'
      BY DEF NothingCrosses
    <2>1. ~Left(e)
      BY <1>4
    <2>2. CASE e = c
      <3>1. path \in OwnPaths(c)
        <4>1. TakesPath(c)
          BY <1>1 DEF TakesPath
        <4> QED
          BY <1>1, <1>2, <1>5, <2>1, <2>2, <4>1, OwnAnswer DEF OwnPaths
      <3> QED
        BY <1>6, <2>2, <3>1 DEF OwnPaths
    <2>3. CASE e # c
      <3>1. App[e] = App[c] => ~Left(c)
        BY <2>1 DEF Left, Mates
      <3>2. e # d
        BY <1>1, <1>5, <2>3, <3>1
      <3> QED
        BY <1>1, <1>7, <2>1, <2>3, <3>2 DEF NothingCrosses, OwnPaths
    <2> QED
      BY <2>2, <2>3
  <1> QED
    BY <1>4, <1>8

LEMMA CalledForNoneKeeps ==
  ASSUME IpcInv, NEW c \in Clients, CalledForNone(c)
  PROVE  /\ IpcTypeOK' /\ LoopInv' /\ CallStates' /\ OwnDescriptors'
         /\ Messages' /\ NothingCrosses'
  <1>1. IpcTypeOK /\ NothingCrosses /\ LoopInv
        /\ csock \in [Clients -> Answers \cup {Closed, Waiting}]
    BY DEF IpcInv, LoopInv, ServerTypeOK
  <1> DEFINE none == CHOOSE x : x \notin Clients
  <1>2. none \notin Clients
    BY NoSetContainsEverything
  <1> HIDE DEF none
  <1>3. fd' = [fd EXCEPT ![none] = 0] /\ csock' = [csock EXCEPT ![none] = Closed]
    BY <1>1, <1>2 DEF CalledForNone, IpcTypeOK
  <1>4. /\ IpcTypeOK' /\ LoopInv' /\ CallStates' /\ OwnDescriptors' /\ Messages'
        /\ \A e \in Clients : Left(e) => Left(e)'
    BY <1>3, WatchCalledKeeps DEF CalledForNone
  <1>5. /\ watch'[c] = 0 /\ call'[c].path = EmptyPath /\ fd' = fd
        /\ \A e \in Clients : e # c => call'[e] = call[e] /\ watch'[e] = watch[e]
    BY <1>1 DEF CalledForNone, WatchCalled, IpcTypeOK, Call
  <1>6. NothingCrosses'
    BY <1>1, <1>4, <1>5 DEF NothingCrosses, OwnPaths
  <1> QED
    BY <1>4, <1>6

-----------------------------------------------------------------------------
(***************************************************************************)
(* Steps that change no call: a main loop looks for readable descriptors,  *)
(* or the server steps.                                                    *)
(***************************************************************************)
CallsLeft ==
    /\ UNCHANGED <<state, call, fd, watch>>
    /\ \A c \in Clients : csock'[c] = Closed <=> csock[c] = Closed
    /\ ready' \in SUBSET Clients /\ \A c \in ready' : watch[c] # 0

LEMMA CallsLeftKeeps ==
  ASSUME IpcInv, CallsLeft
  PROVE  /\ IpcTypeOK' /\ CallStates' /\ OwnDescriptors' /\ NothingCrosses'
         /\ \A e, type, m : About(e, type, m) => About(e, type, m)'
         /\ \A e, dst : AnswerAbout(e, dst) => AnswerAbout(e, dst)'
  <1>1. /\ IpcTypeOK /\ CallStates /\ OwnDescriptors /\ NothingCrosses
        /\ state' = state /\ call' = call /\ fd' = fd /\ watch' = watch
        /\ \A c \in Clients : csock'[c] = Closed <=> csock[c] = Closed
        /\ ready' \in SUBSET Clients /\ \A c \in ready' : watch[c] # 0
    BY DEF IpcInv, CallsLeft
  <1>2. IpcTypeOK'
    BY <1>1 DEF IpcTypeOK
  <1>3. CallStates'
    BY <1>1 DEF CallStates, NothingYet
  <1>4. OwnDescriptors'
    BY <1>1 DEF OwnDescriptors, Mates
  <1>5. \A e \in Clients : Left(e) <=> Left(e)'
    BY <1>1 DEF Left, LeftWatch, Mates
  <1>6. NothingCrosses'
    BY <1>1, <1>5 DEF NothingCrosses, OwnPaths
  <1>7. \A e, type, m : About(e, type, m) => About(e, type, m)'
    BY <1>1 DEF About, TakesPath
  <1>8. \A e, dst : AnswerAbout(e, dst) => AnswerAbout(e, dst)'
    BY <1>1 DEF AnswerAbout, TakesPath
  <1> QED
    BY <1>2, <1>3, <1>4, <1>6, <1>7, <1>8

\* The messages stay what they are when the server's part of them does.
LEMMA MessagesLeft ==
  ASSUME IpcInv, CallsLeft,
         sock' = sock \/ sock' = <<>>,
         \A c \in Clients : csock'[c] = csock[c],
         \/ job' = NoJob
         \/ /\ peer' = peer /\ job # NoJob
            /\ job'.type = job.type /\ job'.m = job.m /\ job'.queued = job.queued
         \/ job'.queued
  PROVE  Messages'
  <1>1. /\ \A e, type, m : About(e, type, m) => About(e, type, m)'
        /\ \A e, dst : AnswerAbout(e, dst) => AnswerAbout(e, dst)'
    BY CallsLeftKeeps
  <1>2. DatagramsAbout /\ JobAbout /\ AnswersAbout
    BY DEF IpcInv, Messages
  <1>3. DatagramsAbout'
    <2>1. CASE sock' = sock
      BY <1>1, <1>2, <2>1 DEF DatagramsAbout
    <2>2. CASE sock' = <<>>
      BY <2>2 DEF DatagramsAbout
    <2> QED
      BY <2>1, <2>2
  <1>4. JobAbout'
    <2> SUFFICES ASSUME job' # NoJob, ~job'.queued
                 PROVE  About(peer, job.type, job.m)'
      BY DEF JobAbout
    <2>1. /\ peer' = peer /\ job # NoJob /\ ~job.queued
          /\ job'.type = job.type /\ job'.m = job.m
      OBVIOUS
    <2>2. About(peer, job.type, job.m)
      BY <1>2, <2>1 DEF JobAbout
    <2> QED
      BY <1>1, <2>1, <2>2 DEF About, TakesPath
  <1>5. AnswersAbout'
    <2> SUFFICES ASSUME NEW e \in Clients, csock'[e] \in Answers
                 PROVE  AnswerAbout(e, csock[e].dst)'
      BY DEF AnswersAbout
    <2>1. AnswerAbout(e, csock[e].dst)
      BY <1>2 DEF AnswersAbout
    <2> QED
      BY <1>1, <2>1 DEF AnswerAbout, TakesPath
  <1> QED
    BY <1>3, <1>4, <1>5 DEF Messages

LEMMA PollWatchesKeeps ==
  ASSUME IpcInv, NEW c \in Clients, PollWatches(c)
  PROVE  /\ IpcTypeOK' /\ LoopInv' /\ CallStates' /\ OwnDescriptors'
         /\ Messages' /\ NothingCrosses'
  <1>1. /\ IpcTypeOK /\ CallStates /\ LoopInv
        /\ ready' = ready \cup {d \in Mates(c) : Readable(d)}
        /\ UNCHANGED <<serverVars, state, call, fd, watch>>
    BY DEF IpcInv, PollWatches
  <1>2. ready' \in SUBSET Clients /\ \A d \in ready' : watch[d] # 0
    BY <1>1 DEF IpcTypeOK, CallStates, Readable, Mates
  <1>3. CallsLeft
    BY <1>1, <1>2 DEF CallsLeft, serverVars, netVars
  <1>4. LoopInv'
    BY <1>1, QuietKeeps DEF serverVars
  <1>5. Messages'
    <2>1. /\ sock' = sock /\ csock' = csock /\ peer' = peer /\ job' = job
      BY <1>1 DEF serverVars, netVars, jobVars
    <2> QED
      BY <1>3, <2>1, MessagesLeft
  <1> QED
    BY <1>3, <1>4, <1>5, CallsLeftKeeps

-----------------------------------------------------------------------------
(***************************************************************************)
(* The server's steps.                                                     *)
(***************************************************************************)
\* A job stays about what it was begun for.
LEMMA JobSame ==
  ASSUME Locals, JobStep
  PROVE  \/ job' = NoJob
         \/ /\ job # NoJob
            /\ job'.type = job.type /\ job'.m = job.m /\ job'.queued = job.queued
  <1> DEFINE Same == \/ job' = NoJob
                     \/ /\ job # NoJob
                        /\ job'.type = job.type /\ job'.m = job.m
                        /\ job'.queued = job.queued
  <1>1. job \in Job
    BY Running DEF JobStep, Connect, Lookup, Stat, GetSize, Remove, Exif, Rotate,
       Decode, Save, Fsync, GetType, StorePath, StoreSize, EndQueued, Reconnect
  <1>2. ASSUME NEW error, NEW path, Return(error, path)
        PROVE  Same
    BY <1>1, <1>2, JobAssumption DEF Return, Job
  <1>3. ASSUME NEW picture, NEW size, Generated(picture, size)
        PROVE  Same
    BY <1>1, <1>3, JobAssumption DEF Generated, Job
  <1>4. ASSUME LeaveUpdate PROVE Same
    BY <1>1, <1>4, JobAssumption DEF LeaveUpdate, Job
  <1>5. CASE Connect \/ Stat \/ GetSize \/ Remove \/ EndQueued \/ Reconnect
    BY <1>1, <1>5, JobAssumption
    DEF Connect, Stat, GetSize, Remove, EndQueued, Reconnect, Job
  <1>6. CASE Lookup
    BY <1>1, <1>6, JobAssumption DEF Lookup, LookupTo, Job
  <1>7. CASE Exif
    BY <1>1, <1>7, JobAssumption DEF Exif, Job
  <1>8. CASE Rotate
    BY <1>1, <1>2, <1>3, <1>8, JobAssumption DEF Rotate, Job
  <1>9. CASE Decode
    BY <1>2, <1>3, <1>9 DEF Decode
  <1>10. CASE Save
    BY <1>1, <1>2, <1>10, JobAssumption DEF Save, Job
  <1>11. CASE Fsync
    BY <1>1, <1>2, <1>11, JobAssumption DEF Fsync, Job
  <1>12. CASE GetType \/ StorePath \/ StoreSize
    BY <1>1, <1>4, <1>12, JobAssumption DEF GetType, StorePath, StoreSize, Job
  <1> QED
    BY <1>5, <1>6, <1>7, <1>8, <1>9, <1>10, <1>11, <1>12 DEF JobStep

\* An answer is put into a socket that waits for one, or is lost.
LEMMA AnsweredOne ==
  ASSUME LoopInv, NEW to \in Clients, NEW answer \in Answers, Answered(to, answer)
  PROVE  \A c \in Clients :
            /\ csock'[c] = Closed <=> csock[c] = Closed
            /\ csock'[c] = csock[c] \/ (c = to /\ csock'[c] = answer)
  <1>1. csock \in [Clients -> Answers \cup {Closed, Waiting}]
    BY DEF LoopInv, ServerTypeOK
  <1>2. Closed \notin Answers /\ Closed # Waiting
    BY ServerAssumption
  <1> QED
    BY <1>1, <1>2 DEF Answered

\* The parts of Messages after a step that answers a client.
LEMMA AnsweredAbout ==
  ASSUME IpcInv, CallsLeft, NEW to \in Clients, NEW answer \in Answers,
         Answered(to, answer), AnswerAbout(to, answer.dst)
  PROVE  AnswersAbout'
  <1>1. \A e, dst : AnswerAbout(e, dst) => AnswerAbout(e, dst)'
    BY CallsLeftKeeps
  <1> SUFFICES ASSUME NEW e \in Clients, csock'[e] \in Answers
               PROVE  AnswerAbout(e, csock[e].dst)'
    BY DEF AnswersAbout
  <1>2. csock'[e] = csock[e] \/ (e = to /\ csock'[e] = answer)
    BY AnsweredOne DEF IpcInv
  <1>3. CASE csock'[e] = csock[e]
    <2>1. AnswerAbout(e, csock[e].dst)
      BY <1>3 DEF IpcInv, Messages, AnswersAbout
    <2> QED
      BY <1>1, <1>3, <2>1 DEF AnswerAbout, TakesPath
  <1>4. CASE e = to /\ csock'[e] = answer
    BY <1>1, <1>4 DEF AnswerAbout, TakesPath
  <1> QED
    BY <1>2, <1>3, <1>4

\* What is left in the server's socket after a datagram was read.
LEMMA TailAbout ==
  ASSUME IpcInv, CallsLeft, sock # <<>>, sock' = Tail(sock)
  PROVE  DatagramsAbout'
  <1>1. sock \in Seq(Datagrams) /\ DatagramsAbout
    BY DEF IpcInv, LoopInv, ServerTypeOK, Messages
  <1>2. /\ Len(Tail(sock)) = Len(sock) - 1 /\ Len(sock) \in Nat
        /\ \A i \in 1 .. Len(sock) - 1 : Tail(sock)[i] = sock[i + 1]
    BY <1>1
  <1> SUFFICES ASSUME NEW i \in 1 .. Len(sock')
               PROVE  About(sock[i].from, sock[i].req.type, sock[i].req.m)'
    BY DEF DatagramsAbout
  <1>3. sock'[i] = sock[i + 1] /\ i + 1 \in 1 .. Len(sock)
    BY <1>2
  <1>4. About(sock[i + 1].from, sock[i + 1].req.type, sock[i + 1].req.m)
    BY <1>1, <1>3 DEF DatagramsAbout
  <1> QED
    BY <1>3, <1>4, CallsLeftKeeps DEF About, TakesPath

\* A request becomes a job for the client that sent it.
LEMMA ReadRequestMessages ==
  ASSUME IpcInv, UNCHANGED ipcVars, ReadRequest
  PROVE  CallsLeft /\ Messages'
  <1>1. /\ sock \in Seq(Datagrams) /\ DatagramsAbout /\ AnswersAbout
        /\ IpcTypeOK /\ CallStates
    BY DEF IpcInv, LoopInv, ServerTypeOK, Messages
  <1>2. /\ sock # <<>> /\ sock' = Tail(sock) /\ csock' = csock
        /\ peer' = Head(sock).from
        /\ job' \in RequestedJobs(Head(sock).req)
    BY DEF ReadRequest
  <1>3. CallsLeft
    BY <1>1, <1>2 DEF CallsLeft, ipcVars, IpcTypeOK, CallStates
  <1>4. DatagramsAbout'
    BY <1>2, <1>3, TailAbout
  <1>5. JobAbout'
    <2>1. Head(sock) = sock[1] /\ 1 \in 1 .. Len(sock)
      BY <1>1, <1>2
    <2>2. About(peer', Head(sock).req.type, Head(sock).req.m)
      BY <1>1, <1>2, <2>1 DEF DatagramsAbout
    <2>3. job'.type = Head(sock).req.type /\ job'.m = Head(sock).req.m
      BY <1>2 DEF RequestedJobs, NewJob
    <2> QED
      BY <1>3, <2>2, <2>3, CallsLeftKeeps DEF JobAbout, About, TakesPath, CallsLeft
  <1>6. AnswersAbout'
    BY <1>1, <1>2, <1>3, CallsLeftKeeps DEF AnswersAbout, AnswerAbout, TakesPath,
       CallsLeft
  <1> QED
    BY <1>3, <1>4, <1>5, <1>6 DEF Messages

\* The answer to a request to extract all thumbnails names no path.
LEMMA ReadExtractAllMessages ==
  ASSUME IpcInv, UNCHANGED ipcVars, ReadExtractAll
  PROVE  CallsLeft /\ Messages'
  <1>1. /\ sock \in Seq(Datagrams) /\ sock # <<>> /\ IpcTypeOK /\ CallStates
        /\ LoopInv /\ JobAbout
    BY DEF IpcInv, LoopInv, ServerTypeOK, Messages, ReadExtractAll
  <1>2. Head(sock).from \in Clients
    <2>1. Head(sock) \in Datagrams
      BY <1>1
    <2> QED
      BY <2>1 DEF Datagrams
  <1>3. PICK answer \in Answers :
           Answered(Head(sock).from, answer) /\ answer.dst = EmptyPath
    <2>1. PICK status \in {SUCCESS, FAIL}, w \in {0, Junk}, h \in {0, Junk} :
             Answered(Head(sock).from, [status |-> status, dst |-> EmptyPath,
                                        width |-> w, height |-> h])
      BY DEF ReadExtractAll
    <2>2. [status |-> status, dst |-> EmptyPath,
           width |-> w, height |-> h] \in Answers
      BY DEF Answers, Dim
    <2> QED
      BY <2>1, <2>2
  <1>4. \A c \in Clients : csock'[c] = Closed <=> csock[c] = Closed
    BY <1>1, <1>2, <1>3, AnsweredOne
  <1>5. CallsLeft
    BY <1>1, <1>4 DEF CallsLeft, ipcVars, IpcTypeOK, CallStates
  <1>6. DatagramsAbout'
    BY <1>1, <1>5, TailAbout DEF ReadExtractAll
  <1>7. job' = job /\ peer' = peer
    BY DEF ReadExtractAll, jobVars
  <1>8. JobAbout'
    BY <1>1, <1>5, <1>7, CallsLeftKeeps DEF JobAbout, About, TakesPath, CallsLeft
  <1>9. AnswersAbout'
    BY <1>2, <1>3, <1>5, AnsweredAbout DEF AnswerAbout
  <1> QED
    BY <1>5, <1>6, <1>8, <1>9 DEF Messages

\* The path of an answer is the job's, and the job is about its client's call.
LEMMA ReplyMessages ==
  ASSUME IpcInv, UNCHANGED ipcVars, Reply
  PROVE  CallsLeft /\ Messages'
  <1> DEFINE answer == [status |-> Status, dst |-> job.dst,
                        width |-> job.width, height |-> job.height]
  <1>1. /\ IpcTypeOK /\ CallStates /\ LoopInv /\ Locals /\ JobAbout
        /\ DatagramsAbout
    BY DEF IpcInv, JobInv, Messages
  <1>2. job \in Job /\ job # NoJob /\ ~job.queued
    BY <1>1, Running DEF Reply
  <1>3. answer \in Answers
    <2>1. /\ job.dst \in Paths \cup {EmptyPath}
          /\ job.width \in Dim /\ job.height \in Dim
      BY <1>2 DEF Job
    <2> QED
      BY <2>1 DEF Answers, Status
  <1>4. peer \in Clients /\ About(peer, job.type, job.m)
    BY <1>1, <1>2 DEF JobAbout, About
  <1>5. Answered(peer, answer) /\ job' = NoJob /\ sock' = sock
    BY DEF Reply
  <1>6. AnswerAbout(peer, answer.dst)
    BY <1>1, <1>2, <1>4 DEF AnswerAbout, About, Locals, JobOwn
  <1> HIDE DEF answer
  <1>7. \A c \in Clients : csock'[c] = Closed <=> csock[c] = Closed
    BY <1>1, <1>3, <1>4, <1>5, AnsweredOne
  <1>8. CallsLeft
    BY <1>1, <1>7 DEF CallsLeft, ipcVars, IpcTypeOK, CallStates
  <1>9. DatagramsAbout'
    BY <1>1, <1>5, <1>8, CallsLeftKeeps DEF DatagramsAbout, About, TakesPath, CallsLeft
  <1>10. JobAbout'
    BY <1>5 DEF JobAbout
  <1>11. AnswersAbout'
    BY <1>3, <1>4, <1>5, <1>6, <1>8, AnsweredAbout
  <1> QED
    BY <1>8, <1>9, <1>10, <1>11 DEF Messages

LEMMA QuietMessages ==
  ASSUME IpcInv, UNCHANGED ipcVars, UNCHANGED csock, sock' = sock \/ sock' = <<>>,
         \/ job' = NoJob
         \/ /\ peer' = peer /\ job # NoJob
            /\ job'.type = job.type /\ job'.m = job.m /\ job'.queued = job.queued
         \/ job'.queued
  PROVE  CallsLeft /\ Messages'
  <1>1. CallsLeft
    BY DEF CallsLeft, ipcVars, IpcInv, IpcTypeOK, CallStates
  <1> QED
    BY <1>1, MessagesLeft

LEMMA ServerMessages ==
  ASSUME IpcInv, UNCHANGED ipcVars, ServerStep \/ Failure \/ Environment
  PROVE  CallsLeft /\ Messages'
  <1>1. CASE ReadRequest
    BY <1>1, ReadRequestMessages
  <1>2. CASE ReadExtractAll
    BY <1>2, ReadExtractAllMessages
  <1>3. CASE Reply
    BY <1>3, ReplyMessages
  <1>4. CASE PollIdle
    BY <1>4, QuietMessages DEF PollIdle, Polling, netVars
  <1>5. CASE TakePath
    <2>1. job'.queued
      BY <1>5 DEF TakePath, QueuedJob, NewJob
    <2> QED
      BY <1>5, <2>1, QuietMessages DEF TakePath, netVars
  <1>6. CASE DeleteArray
    BY <1>6, QuietMessages
    DEF DeleteArray, Dispatching, ServerGone, Stop, netVars, jobVars, JobDies
  <1>7. CASE RunJob
    <2>1. Locals
      BY DEF IpcInv, JobInv
    <2>2. JobStep /\ UNCHANGED netVars
      BY <1>7 DEF RunJob
    <2> QED
      BY <2>1, <2>2, JobSame, QuietMessages DEF netVars
  <1>8. CASE Failure
    BY <1>8, QuietMessages
    DEF Failure, PowerOff, ServerCrash, ServerPowerCut, Boot, ServerGone, Stop,
        Crash, PowerCut, JobDies, netVars, jobVars
  <1>9. CASE Environment
    BY <1>9, QuietMessages DEF Environment, netVars, jobVars
  <1> QED
    BY <1>1, <1>2, <1>3, <1>4, <1>5, <1>6, <1>7, <1>8, <1>9 DEF ServerStep

-----------------------------------------------------------------------------
(***************************************************************************)
(* All steps.                                                              *)
(***************************************************************************)
ClientKept ==
    /\ IpcTypeOK' /\ LoopInv' /\ CallStates' /\ OwnDescriptors'
    /\ Messages' /\ NothingCrosses'

LEMMA StartKeeps ==
  ASSUME IpcInv, NEW c \in Clients, Start(c)
  PROVE  ClientKept
  <1>1. PICK s, new : \E opened, watched \in BOOLEAN : Begun(c, s, new, opened, watched)
    BY StartBegins
  <1>2. PICK opened \in BOOLEAN, watched \in BOOLEAN : Begun(c, s, new, opened, watched)
    BY <1>1
  <1> QED
    BY <1>2, BegunTyped, BegunStates, BegunDescriptors, BegunMessages, BegunCrosses
    DEF ClientKept

LEMMA ClientStepKeeps ==
  ASSUME IpcInv, NEW c \in Clients, ClientStep(c)
  PROVE  ClientKept
  <1>1. CASE Receive(c) \/ Timeout(c) \/ ReceiveFails(c)
    <2>1. PICK result, path : Ended(c, result, path)
      BY <1>1, ReturnEnds
    <2> QED
      BY <2>1, EndedKeeps DEF ClientKept
  <1>2. CASE PollWatches(c)
    BY <1>2, PollWatchesKeeps DEF ClientKept
  <1>3. CASE WriteSocket(c)
    <2>1. CASE \E d, result, path : CalledFor(c, d, result, path)
      BY <2>1, CalledForKeeps DEF ClientKept
    <2>2. CASE CalledForNone(c)
      BY <2>2, CalledForNoneKeeps DEF ClientKept
    <2> QED
      BY <1>3, <2>1, <2>2, WriteCalls
  <1> QED
    BY <1>1, <1>2, <1>3 DEF ClientStep

\* The clients leave the server's job and the stores alone.
LEMMA ClientsLeaveJob ==
  ASSUME NEW c \in Clients, Start(c) \/ ClientStep(c)
  PROVE  UNCHANGED jobSpecVars
  <1>1. CASE Start(c)
    <2>1. PICK s, new : \E opened, watched \in BOOLEAN : Begun(c, s, new, opened, watched)
      BY <1>1, StartBegins
    <2> QED
      BY <2>1 DEF Begun, jobSpecVars
  <1>2. CASE ClientStep(c)
    BY <1>2 DEF ClientStep, Receive, Timeout, ReceiveFails, Returned, PollWatches,
       WriteSocket, CalledBack, serverVars, jobSpecVars
  <1> QED
    BY <1>1, <1>2

LEMMA ServerKeeps ==
  ASSUME IpcInv, UNCHANGED ipcVars, ServerStep \/ Failure \/ Environment
  PROVE  ClientKept
  <1>1. CallsLeft /\ Messages'
    BY ServerMessages
  <1>2. LoopInv'
    BY LoopKeeps DEF IpcInv, JobInv, ServerNext
  <1> QED
    BY <1>1, <1>2, CallsLeftKeeps DEF ClientKept

LEMMA IpcUnchanged ==
  ASSUME IpcInv, UNCHANGED ipcSpecVars
  PROVE  ClientKept
  <1>1. UNCHANGED ipcVars /\ UNCHANGED serverVars
    BY DEF ipcSpecVars
  <1>2. /\ UNCHANGED csock /\ sock' = sock /\ peer' = peer /\ job' = job
    BY <1>1 DEF serverVars, netVars, jobVars
  <1>3. CallsLeft /\ Messages'
    BY <1>1, <1>2, QuietMessages
  <1>4. LoopInv'
    BY <1>1, QuietKeeps DEF serverVars, IpcInv
  <1> QED
    BY <1>3, <1>4, CallsLeftKeeps DEF ClientKept

LEMMA IpcInitHolds == IpcInit => JobInit /\ IpcInv
  <1> SUFFICES ASSUME IpcInit PROVE JobInit /\ IpcInv
    OBVIOUS
  <1>1. ServerInit /\ JobInit /\ JobInv /\ LoopInv
    BY ServerInitHolds DEF IpcInit, ServerInv
  <1>2. /\ job = NoJob /\ sock = <<>> /\ csock = [c \in Clients |-> Closed]
    BY <1>1 DEF ServerInit, JobInit
  <1>3. NewCall \in Call
    BY DEF NewCall, Call, Apis
  <1>4. IpcTypeOK /\ CallStates /\ OwnDescriptors
    BY <1>2, <1>3 DEF IpcInit, IpcTypeOK, CallStates, NothingYet, OwnDescriptors, Mates
  <1>5. Messages
    BY <1>2, ServerAssumption DEF Messages, DatagramsAbout, JobAbout, AnswersAbout
  <1>6. NothingCrosses
    BY DEF IpcInit, NothingCrosses, OwnPaths, NewCall
  <1> QED
    BY <1>1, <1>4, <1>5, <1>6 DEF IpcInv

LEMMA IpcNextKeeps ==
  IpcInv /\ [IpcNext]_ipcSpecVars => IpcInv' /\ [JobNext]_jobSpecVars
  <1> SUFFICES ASSUME IpcInv, [IpcNext]_ipcSpecVars
               PROVE  IpcInv' /\ [JobNext]_jobSpecVars
    OBVIOUS
  <1>1. ClientKept /\ [JobNext]_jobSpecVars
    <2>1. ASSUME NEW c \in Clients, Start(c) \/ ClientStep(c)
          PROVE  ClientKept /\ [JobNext]_jobSpecVars
      BY <2>1, StartKeeps, ClientStepKeeps, ClientsLeaveJob
    <2>2. CASE (ServerStep \/ Failure \/ Environment) /\ UNCHANGED ipcVars
      <3>1. [JobNext]_jobSpecVars
        BY <2>2, ServerRefinesStep
        DEF ServerNext, IpcInv, JobInv, Locals, LoopInv
      <3> QED
        BY <2>2, <3>1, ServerKeeps
    <2>3. CASE UNCHANGED ipcSpecVars
      BY <2>3, IpcUnchanged DEF ipcSpecVars, serverVars, jobSpecVars
    <2> QED
      BY <2>1, <2>2, <2>3 DEF IpcNext
  <1>2. JobInv'
    BY <1>1, JobNextKeeps DEF IpcInv
  <1> QED
    BY <1>1, <1>2 DEF ClientKept, IpcInv

\* IpcInv is an invariant of the clients and the server.
THEOREM IpcInvariant == IpcSpec => []IpcInv
  BY IpcInitHolds, IpcNextKeeps, PTL DEF IpcSpec

\* The server implements ThumbJob whatever the calls of the library do: its
\* jobs run one at a time, and what is proved of them holds here too.
THEOREM IpcImplementsJob == IpcSpec => JobSpec
  BY IpcInvariant, IpcInitHolds, IpcNextKeeps, PTL DEF IpcSpec, JobSpec

\* All variables of the server and of the library always have their types;
\* in particular socket() always finds a descriptor.
THEOREM IpcTyped == IpcSpec => []IpcOK
  <1>1. IpcInv => IpcOK
    BY DEF IpcInv, IpcOK, ServerOK, TypeOK, JobInv, Stores, Locals, LoopInv
  <1> QED
    BY <1>1, IpcInvariant, PTL

\* Whatever system calls fail, a path crosses to another call only in an
\* application that has left a watch behind.
THEOREM IpcOwnUnlessLeft == IpcSpec => []OwnUnlessLeft
  <1>1. IpcInv => OwnUnlessLeft
    BY DEF IpcInv, NothingCrosses, Left, OwnUnlessLeft
  <1> QED
    BY <1>1, IpcInvariant, PTL

-----------------------------------------------------------------------------
(***************************************************************************)
(* What the library keeps when particular system calls do not fail.        *)
(***************************************************************************)
\* What a step does to the calls.
LEMMA IpcCases ==
  ASSUME [IpcNext]_ipcSpecVars
  PROVE  \/ \E c \in Clients : \E s, new : \E opened, watched \in BOOLEAN :
               Begun(c, s, new, opened, watched)
         \/ \E c \in Clients : \E result, path : Ended(c, result, path)
         \/ \E c \in Clients : \E d, result, path : CalledFor(c, d, result, path)
         \/ \E c \in Clients : CalledForNone(c)
         \/ UNCHANGED <<state, call, fd, watch>>
  <1>1. ASSUME NEW c \in Clients, Start(c)
        PROVE  \E s, new : \E opened, watched \in BOOLEAN :
                  Begun(c, s, new, opened, watched)
    BY <1>1, StartBegins
  <1>2. ASSUME NEW c \in Clients, Receive(c) \/ Timeout(c) \/ ReceiveFails(c)
        PROVE  \E result, path : Ended(c, result, path)
    BY <1>2, ReturnEnds
  <1>3. ASSUME NEW c \in Clients, WriteSocket(c)
        PROVE  \/ \E d, result, path : CalledFor(c, d, result, path)
               \/ CalledForNone(c)
    BY <1>3, WriteCalls
  <1>4. ASSUME NEW c \in Clients, PollWatches(c)
        PROVE  UNCHANGED <<state, call, fd, watch>>
    BY <1>4 DEF PollWatches
  <1>5. UNCHANGED ipcVars \/ UNCHANGED ipcSpecVars => UNCHANGED <<state, call, fd, watch>>
    BY DEF ipcVars, ipcSpecVars
  <1> QED
    BY <1>1, <1>2, <1>3, <1>4, <1>5 DEF IpcNext, ClientStep

\* An open descriptor belongs to a call that is not over.
OpenPending ==
    \A c \in Clients :
       fd[c] # 0 => \/ state[c] = "blocked"
                    \/ /\ call[c].api = ASYNC /\ call[c].ret = "NONE"
                       /\ call[c].cb = NoResult

LEMMA OpenPendingKeeps ==
  ASSUME "setsockopt" \notin Faults
  PROVE  IpcInv /\ OpenPending /\ [IpcNext]_ipcSpecVars => OpenPending'
  <1> SUFFICES ASSUME IpcInv, OpenPending, [IpcNext]_ipcSpecVars,
                      NEW e \in Clients, fd'[e] # 0
               PROVE  \/ state'[e] = "blocked"
                      \/ /\ call'[e].api = ASYNC /\ call'[e].ret = "NONE"
                         /\ call'[e].cb = NoResult
    BY DEF OpenPending
  <1>1. IpcTypeOK /\ OwnDescriptors /\ CallStates
    BY DEF IpcInv
  <1>2. ASSUME NEW c \in Clients, NEW s, NEW new, NEW opened \in BOOLEAN,
               NEW watched \in BOOLEAN, Begun(c, s, new, opened, watched)
        PROVE  \/ state'[e] = "blocked"
               \/ /\ call'[e].api = ASYNC /\ call'[e].ret = "NONE"
                  /\ call'[e].cb = NoResult
    <2>1. CASE e = c
      <3>1. fd[c] = 0
        BY <1>1, <1>2 DEF Begun, CallStates, NothingYet
      <3>2. state'[c] = s /\ call'[c] = new
        BY <1>1, <1>2 DEF Begun, IpcTypeOK
      <3>3. opened
        BY <1>2, <2>1, <3>1 DEF Begun
      <3> QED
        BY <1>2, <2>1, <3>2, <3>3 DEF Begun
    <2>2. CASE e # c
      BY <1>1, <1>2, <2>2 DEF Begun, OpenPending, IpcTypeOK
    <2> QED
      BY <2>1, <2>2
  <1>3. ASSUME NEW c \in Clients, NEW result, NEW path, Ended(c, result, path)
        PROVE  \/ state'[e] = "blocked"
               \/ /\ call'[e].api = ASYNC /\ call'[e].ret = "NONE"
                  /\ call'[e].cb = NoResult
    <2>1. e # c
      BY <1>1, <1>3 DEF Ended, IpcTypeOK
    <2> QED
      BY <1>1, <1>3, <2>1 DEF Ended, OpenPending, IpcTypeOK
  <1>4. ASSUME NEW c \in Clients, NEW d, NEW result, NEW path,
               CalledFor(c, d, result, path)
        PROVE  \/ state'[e] = "blocked"
               \/ /\ call'[e].api = ASYNC /\ call'[e].ret = "NONE"
                  /\ call'[e].cb = NoResult
    <2>1. d \in Clients /\ watch[c] # 0 /\ fd[d] = watch[c]
      BY <1>1, <1>4 DEF CalledFor, WatchCalled, CallStates, Mates
    <2>2. fd[c] # 0 => c = d
      BY <1>1, <1>4, <2>1 DEF CalledFor, OwnDescriptors
    <2>3. e # d /\ fd'[e] = fd[e]
      BY <1>1, <1>4, <2>1 DEF CalledFor, IpcTypeOK
    <2>4. e # c
      BY <2>2, <2>3
    <2> QED
      BY <1>1, <1>4, <2>3, <2>4 DEF CalledFor, WatchCalled, OpenPending, IpcTypeOK
  <1>5. ASSUME NEW c \in Clients, CalledForNone(c)
        PROVE  \/ state'[e] = "blocked"
               \/ /\ call'[e].api = ASYNC /\ call'[e].ret = "NONE"
                  /\ call'[e].cb = NoResult
    <2>1. watch[c] # 0 /\ c \in Mates(c)
      BY <1>1, <1>5 DEF CalledForNone, WatchCalled, CallStates, Mates
    <2>2. fd[c] = 0
      BY <1>1, <1>5, <2>1 DEF CalledForNone, OwnDescriptors
    <2>3. e # c
      BY <1>5, <2>2 DEF CalledForNone
    <2> QED
      BY <1>1, <1>5, <2>3 DEF CalledForNone, WatchCalled, OpenPending, IpcTypeOK
  <1>6. CASE UNCHANGED <<state, call, fd, watch>>
    BY <1>6 DEF OpenPending
  <1> QED
    BY <1>2, <1>3, <1>4, <1>5, <1>6, IpcCases

\* When setsockopt does not fail, a call that is over has no descriptor left
\* open: whether it was refused, answered, timed out, called back or found
\* its descriptor gone.
THEOREM IpcDescriptorsClosed ==
  ASSUME "setsockopt" \notin Faults
  PROVE  IpcSpec => []DescriptorsClosed
  <1>1. IpcInit => OpenPending
    BY DEF IpcInit, OpenPending
  <1>2. IpcInv /\ OpenPending /\ [IpcNext]_ipcSpecVars => OpenPending'
    BY OpenPendingKeeps
  <1>3. IpcInv /\ OpenPending => DescriptorsClosed
    BY DEF IpcInv, IpcTypeOK, OpenPending, DescriptorsClosed
  <1> QED
    BY <1>1, <1>2, <1>3, IpcInvariant, PTL DEF IpcSpec

\* A watch waits for the one result of its call, and only calls that were
\* accepted have been called back: none has left a watch behind.
WatchesWait ==
    \A c \in Clients :
       /\ watch[c] # 0 => call[c].ret = "NONE" /\ call[c].cb = NoResult
       /\ call[c].cb # NoResult => call[c].api = ASYNC /\ call[c].ret = "NONE"

LEMMA WatchesWaitKeeps ==
  ASSUME "sendto" \notin Faults
  PROVE  IpcInv /\ WatchesWait /\ [IpcNext]_ipcSpecVars => WatchesWait'
  <1> DEFINE Waits(e) ==
                /\ watch[e] # 0 => call[e].ret = "NONE" /\ call[e].cb = NoResult
                /\ call[e].cb # NoResult => call[e].api = ASYNC /\ call[e].ret = "NONE"
  <1> SUFFICES ASSUME IpcInv, WatchesWait, [IpcNext]_ipcSpecVars, NEW e \in Clients
               PROVE  Waits(e)'
    BY DEF WatchesWait
  <1>1. IpcTypeOK /\ CallStates /\ Waits(e)
    BY DEF IpcInv, WatchesWait
  <1>2. ASSUME NEW c \in Clients, NEW s, NEW new, NEW opened \in BOOLEAN,
               NEW watched \in BOOLEAN, Begun(c, s, new, opened, watched)
        PROVE  Waits(e)'
    <2>1. CASE e = c
      <3>1. watch[c] = 0
        BY <1>1, <1>2 DEF Begun, CallStates, NothingYet
      <3>2. call'[c] = new /\ new.cb = NoResult
        BY <1>1, <1>2 DEF Begun, IpcTypeOK
      <3>3. watch'[c] # 0 => new.ret = "NONE"
        BY <1>2, <3>1 DEF Begun
      <3> QED
        BY <2>1, <3>2, <3>3
    <2>2. CASE e # c
      BY <1>1, <1>2, <2>2 DEF Begun, IpcTypeOK
    <2> QED
      BY <2>1, <2>2
  <1>3. ASSUME NEW c \in Clients, NEW result, NEW path, Ended(c, result, path)
        PROVE  Waits(e)'
    <2>1. CASE e = c
      <3>1. call[c] \in Call /\ watch[c] = 0 /\ call[c].ret = NoResult
        BY <1>1, <1>3 DEF Ended, IpcTypeOK, CallStates
      <3>2. call[c].cb = NoResult
        BY <1>1, <2>1, <3>1 DEF NoResult
      <3>3. call'[c].cb = call[c].cb /\ watch'[c] = 0
        BY <1>1, <1>3, <3>1 DEF Ended, IpcTypeOK, Call
      <3> QED
        BY <2>1, <3>2, <3>3
    <2>2. CASE e # c
      BY <1>1, <1>3, <2>2 DEF Ended, IpcTypeOK
    <2> QED
      BY <2>1, <2>2
  <1>4. ASSUME NEW c \in Clients, NEW result, NEW path, WatchCalled(c, result, path)
        PROVE  Waits(e)'
    <2>1. CASE e = c
      <3>1. watch[c] # 0 /\ call[c] \in Call /\ call[c].api = ASYNC
        BY <1>1, <1>4 DEF WatchCalled, IpcTypeOK, CallStates
      <3>2. call'[c].api = call[c].api /\ call'[c].ret = call[c].ret /\ watch'[c] = 0
        BY <1>1, <1>4, <3>1 DEF WatchCalled, IpcTypeOK, Call
      <3> QED
        BY <1>1, <2>1, <3>1, <3>2
    <2>2. CASE e # c
      BY <1>1, <1>4, <2>2 DEF WatchCalled, IpcTypeOK
    <2> QED
      BY <2>1, <2>2
  <1>5. CASE UNCHANGED <<state, call, fd, watch>>
    BY <1>1, <1>5
  <1> QED
    BY <1>2, <1>3, <1>4, <1>5, IpcCases DEF CalledFor, CalledForNone

LEMMA WatchesWaitInit == IpcInit => WatchesWait
  BY DEF IpcInit, WatchesWait, NewCall

\* When sendto does not fail, what any call returns or hands to its callback
\* is for the original it was about.
THEOREM IpcResultOwn ==
  ASSUME "sendto" \notin Faults
  PROVE  IpcSpec => []ResultOwn
  <1>1. IpcInv /\ WatchesWait /\ [IpcNext]_ipcSpecVars => WatchesWait'
    BY WatchesWaitKeeps
  <1>2. WatchesWait => \A c \in Clients : ~LeftWatch(c)
    BY DEF WatchesWait, LeftWatch
  <1>3. IpcInv /\ WatchesWait => ResultOwn
    BY <1>2 DEF IpcInv, NothingCrosses, Left, Mates, ResultOwn
  <1> QED
    BY <1>1, <1>3, WatchesWaitInit, IpcInvariant, PTL DEF IpcSpec

-----------------------------------------------------------------------------
(***************************************************************************)
(* The library implements ThumbService: when sendto does not fail, a call  *)
(* has one outcome and keeps it.                                           *)
(***************************************************************************)
Pending(c) ==
    \/ state[c] = "blocked"
    \/ call[c].api = ASYNC /\ call[c].ret = "NONE" /\ call[c].cb = NoResult

PhaseOf(c) ==
    IF state[c] = "new" THEN "new" ELSE IF Pending(c) THEN "pending" ELSE "done"

OutcomeOf(c) ==
    IF PhaseOf(c) # "done" THEN NoResult
    ELSE IF call[c].cb # NoResult THEN call[c].cb ELSE call[c].ret

Blocks(c) == call[c].api # ASYNC

Blocking == [c \in Clients |-> Blocks(c)]

LEMMA PhaseIs ==
  /\ Phase = [c \in Clients |-> PhaseOf(c)]
  /\ Outcome = [c \in Clients |-> OutcomeOf(c)]
  BY DEF Phase, Outcome, PhaseOf, OutcomeOf, Pending

\* A step of one call changes what the service says of that call only.
LEMMA OneCall ==
  ASSUME NEW c \in Clients, NEW p, NEW o, NEW b,
         \A e \in Clients : e # c => state'[e] = state[e] /\ call'[e] = call[e],
         PhaseOf(c)' = p, OutcomeOf(c)' = o, Blocks(c)' = b
  PROVE  /\ Phase' = [Phase EXCEPT ![c] = p]
         /\ Outcome' = [Outcome EXCEPT ![c] = o]
         /\ Blocking' = [Blocking EXCEPT ![c] = b]
  <1>1. /\ Phase = [e \in Clients |-> PhaseOf(e)]
        /\ Outcome = [e \in Clients |-> OutcomeOf(e)]
    BY PhaseIs
  <1>2. /\ Phase' = [e \in Clients |-> PhaseOf(e)']
        /\ Outcome' = [e \in Clients |-> OutcomeOf(e)']
        /\ Blocking' = [e \in Clients |-> Blocks(e)']
    BY DEF Phase, Outcome, Blocking, Blocks, PhaseOf, OutcomeOf, Pending
  <1>3. \A e \in Clients : e # c =>
           PhaseOf(e)' = PhaseOf(e) /\ OutcomeOf(e)' = OutcomeOf(e) /\ Blocks(e)' = Blocks(e)
    BY DEF PhaseOf, OutcomeOf, Pending, Blocks
  <1> QED
    BY <1>1, <1>2, <1>3 DEF Blocking

LEMMA BegunServes ==
  ASSUME IpcInv, NEW c \in Clients, NEW s, NEW new, NEW opened \in BOOLEAN,
         NEW watched \in BOOLEAN, Begun(c, s, new, opened, watched)
  PROVE  Service!Next
  <1>1. IpcTypeOK /\ state[c] = "new"
    BY DEF IpcInv, Begun
  <1>2. state'[c] = s /\ call'[c] = new /\ new.cb = NoResult
    BY <1>1 DEF Begun, IpcTypeOK
  <1>3. \A e \in Clients : e # c => state'[e] = state[e] /\ call'[e] = call[e]
    BY <1>1 DEF Begun, IpcTypeOK
  <1>4. /\ PhaseOf(c) = "new" /\ OutcomeOf(c) = NoResult
        /\ Phase[c] = "new" /\ Outcome[c] = NoResult
    BY <1>1, PhaseIs DEF PhaseOf, OutcomeOf
  <1>5. Outcome = [Outcome EXCEPT ![c] = NoResult]
    BY <1>4, PhaseIs
  <1>6. Blocks(c)' \in BOOLEAN
    BY DEF Blocks
  <1>7. CASE Pending(c)'
    <2>1. PhaseOf(c)' = "pending" /\ OutcomeOf(c)' = NoResult
      BY <1>2, <1>7 DEF Begun, PhaseOf, OutcomeOf
    <2>2. /\ Phase' = [Phase EXCEPT ![c] = "pending"] /\ Outcome' = Outcome
          /\ Blocking' = [Blocking EXCEPT ![c] = Blocks(c)']
      BY <1>3, <1>5, <2>1, OneCall
    <2> QED
      BY <1>4, <1>6, <2>2 DEF Service!Next, Service!Begin, Blocking, Blocks
  <1>8. CASE ~Pending(c)'
    <2>1. s = "returned" /\ new.ret \in Results
      BY <1>2, <1>8 DEF Begun, Pending
    <2>2. PhaseOf(c)' = "done" /\ OutcomeOf(c)' = new.ret
      BY <1>2, <1>8, <2>1 DEF PhaseOf, OutcomeOf
    <2>3. /\ Phase' = [Phase EXCEPT ![c] = "done"]
          /\ Outcome' = [Outcome EXCEPT ![c] = new.ret]
          /\ Blocking' = [Blocking EXCEPT ![c] = Blocks(c)']
      BY <1>3, <2>2, OneCall
    <2> QED
      BY <1>4, <1>6, <2>1, <2>3 DEF Service!Next, Service!Refuse, Blocking, Blocks
  <1> QED
    BY <1>7, <1>8

LEMMA EndsServe ==
  ASSUME NEW c \in Clients, NEW result \in Results,
         \A e \in Clients : e # c => state'[e] = state[e] /\ call'[e] = call[e],
         PhaseOf(c) = "pending", PhaseOf(c)' = "done", OutcomeOf(c)' = result,
         call'[c].api = call[c].api
  PROVE  Service!Next
  <1>1. Blocks(c)' = Blocks(c)
    BY DEF Blocks
  <1>2. /\ Phase' = [Phase EXCEPT ![c] = "done"]
        /\ Outcome' = [Outcome EXCEPT ![c] = result]
        /\ Blocking' = [Blocking EXCEPT ![c] = Blocks(c)]
    BY <1>1, OneCall
  <1>3. Blocking' = Blocking /\ Phase[c] = "pending"
    BY <1>2, PhaseIs DEF Blocking
  <1> QED
    BY <1>2, <1>3 DEF Service!Next, Service!Ends, Service!End, Blocking, Blocks

LEMMA EndedServes ==
  ASSUME IpcInv, WatchesWait, NEW c \in Clients, NEW result, NEW path,
         Ended(c, result, path)
  PROVE  Service!Next
  <1>1. /\ IpcTypeOK /\ call[c] \in Call
        /\ state[c] = "blocked" /\ call[c].api # ASYNC /\ call[c].ret = NoResult
    BY DEF IpcInv, IpcTypeOK, CallStates, Ended
  <1>2. call[c].cb = NoResult
    BY <1>1 DEF WatchesWait, NoResult
  <1>3. /\ state'[c] = "returned" /\ call'[c].api = call[c].api
        /\ call'[c].ret = result /\ call'[c].cb = NoResult
    BY <1>1, <1>2 DEF Ended, IpcTypeOK, Call
  <1>4. \A e \in Clients : e # c => state'[e] = state[e] /\ call'[e] = call[e]
    BY <1>1 DEF Ended, IpcTypeOK
  <1>5. PhaseOf(c) = "pending" /\ PhaseOf(c)' = "done" /\ OutcomeOf(c)' = result
    BY <1>1, <1>3 DEF PhaseOf, OutcomeOf, Pending
  <1> QED
    BY <1>3, <1>4, <1>5, EndsServe DEF Ended

LEMMA CalledServes ==
  ASSUME IpcInv, WatchesWait, NEW c \in Clients, NEW result, NEW path,
         WatchCalled(c, result, path)
  PROVE  Service!Next
  <1>1. /\ IpcTypeOK /\ call[c] \in Call /\ watch[c] # 0
        /\ state[c] = "returned" /\ call[c].api = ASYNC
    BY DEF IpcInv, IpcTypeOK, CallStates, WatchCalled
  <1>2. call[c].ret = "NONE" /\ call[c].cb = NoResult
    BY <1>1 DEF WatchesWait
  <1>3. /\ state'[c] = "returned" /\ call'[c].api = call[c].api
        /\ call'[c].cb = result
    BY <1>1 DEF WatchCalled, IpcTypeOK, Call
  <1>4. \A e \in Clients : e # c => state'[e] = state[e] /\ call'[e] = call[e]
    BY <1>1 DEF WatchCalled, IpcTypeOK
  <1>5. result \in Results /\ result # NoResult
    BY DEF WatchCalled, Results, NoResult
  <1>6. PhaseOf(c) = "pending" /\ PhaseOf(c)' = "done" /\ OutcomeOf(c)' = result
    BY <1>1, <1>2, <1>3, <1>5 DEF PhaseOf, OutcomeOf, Pending
  <1> QED
    BY <1>3, <1>4, <1>5, <1>6, EndsServe

LEMMA ServiceStep ==
  IpcInv /\ WatchesWait /\ [IpcNext]_ipcSpecVars => [Service!Next]_(Service!vars)
  <1> SUFFICES ASSUME IpcInv, WatchesWait, [IpcNext]_ipcSpecVars
               PROVE  [Service!Next]_(Service!vars)
    OBVIOUS
  <1>1. CASE UNCHANGED <<state, call, fd, watch>>
    <2>1. UNCHANGED <<Phase, Blocking, Outcome>>
      BY <1>1 DEF Phase, Outcome, Blocking, Blocks
    <2> QED
      BY <2>1 DEF Service!vars, Blocking, Blocks
  <1>2. ASSUME NEW c \in Clients, NEW s, NEW new, NEW opened \in BOOLEAN,
               NEW watched \in BOOLEAN, Begun(c, s, new, opened, watched)
        PROVE  Service!Next
    BY <1>2, BegunServes
  <1>3. ASSUME NEW c \in Clients, NEW result, NEW path, Ended(c, result, path)
        PROVE  Service!Next
    BY <1>3, EndedServes
  <1>4. ASSUME NEW c \in Clients, NEW result, NEW path, WatchCalled(c, result, path)
        PROVE  Service!Next
    BY <1>4, CalledServes
  <1>5. UNCHANGED <<state, call, fd, watch>> \/ Service!Next
    BY <1>2, <1>3, <1>4, IpcCases DEF CalledFor, CalledForNone
  <1> QED
    BY <1>1, <1>5

\* When sendto does not fail, each step of the applications and the server
\* maps to a step of ThumbService or to none: a call begins or is refused
\* once, comes to one outcome, and is never called back after that.
THEOREM IpcImplementsService ==
  ASSUME "sendto" \notin Faults
  PROVE  IpcSpec => Service!Init /\ [][Service!Next]_(Service!vars)
  <1>1. ASSUME IpcInit PROVE Service!Init
    <2>1. \A c \in Clients : /\ PhaseOf(c) = "new" /\ OutcomeOf(c) = NoResult
                            /\ call[c].api = FROM_DB
      BY <1>1 DEF IpcInit, PhaseOf, OutcomeOf, NewCall
    <2>2. Phase = [c \in Clients |-> "new"] /\ Outcome = [c \in Clients |-> NoResult]
      BY <2>1, PhaseIs
    <2>3. [c \in Clients |-> call[c].api # ASYNC] = [c \in Clients |-> TRUE]
      BY <2>1, Zenon DEF FROM_DB, ASYNC
    <2> QED
      BY <2>2, <2>3 DEF Service!Init
  <1>2. IpcInv /\ WatchesWait /\ [IpcNext]_ipcSpecVars => WatchesWait'
    BY WatchesWaitKeeps
  <1> QED
    BY <1>1, <1>2, WatchesWaitInit, ServiceStep, IpcInvariant, PTL DEF IpcSpec
=============================================================================
