----------------------------- MODULE SftpChannel -----------------------------
(***************************************************************************)
(* SftpChannel: the file operations of one channel, with a server that     *)
(* keeps to the SFTP protocol and its user.  An operation is known by its  *)
(* job id; a transfer keeps several requests in flight under further ids,  *)
(* and the upload of a directory consists of operations of its own that    *)
(* create directories and upload files as its children.                    *)
(*                                                                         *)
(* A handler is an operator on the state of the channel, put together from *)
(* the functions it calls; files are counted in chunks of MaxDataSize.     *)
(***************************************************************************)
EXTENDS Integers, Sequences, FiniteSets, SequencesExt

CONSTANTS
    Operations,        \* the operations the user starts
    MaxJobs,           \* bound: operations of the user
    LocalFiles,        \* the local files that are uploaded
    FileSizes,         \* bound: the sizes of remote files, in chunks
    MaxNames,          \* bound: answers to SSH_FXP_READDIR with names
    MaxInFlightCount,  \* parallel requests of a transfer
    MaxDepth,          \* bound: levels of an uploaded directory
    MaxDirFiles        \* bound: files in an uploaded directory

ASSUME InFlightAssumption == MaxInFlightCount \in Nat \ {0}
ASSUME FileSizesAssumption == FileSizes \subseteq Nat
(* What a local file yields, chunk by chunk, before its end or before an   *)
(* error, may be less than its size was when the upload was started; and   *)
(* the files of a directory may turn out not to open.                      *)
ASSUME LocalFilesAssumption ==
    LocalFiles \subseteq [size : Nat, readable : Nat, unreadable : BOOLEAN,
                         opens : BOOLEAN]
ASSUME DirectoriesAssumption == MaxDepth \in Nat /\ MaxDirFiles \in Nat
ASSUME OperationsAssumption ==
    Operations \subseteq {"StatFile", "ListDir", "MakeDir", "Rm", "CreateFile",
                          "Download", "UploadFile", "UploadDir"}

VARIABLES
    channelState,  \* m_state of the channel
    sftpState,     \* m_sftpState
    jobs,          \* m_jobs: the operation of every request in flight
    ops,           \* the operations themselves
    uploadDirs,    \* the SftpUploadDir objects
    nextJobId,     \* m_nextJobId
    requests,      \* sent and not answered
    signals,       \* of every id, how finished() was emitted for it
    issued,        \* the ids that the user was given
    handles,       \* what the server holds open
    names          \* names listed so far (bounded)

channelVars == <<jobs, ops, uploadDirs, nextJobId, requests, signals>>
vars == <<channelState, sftpState, channelVars, issued, handles, names>>

SftpInvalidJob == 0
NoMap == [x \in {} |-> x]

(* A map with one more entry, or with another value for its key; a map     *)
(* with one entry less.                                                    *)
With(map, key, value) ==
    [x \in DOMAIN map \union {key} |-> IF x = key THEN value ELSE map[x]]

Without(map, key) == [x \in DOMAIN map \ {key} |-> map[x]]

Init ==
    /\ channelState = "Inactive" /\ sftpState = "Inactive"
    /\ jobs = NoMap /\ ops = NoMap /\ uploadDirs = NoMap /\ nextJobId = 0
    /\ requests = {} /\ signals = NoMap /\ issued = {} /\ handles = {}
    /\ names = 0

(* SftpChannel::state() *)
Initialized == channelState = "SessionEstablished" /\ sftpState = "Initialized"

----------------------------------------------------------------------------
(* The state that handlers work on, and the elementary changes of it.      *)
Now == [jobs |-> jobs, ops |-> ops, uploadDirs |-> uploadDirs,
        nextJobId |-> nextJobId, requests |-> requests, signals |-> signals]

Becomes(s) ==
    /\ jobs' = s.jobs /\ ops' = s.ops /\ uploadDirs' = s.uploadDirs
    /\ nextJobId' = s.nextJobId /\ requests' = s.requests
    /\ signals' = s.signals

(* sendData() of a packet with this request id.                            *)
SendData(s, id, type, offset, chunk) ==
    [s EXCEPT !.requests = @ \union {[id |-> id, type |-> type,
                                      offset |-> offset, chunk |-> chunk]}]

Send(s, id, type) == SendData(s, id, type, 0, 0)

(* emit finished() *)
Finished(s, id, result) == [s EXCEPT !.signals[id] = Append(@, result)]

(* m_jobs.erase(), m_jobs.insert() *)
Erase(s, id) == [s EXCEPT !.jobs = Without(@, id)]
Insert(s, id, op) == [s EXCEPT !.jobs = With(@, id, op)]

(* ++m_nextJobId: the state with a new id, on which nothing was emitted.   *)
NewId(s) == [s EXCEPT !.nextJobId = @ + 1,
                      !.signals = With(@, s.nextJobId + 1, <<>>)]

----------------------------------------------------------------------------
(* Operations.  Rm stands for all that consist of one request and its      *)
(* status: removing files, renaming, creating links.                       *)
Operation(type) ==
    [type |-> type, state |-> "Inactive", hasError |-> FALSE, parent |-> 0,
     append |-> FALSE, fileSize |-> 0, offset |-> 0, inFlightCount |-> 0,
     statRequested |-> FALSE, eofId |-> SftpInvalidJob, offsets |-> NoMap,
     position |-> 0, readable |-> 0, unreadable |-> FALSE, remote |-> 0,
     contents |-> {}]

WithHandle == {"ListDir", "CreateFile", "Download", "UploadFile"}
Transfers == {"Download", "UploadFile"}

UploadOf(file, append, parent) ==
    [Operation("UploadFile") EXCEPT
        !.append = append, !.parent = parent, !.fileSize = file.size,
        !.readable = file.readable, !.unreadable = file.unreadable]

(* initialPacket() *)
InitialRequest(type) ==
    CASE type = "StatFile" -> "STAT" [] type = "ListDir" -> "OPENDIR"
      [] type = "MakeDir" -> "MKDIR" [] type = "Rm" -> "REMOVE"
      [] OTHER -> "OPEN"

(* createJob() of a new operation, under the next id.                      *)
CreateJob(s, op) ==
    LET t == NewId(s)
        id == t.nextJobId
        state == IF op.type \in WithHandle THEN "OpenRequested" ELSE "Inactive"
    IN  Send([Insert(t, id, id) EXCEPT
                 !.ops = With(@, id, [op EXCEPT !.state = state])],
             id, InitialRequest(op.type))

----------------------------------------------------------------------------
(* What handlers have in common.                                           *)
ParentHasError(s, op) ==
    s.ops[op].parent # 0 /\ s.uploadDirs[s.ops[op].parent].hasError

(* SftpUploadDir::setError() of the parent, if there is one.               *)
SetParentError(s, op) ==
    LET parent == s.ops[op].parent
    IN  IF parent = 0 THEN s
        ELSE [s EXCEPT !.uploadDirs[parent].hasError = TRUE,
                       !.uploadDirs[parent].uploads = {},
                       !.uploadDirs[parent].mkdirs = NoMap]

SetError(s, op) == [s EXCEPT !.ops[op].hasError = TRUE]

(* Mutant: the error is reported, but not remembered.                      *)
ReportRequestError_Forgets(s, op) == Finished(s, op, "failed")

ReportRequestError(s, op) == SetError(Finished(s, op, "failed"), op)

(* A second SSH_FXP_CLOSE under the same id is a request of its own.       *)
SendTransferCloseHandle(s, op, id) ==
    [SendData(s, id, "CLOSE",
              IF s.ops[op].state = "CloseRequested" THEN 1 ELSE 0, 0) EXCEPT
        !.ops[op].state = "CloseRequested"]

RemoveTransferRequest(s, id) ==
    Erase([s EXCEPT !.ops[s.jobs[id]].inFlightCount = @ - 1], id)

(* Mutant: the last request in flight does not close the handle.           *)
FinishTransferRequest_OffByOne(s, id) ==
    IF s.ops[s.jobs[id]].inFlightCount = 0
    THEN SendTransferCloseHandle(s, s.jobs[id], id)
    ELSE RemoveTransferRequest(s, id)

FinishTransferRequest(s, id) ==
    IF s.ops[s.jobs[id]].inFlightCount = 1
    THEN SendTransferCloseHandle(s, s.jobs[id], id)
    ELSE RemoveTransferRequest(s, id)

CalculateInFlightCount(s, op) ==
    [s EXCEPT !.ops[op].inFlightCount =
        LET size == s.ops[op].fileSize
        IN  IF size = 0 THEN 1
            ELSE IF size > MaxInFlightCount THEN MaxInFlightCount ELSE size]

SendReadRequest(s, op, id) ==
    LET job == s.ops[op]
        offset == job.offset
        atEnd == offset + 1 >= job.fileSize
    IN  [SendData(s, id, "READ", offset, offset) EXCEPT
            !.ops[op] = [job EXCEPT
                            !.offsets = With(job.offsets, id, offset),
                            !.offset = offset + 1,
                            !.eofId = IF atEnd THEN id ELSE job.eofId]]

SendWriteRequest(s, id) ==
    LET op == s.jobs[id]
        job == s.ops[op]
    IN  IF job.position < job.readable
        THEN [SendData(s, id, "WRITE", job.offset, job.position) EXCEPT
                 !.ops[op] = [job EXCEPT !.offset = job.offset + 1,
                                         !.position = job.position + 1]]
        ELSE IF job.unreadable
        THEN FinishTransferRequest(
                 ReportRequestError(SetParentError(s, op), op), id)
        ELSE FinishTransferRequest(s, id)

(* The further requests of a transfer, each under a new id.                *)
Further(s, op, goesOn(_), request(_, _)) ==
    LET next(t, i) ==
            LET n == NewId(t)
            IN  IF goesOn(t) /\ i < t.ops[op].inFlightCount
                THEN request(Insert(n, n.nextJobId, op), n.nextJobId) ELSE t
        after[i \in 0..(MaxInFlightCount - 1)] ==
            IF i = 0 THEN s ELSE next(after[i - 1], i)
    IN  after[MaxInFlightCount - 1]

SpawnReadRequests(s, op) ==
    Further(SendReadRequest(CalculateInFlightCount(s, op), op, op), op,
            LAMBDA t : TRUE, LAMBDA t, id : SendReadRequest(t, op, id))

SpawnWriteRequests(s, id) ==
    LET op == s.jobs[id]
    IN  Further(SendWriteRequest(CalculateInFlightCount(s, op), id), op,
                LAMBDA t : ~t.ops[op].hasError, SendWriteRequest)

----------------------------------------------------------------------------
(* Handlers of the server's answers; "id" is a request in flight.          *)

(* handleHandle() *)
HandleHandle(s, id) ==
    LET op == s.jobs[id]
        job == s.ops[op]
        opened == [s EXCEPT !.ops[op].state = "Open"]
        withStat == [Send(opened, id, "FSTAT") EXCEPT
                        !.ops[op].statRequested = TRUE]
        closing == IF ParentHasError(opened, op)
                   THEN SendTransferCloseHandle(opened, op, id) ELSE opened
    IN  CASE job.type = "ListDir"    -> Send(opened, id, "READDIR")
          [] job.type = "CreateFile" -> Send(opened, id, "CLOSE")
          [] job.type = "Download"   -> withStat
          [] job.append              -> withStat
          [] OTHER                   -> SpawnWriteRequests(closing, id)

(* handleStatusGeneric() *)
HandleStatusGeneric(s, id, status) ==
    Erase(Finished(s, s.jobs[id], IF status = "OK" THEN "ok" ELSE "failed"), id)

HandleLsStatus(s, id, status) ==
    LET op == s.jobs[id]
        listed == IF status = "EOF" THEN s ELSE ReportRequestError(s, op)
    IN  CASE s.ops[op].state = "OpenRequested" ->
                 Erase(Finished(s, op, "failed"), id)
          [] s.ops[op].state = "Open" ->
                 [Send(listed, id, "CLOSE") EXCEPT
                     !.ops[op].state = "CloseRequested"]
          [] s.ops[op].state = "CloseRequested" /\ s.ops[op].hasError ->
                 Erase(s, id)
          [] OTHER -> HandleStatusGeneric(s, id, status)

HandleGetStatus(s, id, status) ==
    LET op == s.jobs[id]
        job == s.ops[op]
        atEnd == status = "EOF" /\ id = job.eofId
        read == IF atEnd \/ job.hasError THEN s ELSE ReportRequestError(s, op)
        closed == IF job.hasError THEN s
                  ELSE IF status = "OK" THEN Finished(s, op, "ok")
                  ELSE ReportRequestError(s, op)
    IN  CASE job.state = "OpenRequested" -> Erase(Finished(s, op, "failed"), id)
          [] job.state = "Open" /\ job.statRequested ->
                 SendTransferCloseHandle(ReportRequestError(s, op), op, id)
          [] job.state = "Open" /\ ~job.statRequested ->
                 FinishTransferRequest(read, id)
          [] OTHER -> RemoveTransferRequest(closed, id)

(* Mutant: the last file does not end the upload of the directory.         *)
UploadClosed_Forgets(s, op, status) ==
    IF s.ops[op].parent = 0
    THEN Finished(s, op, IF status = "OK" THEN "ok" ELSE "failed")
    ELSE [s EXCEPT !.uploadDirs[s.ops[op].parent].uploads = @ \ {op}]

(* An upload is finished: its own end, or that of the whole directory.     *)
UploadClosed(s, op, status) ==
    LET parent == s.ops[op].parent
        rest == [s EXCEPT !.uploadDirs[parent].uploads = @ \ {op}]
        dir == rest.uploadDirs[parent]
    IN  CASE parent = 0 ->
                 Finished(s, op, IF status = "OK" THEN "ok" ELSE "failed")
          [] parent # 0 /\ status # "OK" ->
                 Finished(SetParentError(s, op), parent, "failed")
          [] OTHER -> IF dir.mkdirs = NoMap /\ dir.uploads = {}
                      THEN Finished(rest, parent, "ok") ELSE rest

HandlePutStatus(s, id, status) ==
    LET op == s.jobs[id]
        job == s.ops[op]
        bad == job.hasError \/ ParentHasError(s, op)
        refused == IF ParentHasError(s, op) THEN s
                   ELSE Finished(SetParentError(s, op), op, "failed")
    IN  CASE job.state = "OpenRequested" -> Erase(refused, id)
          [] job.state = "Open" ->
                 IF bad THEN FinishTransferRequest(SetError(s, op), id)
                 ELSE IF status = "OK" THEN SendWriteRequest(s, id)
                 ELSE FinishTransferRequest(
                          ReportRequestError(SetParentError(s, op), op), id)
          [] OTHER ->
                 Erase(IF bad THEN s ELSE UploadClosed(s, op, status), id)

(* handleMkdirStatus(): a level of an uploaded directory exists now, and   *)
(* what it contains is created in turn.                                    *)
AddSubDirectory(s, parent, level) ==
    IF level > Len(s.uploadDirs[parent].levels) THEN s
    ELSE LET t == CreateJob(s, [Operation("MakeDir") EXCEPT !.parent = parent])
         IN  [t EXCEPT !.uploadDirs[parent].mkdirs =
                        With(@, t.nextJobId, level)]

AddFile(s, parent, file) ==
    LET t == CreateJob(s, UploadOf(file, FALSE, parent))
    IN  IF s.uploadDirs[parent].hasError THEN s
        ELSE IF ~file.opens
        THEN Finished([s EXCEPT !.uploadDirs[parent].hasError = TRUE,
                                !.uploadDirs[parent].uploads = {},
                                !.uploadDirs[parent].mkdirs = NoMap],
                      parent, "failed")
        ELSE [t EXCEPT !.uploadDirs[parent].uploads = @ \union {t.nextJobId}]

AddFiles(s, parent, files) ==
    LET after[i \in 0..Len(files)] ==
            IF i = 0 THEN s ELSE AddFile(after[i - 1], parent, files[i])
    IN  after[Len(files)]

HandleMkdirStatus(s, id, status) ==
    LET op == s.jobs[id]
        parent == s.ops[op].parent
        dir == s.uploadDirs[parent]
        level == dir.mkdirs[op]
        subDirs == AddSubDirectory(s, parent, level + 1)
        filled == AddFiles(subDirs, parent, dir.levels[level])
        done == [filled EXCEPT !.uploadDirs[parent].mkdirs = Without(@, op)]
        empty == /\ done.uploadDirs[parent].mkdirs = NoMap
                 /\ done.uploadDirs[parent].uploads = {}
    IN  CASE parent = 0 -> HandleStatusGeneric(s, id, status)
          [] parent # 0 /\ dir.hasError -> Erase(s, id)
          [] parent # 0 /\ ~dir.hasError /\ status \notin {"OK", "FAILURE"} ->
                 Erase(Finished(SetParentError(s, op), parent, "failed"), id)
          [] OTHER ->
                 Erase(IF filled.uploadDirs[parent].hasError THEN filled
                       ELSE IF empty THEN Finished(done, parent, "ok")
                       ELSE done, id)

(* handleStatus() *)
HandleStatus(s, id, status) ==
    LET type == s.ops[s.jobs[id]].type
    IN  CASE type = "ListDir"    -> HandleLsStatus(s, id, status)
          [] type = "Download"   -> HandleGetStatus(s, id, status)
          [] type = "UploadFile" -> HandlePutStatus(s, id, status)
          [] type = "MakeDir"    -> HandleMkdirStatus(s, id, status)
          [] OTHER               -> HandleStatusGeneric(s, id, status)

(* Mutant: answers are taken to arrive in the order of the requests.       *)
HandleReadData_InOrder(s, id, chunk, written) ==
    LET op == s.jobs[id]
        job == s.ops[op]
        next == Cardinality(job.contents)
        stored == [s EXCEPT !.ops[op].contents = @ \union {<<next, chunk>>}]
    IN  IF job.hasError THEN FinishTransferRequest(s, id)
        ELSE IF ~written
        THEN FinishTransferRequest(ReportRequestError(s, op), id)
        ELSE IF job.offset >= job.fileSize /\ job.fileSize # 0
        THEN FinishTransferRequest(stored, id)
        ELSE SendReadRequest(stored, op, id)

(* handleReadData(): the chunk goes to the offset of the request.  Local   *)
(* files may refuse it.                                                    *)
HandleReadData(s, id, chunk, written) ==
    LET op == s.jobs[id]
        job == s.ops[op]
        stored == [s EXCEPT !.ops[op].contents =
                      @ \union {<<job.offsets[id], chunk>>}]
    IN  IF job.hasError THEN FinishTransferRequest(s, id)
        ELSE IF ~written
        THEN FinishTransferRequest(ReportRequestError(s, op), id)
        ELSE IF job.offset >= job.fileSize /\ job.fileSize # 0
        THEN FinishTransferRequest(stored, id)
        ELSE SendReadRequest(stored, op, id)

(* handleAttrs(), with the size or without one.                            *)
NoSize == -1

HandleAttrs(s, id, size) ==
    LET op == s.jobs[id]
        job == s.ops[op]
        known == [job EXCEPT
                     !.fileSize = IF size = NoSize THEN 0 ELSE size,
                     !.eofId = IF size = NoSize THEN op ELSE job.eofId,
                     !.statRequested = FALSE]
        sized == [s EXCEPT !.ops[op] = known]
    IN  CASE job.type = "StatFile" -> Erase(Finished(s, id, "ok"), id)
          [] job.type = "Download" -> SpawnReadRequests(sized, op)
          [] OTHER ->
                 IF size = NoSize
                 THEN SendTransferCloseHandle(ReportRequestError(s, op), op, op)
                 ELSE SpawnWriteRequests([s EXCEPT !.ops[op].offset = size], id)

----------------------------------------------------------------------------
(* The server and the network.  The server answers what it was sent in any *)
(* order, as the protocol allows.                                          *)
NotOperations == <<issued, handles, names>>

(* closeHook(): operations are forgotten without a signal.                 *)
CloseHook(state) ==
    /\ channelState' = state
    /\ Becomes([Now EXCEPT !.jobs = NoMap, !.requests = {}])
    /\ UNCHANGED <<sftpState, NotOperations>>

(* closeChannel() while the channel is open.                               *)
RequestClose ==
    /\ channelState' = "CloseRequested" /\ requests' = {}
    /\ UNCHANGED <<sftpState, jobs, ops, uploadDirs, nextJobId, signals,
                   NotOperations>>

(* The answers on the way to an initialized channel.                       *)
Requested(type) == [id |-> SftpInvalidJob, type |-> type, offset |-> 0,
                    chunk |-> 0]

Setup(type, nextState, nextRequests) ==
    /\ Requested(type) \in requests /\ sftpState' = nextState
    /\ requests' = nextRequests
    /\ UNCHANGED <<jobs, ops, uploadDirs, nextJobId, signals, NotOperations>>

(* handleOpenSuccess() and handleOpenFailure(), which leaves the state.    *)
HandleOpenSuccess ==
    /\ Setup("SESSION", "SubsystemRequested", {Requested("SUBSYSTEM")})
    /\ channelState' = "SessionEstablished"

HandleOpenFailure ==
    Setup("SESSION", sftpState, {}) /\ UNCHANGED channelState

HandleChannelSuccess ==
    Setup("SUBSYSTEM", "InitSent", {Requested("INIT")}) /\ UNCHANGED channelState

HandleChannelFailure ==
    Setup("SUBSYSTEM", sftpState, {}) /\ channelState' = "CloseRequested"

(* handleServerVersion(), of this or another version.                      *)
HandleServerVersion ==
    \/ Setup("INIT", "Initialized", {}) /\ UNCHANGED channelState
    \/ Setup("INIT", sftpState, {}) /\ channelState' = "CloseRequested"

SetupAnswers == HandleOpenSuccess \/ HandleChannelSuccess
                \/ HandleServerVersion \/ HandleOpenFailure
                \/ HandleChannelFailure

(* The sizes that SSH_FXP_ATTRS reports: none, and none of a special file, *)
(* are as legal as the true one.                                           *)
Sizes(op) ==
    {ops[op].remote, NoSize}
        \union IF ops[op].type = "Download" THEN {0} ELSE {}

(* What an opened file contains, and what a request does to it.            *)
RemoteSizes(op) ==
    IF ops[op].type = "Download" \/ ops[op].append THEN FileSizes ELSE {0}

Opened(s, op, size) == [s EXCEPT !.ops[op].remote = size]
Written(s, op, r) ==
    [s EXCEPT !.ops[op].contents = @ \union {<<r.offset, r.chunk>>}]

(* The server may refuse everything, the closing of a handle included.     *)
Refusal(type) == IF type = "MKDIR" THEN "DENIED" ELSE "FAILURE"

(* The state after an answer to r; s is the state without the request.     *)
Answers(s, r) ==
    LET op == jobs[r.id]
        status(code) == HandleStatus(s, r.id, code)
    IN  {status(Refusal(r.type))} \union
        CASE r.type = "OPEN" ->
                 {HandleHandle(Opened(s, op, n), r.id) : n \in RemoteSizes(op)}
          [] r.type = "OPENDIR" -> {HandleHandle(s, r.id)}
          [] r.type = "FSTAT" -> {HandleAttrs(s, r.id, n) : n \in Sizes(op)}
          [] r.type = "STAT" -> {HandleAttrs(s, r.id, 0)}
          [] r.type = "READDIR" -> {status("EOF")}
          [] r.type = "READ" ->
                 IF r.offset >= ops[op].remote THEN {status("EOF")}
                 ELSE {HandleReadData(s, r.id, r.chunk, w) : w \in BOOLEAN}
          [] r.type = "WRITE" ->
                 {HandleStatus(Written(s, op, r), r.id, "OK")}
          [] r.type = "MKDIR" -> {status("OK"), status("FAILURE")}
          [] OTHER -> {status("OK")}

(* Handles are opened and closed with the answer, whatever it says of the  *)
(* closing.                                                                *)
HandlesAfter(r, s) ==
    LET op == jobs[r.id]
    IN  CASE r.type \in {"OPEN", "OPENDIR"} ->
                 IF r.id \in DOMAIN s.jobs THEN handles \union {op} ELSE handles
          [] r.type = "CLOSE" -> handles \ {op}
          [] OTHER -> handles

(* handleCurrentPacket() of the answer to a request.  If lookupJob() does  *)
(* not know the request, the server is accused of a protocol error.        *)
ServerAnswers ==
    /\ Initialized
    /\ \E r \in requests :
          IF r.id \in DOMAIN jobs
          THEN /\ \E s \in Answers([Now EXCEPT !.requests = @ \ {r}], r) :
                     Becomes(s) /\ handles' = HandlesAfter(r, s)
               /\ UNCHANGED <<channelState, sftpState, issued, names>>
          ELSE CloseHook("Accused")

(* handleName() *)
HandleName ==
    /\ Initialized /\ names < MaxNames
    /\ \E r \in requests :
          /\ r.type = "READDIR"
          /\ Becomes(Send([Now EXCEPT !.requests = @ \ {r}], r.id, "READDIR"))
    /\ names' = names + 1
    /\ UNCHANGED <<channelState, sftpState, issued, handles>>

(* handleChannelClose(), or the end of the connection, at any time.        *)
ChannelCloses ==
    /\ channelState \in {"SessionRequested", "SessionEstablished",
                         "CloseRequested"}
    /\ CloseHook("Closed")

----------------------------------------------------------------------------
(* The user.                                                               *)
Initialize ==
    /\ channelState = "Inactive"
    /\ channelState' = "SessionRequested" /\ sftpState' = "SubsystemRequested"
    /\ requests' = {Requested("SESSION")}
    /\ UNCHANGED <<jobs, ops, uploadDirs, nextJobId, signals, NotOperations>>

(* What the functions that start an operation create.                      *)
NewOperations(type) ==
    CASE type = "UploadFile" ->
             {UploadOf(f, a, 0) : f \in {g \in LocalFiles : g.opens},
                                  a \in BOOLEAN}
      [] OTHER -> {Operation(type)}

StartOperation ==
    /\ Initialized /\ Cardinality(issued) < MaxJobs /\ uploadDirs = NoMap
    /\ \E type \in Operations \ {"UploadDir"} :
          \E op \in NewOperations(type) : Becomes(CreateJob(Now, op))
    /\ issued' = issued \union {nextJobId'}
    /\ UNCHANGED <<channelState, sftpState, handles, names>>

(* uploadDir(): the id of the whole is not that of a request.  Bound:      *)
(* nothing runs beside it but its own parts, which run beside each other.  *)
FilesOf(levels) ==
    LET upTo[i \in 0..Len(levels)] ==
            IF i = 0 THEN 0 ELSE upTo[i - 1] + Len(levels[i])
    IN  upTo[Len(levels)]

Directories ==
    {levels \in UNION {[1..depth -> UNION {[1..n -> LocalFiles] :
                                              n \in 0..MaxDirFiles}] :
                          depth \in 1..MaxDepth} :
        FilesOf(levels) <= MaxDirFiles}

UploadDir ==
    /\ "UploadDir" \in Operations /\ Initialized /\ issued = {}
    /\ \E levels \in Directories :
          LET dir == NewId(Now)
              id == dir.nextJobId
              t == CreateJob(dir, [Operation("MakeDir") EXCEPT !.parent = id])
              new == [hasError |-> FALSE, uploads |-> {}, levels |-> levels,
                      mkdirs |-> With(NoMap, t.nextJobId, 1)]
          IN  /\ Becomes([t EXCEPT !.uploadDirs = With(@, id, new)])
              /\ issued' = issued \union {id}
    /\ UNCHANGED <<channelState, sftpState, handles, names>>

CloseChannel ==
    \/ channelState = "Inactive" /\ CloseHook("Closed")
    \/ /\ channelState \in {"SessionRequested", "SessionEstablished"}
       /\ RequestClose

User == Initialize \/ StartOperation \/ UploadDir \/ CloseChannel

----------------------------------------------------------------------------
Server == SetupAnswers \/ ServerAnswers \/ HandleName

Next == Server \/ User \/ ChannelCloses

(* Weak fairness of ServerAnswers, which is enabled exactly when there is  *)
(* something to answer.                                                    *)
Answerable == Initialized /\ requests # {}

(* The server answers, and closes what is to be closed; users, connections *)
(* and longer lists are free.                                              *)
Fairness ==
    /\ WF_vars(SetupAnswers)
    /\ []<>~Answerable \/ []<><<ServerAnswers>>_vars
    /\ WF_vars(channelState = "CloseRequested" /\ ChannelCloses)

Spec == Init /\ [][Next]_vars /\ Fairness

----------------------------------------------------------------------------
(* Properties.                                                             *)

(* The state of the channel as the user sees it, and what was reported.    *)
(* Two things that follow the failure of a part of an uploaded directory   *)
(* are not promised away: what is reported under the id of such a part,    *)
(* which is nobody's (OnlyRespectiveJobs), is left out; and the accusation *)
(* of a server that answers both the SSH_FXP_CLOSE and the SSH_FXP_WRITE   *)
(* that handleHandle() then sends under one id is the end of the channel.  *)
DirectoryFailed == \E dir \in DOMAIN uploadDirs : uploadDirs[dir].hasError

PublicState ==
    CASE Initialized -> "open"
      [] channelState = "Closed" -> "closed"
      [] channelState = "CloseRequested" -> "closing"
      [] channelState = "Accused" ->
             IF DirectoryFailed THEN "closed" ELSE "accused"
      [] OTHER -> "new"

OfFailedDirectory(id) == id \in DOMAIN ops /\ ParentHasError(Now, id)

Outcomes ==
    {<<id, signals[id]>> :
        id \in {i \in DOMAIN signals :
                    signals[i] # <<>> /\ ~OfFailedDirectory(i)}}

(* The refinement of the contract: what the user was given an id for is    *)
(* reported once at most and under this id, never after the end, and the   *)
(* server, which keeps to the protocol, is not accused.                    *)
Contract ==
    INSTANCE SftpContract WITH channel <- PublicState, results <- Outcomes

ContractSpec == Contract!Spec

Succeeded(id) == "ok" \in Range(signals[id])

(* A transfer that is reported as a success has moved every chunk of the   *)
(* file (that could be read, of a local file that was cut short) to its    *)
(* place, whatever the order of the answers; an upload of a directory has  *)
(* done so with every file at every level.                                 *)
Complete(op) ==
    LET job == ops[op]
        base == IF job.append THEN job.remote ELSE 0
        size == IF job.type = "Download" THEN job.remote ELSE job.readable
    IN  job.contents = {<<base + c, c>> : c \in 0..(size - 1)}

Files(dir) == {op \in DOMAIN ops : ops[op].type = "UploadFile"
                                   /\ ops[op].parent = dir}

TransfersAreComplete ==
    /\ \A op \in DOMAIN ops :
          ops[op].type \in Transfers /\ Succeeded(op) => Complete(op)
    /\ \A dir \in DOMAIN uploadDirs :
          Succeeded(dir) =>
              /\ Cardinality(Files(dir)) = FilesOf(uploadDirs[dir].levels)
              /\ \A op \in Files(dir) : Complete(op)

(* While the channel is open, every handle that the server holds is going  *)
(* to be closed: it belongs to an operation with a request in flight, or   *)
(* its SSH_FXP_CLOSE is under way.  The code loses a handle in two cases.  *)
(* When the size of a file to append to is refused, finishTransferRequest()*)
(* counts a request off that was never counted; and when a local file      *)
(* yields less than the first requests want, the last one does not know it.*)
SizeRefused(op) == ops[op].append /\ ops[op].inFlightCount < 0

CutShort(op) == ops[op].readable < ops[op].fileSize

IsClosing(op) == \E r \in requests : r.type = "CLOSE" /\ r.id = op

HandlesAreClosed ==
    Initialized =>
        \A op \in handles : \/ op \in Range(jobs) \/ IsClosing(op)
                            \/ SizeRefused(op) \/ CutShort(op)

(* Operations do not hang: again and again, everything that was started    *)
(* has been reported, or the channel is on its way to its end; but for the *)
(* uploads of files that were cut short, alone or in a directory, and of   *)
(* directories of which only a part was reported.                          *)
MayHang(id) ==
    \/ id \in DOMAIN ops /\ CutShort(id)
    \/ \E op \in DOMAIN ops : /\ ops[op].parent = id
                             /\ (CutShort(op) \/ signals[op] # <<>>)

JobsEnd ==
    []<>(Initialized => \A id \in issued : signals[id] # <<>> \/ MayHang(id))

(* "the finished() signal is emitted for the respective job": finished()   *)
(* is emitted with ids the user was given only.                            *)
OnlyRespectiveJobs ==
    \A id \in DOMAIN signals : signals[id] # <<>> => id \in issued

=============================================================================
