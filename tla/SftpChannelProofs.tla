-------------------------- MODULE SftpChannelProofs --------------------------
(***************************************************************************)
(* Proofs about SftpChannel with local files that are whole: they open, and*)
(* yield as many chunks as their size says (FilesAreWhole).  The server may*)
(* refuse whatever it likes.  No handle is lost but the one of a file whose*)
(* size was refused; a transfer that is reported as a success is complete; *)
(* and the channel implements SftpContract.                                *)
(*                                                                         *)
(* What is to be known of an operation is a relation of five values: its   *)
(* record, its id, the ids of its requests in flight, these requests, and  *)
(* what was reported of it (OpInv).  An answer concerns the values of one  *)
(* operation, so it is shown once that those of the others stay the same.  *)
(***************************************************************************)
EXTENDS SftpChannel, SequenceLemmas

FilesAreWhole ==
    \A f \in LocalFiles : f.opens /\ f.readable = f.size /\ ~f.unreadable

----------------------------------------------------------------------------
(* Types.                                                                  *)
Maps(A, B) == UNION {[D -> B] : D \in SUBSET A}

Types == {"StatFile", "ListDir", "MakeDir", "Rm", "CreateFile", "Download",
          "UploadFile"}

Op == [type : Types,
       state : {"Inactive", "OpenRequested", "Open", "CloseRequested"},
       hasError : BOOLEAN, parent : Nat, append : BOOLEAN, fileSize : Nat,
       offset : Nat, inFlightCount : Int, statRequested : BOOLEAN,
       eofId : Nat, offsets : Maps(Nat, Nat), position : Nat,
       readable : Nat, unreadable : BOOLEAN, remote : Nat,
       contents : SUBSET (Nat \X Nat)]

Dir == [hasError : BOOLEAN, uploads : SUBSET Nat, mkdirs : Maps(Nat, Nat),
        levels : Seq(Seq(LocalFiles))]

(* The requests that need a handle, and all of them.                       *)
OnHandles == {"READDIR", "CLOSE", "FSTAT", "READ", "WRITE"}
RequestTypes == OnHandles \union
                {"OPEN", "OPENDIR", "STAT", "MKDIR", "REMOVE"}

Request == [id : Nat, type : RequestTypes, offset : Nat, chunk : Nat]

Results == Seq({"ok", "failed"})

State == [jobs : Maps(Nat, Nat), ops : Maps(Nat, Op),
          uploadDirs : Maps(Nat, Dir), nextJobId : Nat,
          requests : SUBSET Request, signals : Maps(Nat, Results)]

----------------------------------------------------------------------------
(* The ids of the requests of an operation, and the requests.              *)
Ids(s, op) == {i \in DOMAIN s.jobs : s.jobs[i] = op}
Sent(s, op) == {r \in s.requests : r.id \in Ids(s, op)}

(* Where a transfer writes its first chunk.                                *)
Base(job) == IF job.append THEN job.remote ELSE 0

CompleteJob(job) ==
    LET size == IF job.type = "Download" THEN job.remote ELSE job.fileSize
    IN  job.contents = {<<Base(job) + c, c>> : c \in 0..(size - 1)}

(* The only request in flight, with id i.                                  *)
Only(i, type, I, Q) ==
    I = {i} /\ Q = {[id |-> i, type |-> type, offset |-> 0, chunk |-> 0]}

(* Every id has its request.                                               *)
OneEach(I, Q) ==
    /\ \A r \in Q : r.id \in I
    /\ \A i \in I : \E r \in Q : r.id = i
    /\ \A q, r \in Q : q.id = r.id => q = r

(* The chunks of an upload are in place or on their way.                   *)
UploadData(job, Q) ==
    /\ job.offset = Base(job) + job.position
    /\ job.position <= job.readable
    /\ \A r \in Q : r.chunk < job.position /\ r.offset = Base(job) + r.chunk
    /\ \A p \in job.contents :
          p[2] < job.position /\ p[1] = Base(job) + p[2]
    /\ \A c \in 0..(job.position - 1) :
          \/ <<Base(job) + c, c>> \in job.contents
          \/ \E r \in Q : r.chunk = c

(* Those of a download were stored or are asked for; when its size is not  *)
(* known, one after the other.                                             *)
DownloadData(job, I, Q) ==
    /\ \A r \in Q : /\ r.chunk = r.offset /\ r.offset < job.offset
                    /\ r.id \in DOMAIN job.offsets
                    /\ job.offsets[r.id] = r.offset
    /\ \A p \in job.contents :
          p[1] = p[2] /\ p[2] < job.offset /\ p[2] < job.remote
    /\ \A c \in 0..(job.offset - 1) :
          <<c, c>> \in job.contents \/ \E r \in Q : r.offset = c
    /\ \/ /\ job.fileSize = job.remote /\ job.fileSize # 0
          /\ job.offset <= job.fileSize
       \/ /\ job.fileSize = 0 /\ I = {job.eofId}
          /\ \A r \in Q : r.offset + 1 = job.offset

Data(job, I, Q) ==
    IF job.type = "Download" THEN DownloadData(job, I, Q)
    ELSE UploadData(job, Q)

(* The stages of an operation.                                             *)
Fresh(job) ==
    /\ ~job.hasError /\ job.offset = 0 /\ job.position = 0
    /\ job.contents = {} /\ job.inFlightCount = 0

Requesting(job, op, I, Q) ==
    /\ Only(op, InitialRequest(job.type), I, Q) /\ Fresh(job)
    /\ ~job.statRequested
    /\ job.state = IF job.type \in WithHandle THEN "OpenRequested"
                   ELSE "Inactive"

Listing(job, op, I, Q) ==
    /\ job.type = "ListDir"
    /\ \/ Only(op, "READDIR", I, Q) /\ job.state = "Open" /\ ~job.hasError
       \/ Only(op, "CLOSE", I, Q) /\ job.state = "CloseRequested"

Creating(job, op, I, Q) ==
    /\ job.type = "CreateFile" /\ Only(op, "CLOSE", I, Q) /\ ~job.hasError

Asking(job, op, I, Q) ==
    /\ \/ job.type = "Download"
       \/ job.type = "UploadFile" /\ job.append
    /\ job.parent = 0
    /\ Only(op, "FSTAT", I, Q) /\ Fresh(job)
    /\ job.state = "Open" /\ job.statRequested

Moving(job, I, Q) ==
    /\ job.type \in Transfers /\ job.state = "Open"
    /\ job.type = "Download" => ~job.statRequested
    /\ I # {} /\ IsFiniteSet(I)
    /\ \A r \in Q : r.type = IF job.type = "Download" THEN "READ" ELSE "WRITE"
    /\ ~job.hasError => Data(job, I, Q)

Closing(job, I, Q) ==
    /\ job.type \in Transfers /\ job.state = "CloseRequested"
    /\ \E i \in Nat : Only(i, "CLOSE", I, Q)
    /\ ~job.hasError => CompleteJob(job)

Stage(job, op, I, Q) ==
    \/ Requesting(job, op, I, Q)
    \/ Listing(job, op, I, Q)
    \/ Creating(job, op, I, Q)
    \/ Asking(job, op, I, Q)
    \/ Moving(job, I, Q) /\ job.inFlightCount = Cardinality(I)
    \/ Closing(job, I, Q)

(* What holds of an operation at every stage.                              *)
Shape(job) ==
    /\ job.type # "UploadFile" => ~job.append
    /\ job.type = "UploadFile" => job.readable = job.fileSize /\ ~job.unreadable
    /\ job.parent # 0 => /\ job.type \in {"MakeDir", "UploadFile"}
                         /\ ~job.append /\ ~job.hasError

(* What was reported of it: its error; nothing of a part of a directory.   *)
Reported(job, I, sig) ==
    /\ job.parent # 0 => sig = <<>>
    /\ job.parent = 0 /\ I # {} =>
          sig = IF job.hasError THEN <<"failed">> ELSE <<>>
    /\ job.type \in Transfers /\ "ok" \in Range(sig) => CompleteJob(job)
    /\ job.type = "UploadFile" /\ job.parent # 0 /\ I = {} => CompleteJob(job)

OpInv(job, op, I, Q, sig) ==
    /\ Shape(job)
    /\ Reported(job, I, sig)
    /\ I = {} \/ Stage(job, op, I, Q)

----------------------------------------------------------------------------
(* Directories.                                                            *)
Kids(s, d) == {op \in DOMAIN s.ops : s.ops[op].parent = d}
FilesIn(s, d) == {op \in Kids(s, d) : s.ops[op].type = "UploadFile"}
DirsIn(s, d) == Kids(s, d) \ FilesIn(s, d)

(* The numbers of files at the first levels.                               *)
Counts(levels) ==
    LET upTo[i \in 0..Len(levels)] ==
            IF i = 0 THEN 0 ELSE upTo[i - 1] + Len(levels[i])
    IN  upTo

(* The top level was refused, a level is being created, or all are there.  *)
Refused(s, d) ==
    LET dir == s.uploadDirs[d]
    IN  /\ dir.hasError /\ dir.mkdirs = NoMap /\ dir.uploads = {}
        /\ s.signals[d] = <<"failed">>
        /\ Kids(s, d) = {d + 1} /\ Ids(s, d + 1) = {}

AtLevel(s, d) ==
    LET dir == s.uploadDirs[d]
    IN  /\ ~dir.hasError /\ s.signals[d] = <<>>
        /\ \E m \in DirsIn(s, d), k \in 1..Len(dir.levels) :
              /\ dir.mkdirs = With(NoMap, m, k)
              /\ \A o \in DirsIn(s, d) : Ids(s, o) # {} => o = m
              /\ Cardinality(FilesIn(s, d)) = Counts(dir.levels)[k - 1]
              /\ IF k = 1 THEN Kids(s, d) = {d + 1} ELSE m # d + 1

AllCreated(s, d) ==
    LET dir == s.uploadDirs[d]
    IN  /\ ~dir.hasError /\ dir.mkdirs = NoMap
        /\ \A o \in DirsIn(s, d) : Ids(s, o) = {}
        /\ Cardinality(FilesIn(s, d)) = Counts(dir.levels)[Len(dir.levels)]
        /\ s.signals[d] = IF dir.uploads = {} THEN <<"ok">> ELSE <<>>

DirInv(s, d) ==
    /\ s.uploadDirs[d].levels # <<>>
    /\ d + 1 \in DirsIn(s, d)
    /\ IsFiniteSet(FilesIn(s, d))
    /\ s.uploadDirs[d].uploads = {f \in FilesIn(s, d) : Ids(s, f) # {}}
    /\ Refused(s, d) \/ AtLevel(s, d) \/ AllCreated(s, d)

----------------------------------------------------------------------------
(* The invariant of a channel in use.                                      *)
Plain(s) ==
    /\ s \in State
    /\ DOMAIN s.signals = 1..s.nextJobId
    /\ DOMAIN s.ops \subseteq 1..s.nextJobId
    /\ DOMAIN s.uploadDirs \subseteq (1..s.nextJobId) \ DOMAIN s.ops
    /\ DOMAIN s.jobs \subseteq 1..s.nextJobId
    /\ \A i \in DOMAIN s.jobs : s.jobs[i] \in DOMAIN s.ops
    /\ \A op \in DOMAIN s.ops :
          s.ops[op].parent \in {0} \union DOMAIN s.uploadDirs
    /\ \A d, e \in DOMAIN s.uploadDirs : d = e

Wired(s) == Plain(s) /\ OneEach(DOMAIN s.jobs, s.requests)

OpsInv(s) ==
    \A op \in DOMAIN s.ops :
       OpInv(s.ops[op], op, Ids(s, op), Sent(s, op), s.signals[op])

DirsInv(s) == \A d \in DOMAIN s.uploadDirs : DirInv(s, d)

Good(s) == Wired(s) /\ OpsInv(s) /\ DirsInv(s)

----------------------------------------------------------------------------
(* Maps.                                                                   *)
LEMMA MapType ==
    ASSUME NEW A, NEW B, NEW f \in Maps(A, B)
    PROVE  f \in [DOMAIN f -> B] /\ DOMAIN f \in SUBSET A
  BY DEF Maps

LEMMA MapIs ==
    ASSUME NEW A, NEW B, NEW D \in SUBSET A, NEW f \in [D -> B]
    PROVE  f \in Maps(A, B)
  BY DEF Maps

LEMMA NoMapType ==
    ASSUME NEW A, NEW B
    PROVE  NoMap \in Maps(A, B) /\ DOMAIN NoMap = {}
<1>1. NoMap \in [{} -> B] /\ DOMAIN NoMap = {}
  BY DEF NoMap
<1> QED
  BY <1>1, MapIs

LEMMA MapWith ==
    ASSUME NEW A, NEW B, NEW f \in Maps(A, B), NEW a \in A, NEW b \in B
    PROVE  /\ With(f, a, b) \in Maps(A, B)
           /\ DOMAIN With(f, a, b) = DOMAIN f \union {a}
           /\ With(f, a, b)[a] = b
           /\ \A x \in DOMAIN f : x # a => With(f, a, b)[x] = f[x]
<1>1. f \in [DOMAIN f -> B] /\ DOMAIN f \in SUBSET A
  BY MapType
<1>2. /\ With(f, a, b) \in [DOMAIN f \union {a} -> B]
      /\ With(f, a, b)[a] = b
      /\ \A x \in DOMAIN f : x # a => With(f, a, b)[x] = f[x]
  BY <1>1 DEF With
<1> QED
  BY <1>1, <1>2, MapIs

LEMMA WithType ==
    ASSUME NEW A, NEW B, NEW f \in Maps(A, B), NEW a \in A, NEW b \in B
    PROVE  With(f, a, b) \in Maps(A, B)
  BY MapWith

LEMMA MapWithout ==
    ASSUME NEW A, NEW B, NEW f \in Maps(A, B), NEW a
    PROVE  Without(f, a) \in Maps(A, B)
<1>1. f \in [DOMAIN f -> B] /\ DOMAIN f \in SUBSET A
  BY MapType
<1>2. Without(f, a) \in [DOMAIN f \ {a} -> B]
  BY <1>1 DEF Without
<1> QED
  BY <1>1, <1>2, MapIs

LEMMA MapExcept ==
    ASSUME NEW A, NEW B, NEW f \in Maps(A, B), NEW a \in DOMAIN f, NEW b \in B
    PROVE  [f EXCEPT ![a] = b] \in Maps(A, B)
<1>1. f \in [DOMAIN f -> B] /\ DOMAIN f \in SUBSET A
  BY MapType
<1>2. [f EXCEPT ![a] = b] \in [DOMAIN f -> B]
  BY <1>1
<1> QED
  BY <1>1, <1>2, MapIs

LEMMA StateType ==
    ASSUME NEW s \in State
    PROVE  /\ s.jobs \in Maps(Nat, Nat)
           /\ s.jobs \in [DOMAIN s.jobs -> Nat] /\ DOMAIN s.jobs \subseteq Nat
           /\ s.ops \in Maps(Nat, Op)
           /\ s.ops \in [DOMAIN s.ops -> Op] /\ DOMAIN s.ops \subseteq Nat
           /\ s.uploadDirs \in Maps(Nat, Dir)
           /\ s.uploadDirs \in [DOMAIN s.uploadDirs -> Dir]
           /\ DOMAIN s.uploadDirs \subseteq Nat
           /\ s.nextJobId \in Nat
           /\ s.requests \in SUBSET Request
           /\ s.signals \in Maps(Nat, Results)
           /\ s.signals \in [DOMAIN s.signals -> Results]
           /\ DOMAIN s.signals \subseteq Nat
<1>1. /\ s.jobs \in Maps(Nat, Nat) /\ s.ops \in Maps(Nat, Op)
      /\ s.uploadDirs \in Maps(Nat, Dir) /\ s.nextJobId \in Nat
      /\ s.requests \in SUBSET Request /\ s.signals \in Maps(Nat, Results)
  BY DEF State
<1> QED
  BY <1>1, MapType

(* A record of the six maps and sets is a state.                           *)
LEMMA StateIs ==
    ASSUME NEW s \in State, NEW jj \in Maps(Nat, Nat), NEW oo \in Maps(Nat, Op),
           NEW uu \in Maps(Nat, Dir), NEW nn \in Nat,
           NEW rr \in SUBSET Request, NEW ss \in Maps(Nat, Results)
    PROVE  [jobs |-> jj, ops |-> oo, uploadDirs |-> uu, nextJobId |-> nn,
            requests |-> rr, signals |-> ss] \in State
  BY DEF State
----------------------------------------------------------------------------
(* Answering a request q of op, step by step: s is p without q, and op     *)
(* became job, of which sig was reported.                                  *)
Same(p, t, op, job, sig) ==
    /\ t \in State
    /\ t.ops = [p.ops EXCEPT ![op] = job]
    /\ t.signals = [p.signals EXCEPT ![op] = sig]
    /\ t.uploadDirs = p.uploadDirs /\ t.nextJobId = p.nextJobId

At(p, s, q, op, job, sig) ==
    /\ Same(p, s, op, job, sig)
    /\ s.jobs = p.jobs /\ s.requests = p.requests \ {q}

(* Another request goes out under the same id, or its id is given up.      *)
Replies(p, t, q, op, job, sig, r) ==
    /\ Same(p, t, op, job, sig)
    /\ t.jobs = p.jobs /\ t.requests = (p.requests \ {q}) \union {r}

Leaves(p, t, q, op, job, sig) ==
    /\ Same(p, t, op, job, sig)
    /\ t.jobs = Without(p.jobs, q.id)
    /\ t.requests = p.requests \ {q}

(* q is a request of op.                                                   *)
Of(p, q, op) ==
    /\ p \in State /\ q \in p.requests
    /\ q.id \in DOMAIN p.jobs /\ p.jobs[q.id] = op
    /\ op \in DOMAIN p.ops /\ op \in DOMAIN p.signals

LEMMA AtStart ==
    ASSUME NEW p, NEW q, NEW op, Of(p, q, op)
    PROVE  At(p, [p EXCEPT !.requests = @ \ {q}], q, op, p.ops[op], p.signals[op])
<1> DEFINE s == [p EXCEPT !.requests = @ \ {q}]
<1>1. /\ s.ops = p.ops /\ s.signals = p.signals /\ s.jobs = p.jobs
      /\ s.uploadDirs = p.uploadDirs /\ s.nextJobId = p.nextJobId
      /\ s.requests = p.requests \ {q} /\ s \in State
  BY DEF Of, State
<1>2. /\ p.ops = [p.ops EXCEPT ![op] = p.ops[op]]
      /\ p.signals = [p.signals EXCEPT ![op] = p.signals[op]]
  BY StateType DEF Of
<1> HIDE DEF s
<1>3. At(p, s, q, op, p.ops[op], p.signals[op])
  BY <1>1, <1>2 DEF At, Same
<1> QED
  BY <1>3 DEF s

(* What a handler works on.                                                *)
LEMMA AtFacts ==
    ASSUME NEW p, NEW s, NEW q, NEW op, NEW job, NEW sig,
           Of(p, q, op), At(p, s, q, op, job, sig)
    PROVE  /\ s \in State /\ s.ops[op] = job /\ s.signals[op] = sig
           /\ op \in DOMAIN s.ops /\ op \in DOMAIN s.signals
           /\ q.id \in DOMAIN s.jobs /\ s.jobs[q.id] = op /\ q.id \in Nat
           /\ job \in Op /\ sig \in Results
  BY StateType DEF Of, At, Same, Request

LEMMA AtJob ==
    ASSUME NEW p, NEW s, NEW t, NEW q, NEW op, NEW job, NEW sig,
           NEW new, NEW result,
           Of(p, q, op), At(p, s, q, op, job, sig),
           t \in State, t.jobs = s.jobs, t.requests = s.requests,
           t.uploadDirs = s.uploadDirs, t.nextJobId = s.nextJobId,
           t.ops = [s.ops EXCEPT ![op] = new],
           t.signals = [s.signals EXCEPT ![op] = result]
    PROVE  At(p, t, q, op, new, result)
<1>1. /\ [s.ops EXCEPT ![op] = new] = [p.ops EXCEPT ![op] = new]
      /\ [s.signals EXCEPT ![op] = result] = [p.signals EXCEPT ![op] = result]
  BY StateType DEF Of, At, Same
<1> QED
  BY <1>1 DEF At, Same

LEMMA AtFinished ==
    ASSUME NEW p, NEW s, NEW q, NEW op, NEW job, NEW sig,
           NEW result \in {"ok", "failed"},
           Of(p, q, op), At(p, s, q, op, job, sig)
    PROVE  At(p, Finished(s, op, result), q, op, job, Append(sig, result))
<1>1. /\ s \in State /\ op \in DOMAIN s.ops /\ op \in DOMAIN s.signals
      /\ s.ops[op] = job /\ s.signals[op] = sig
      /\ job \in Op /\ sig \in Results
  BY AtFacts
<1>2. Append(sig, result) \in Results
  BY <1>1 DEF Results
<1> DEFINE t == Finished(s, op, result)
<1>3. /\ t.jobs = s.jobs /\ t.requests = s.requests
      /\ t.uploadDirs = s.uploadDirs /\ t.nextJobId = s.nextJobId
      /\ t.ops = [s.ops EXCEPT ![op] = job]
      /\ t.signals = [s.signals EXCEPT ![op] = Append(sig, result)]
  BY <1>1, StateType DEF Finished, State
<1>4. t \in State
  <2>1. [s.signals EXCEPT ![op] = Append(sig, result)] \in Maps(Nat, Results)
    BY <1>1, <1>2, StateType, MapExcept
  <2> QED BY <1>1, <2>1 DEF Finished, State
<1> HIDE DEF t
<1>5. At(p, t, q, op, job, Append(sig, result))
  BY <1>3, <1>4, AtJob
<1> QED
  BY <1>5 DEF t

LEMMA AtError ==
    ASSUME NEW p, NEW s, NEW q, NEW op, NEW job, NEW sig,
           Of(p, q, op), At(p, s, q, op, job, sig)
    PROVE  At(p, SetError(s, op), q, op, [job EXCEPT !.hasError = TRUE], sig)
<1>1. /\ s \in State /\ op \in DOMAIN s.ops /\ op \in DOMAIN s.signals
      /\ s.ops[op] = job /\ s.signals[op] = sig
      /\ job \in Op /\ sig \in Results
  BY AtFacts
<1>2. [job EXCEPT !.hasError = TRUE] \in Op
  BY <1>1 DEF Op
<1> DEFINE t == SetError(s, op)
           new == [job EXCEPT !.hasError = TRUE]
<1>3. /\ t.jobs = s.jobs /\ t.requests = s.requests
      /\ t.uploadDirs = s.uploadDirs /\ t.nextJobId = s.nextJobId
      /\ t.ops = [s.ops EXCEPT ![op] = new]
      /\ t.signals = [s.signals EXCEPT ![op] = sig]
  BY <1>1, StateType DEF SetError, State
<1>4. t \in State
  <2>1. [s.ops EXCEPT ![op] = new] \in Maps(Nat, Op)
    BY <1>1, <1>2, StateType, MapExcept
  <2> QED BY <1>1, <2>1 DEF SetError, State
<1> HIDE DEF t, new
<1>5. At(p, t, q, op, new, sig)
  BY <1>3, <1>4, AtJob
<1> QED
  BY <1>5 DEF t, new

LEMMA AtReport ==
    ASSUME NEW p, NEW s, NEW q, NEW op, NEW job, NEW sig,
           Of(p, q, op), At(p, s, q, op, job, sig)
    PROVE  At(p, ReportRequestError(s, op), q, op,
              [job EXCEPT !.hasError = TRUE], Append(sig, "failed"))
  BY AtFinished, AtError DEF ReportRequestError

(* A request under the same id.                                            *)
LEMMA AtSend ==
    ASSUME NEW p, NEW s, NEW q, NEW op, NEW job, NEW sig,
           NEW type \in RequestTypes, NEW offset \in Nat, NEW chunk \in Nat,
           NEW new \in Op, NEW t,
           Of(p, q, op), At(p, s, q, op, job, sig),
           t = [SendData(s, q.id, type, offset, chunk) EXCEPT
                   !.ops = [s.ops EXCEPT ![op] = new]]
    PROVE  Replies(p, t, q, op, new, sig,
                   [id |-> q.id, type |-> type, offset |-> offset,
                    chunk |-> chunk])
<1> DEFINE r == [id |-> q.id, type |-> type, offset |-> offset, chunk |-> chunk]
<1>1. /\ s \in State /\ op \in DOMAIN s.ops /\ op \in DOMAIN s.signals
      /\ s.ops[op] = job /\ s.signals[op] = sig /\ q.id \in Nat
  BY AtFacts
<1>2. [s.ops EXCEPT ![op] = new] \in Maps(Nat, Op)
  BY <1>1, StateType, MapExcept
<1>3. r \in Request
  BY <1>1 DEF Request
<1>4. /\ t.ops = [s.ops EXCEPT ![op] = new] /\ t.jobs = s.jobs
      /\ t.signals = s.signals
      /\ t.uploadDirs = s.uploadDirs /\ t.nextJobId = s.nextJobId
      /\ t.requests = s.requests \union {r} /\ t \in State
  <2> HIDE DEF r
  <2>1. t = [s EXCEPT !.requests = s.requests \union {r},
                      !.ops = [s.ops EXCEPT ![op] = new]]
    BY <1>1 DEF SendData, State, r
  <2>2. s.requests \union {r} \in SUBSET Request
    BY <1>1, <1>3, StateType
  <2> QED BY <1>1, <1>2, <2>1, <2>2 DEF State
<1>5. [s.ops EXCEPT ![op] = new] = [p.ops EXCEPT ![op] = new]
  BY StateType DEF Of, At, Same
<1> HIDE DEF r
<1>6. Replies(p, t, q, op, new, sig, r)
  BY <1>4, <1>5 DEF At, Same, Replies
<1> QED
  BY <1>6 DEF r

LEMMA AtSendPlain ==
    ASSUME NEW p, NEW s, NEW q, NEW op, NEW job, NEW sig,
           NEW type \in RequestTypes,
           Of(p, q, op), At(p, s, q, op, job, sig)
    PROVE  Replies(p, Send(s, q.id, type), q, op, job, sig,
                   [id |-> q.id, type |-> type, offset |-> 0, chunk |-> 0])
<1>1. s \in State /\ op \in DOMAIN s.ops /\ s.ops[op] = job /\ job \in Op
  BY AtFacts
<1>2. Send(s, q.id, type) = [SendData(s, q.id, type, 0, 0) EXCEPT
                                !.ops = [s.ops EXCEPT ![op] = job]]
  BY <1>1, StateType DEF Send, SendData, State
<1> QED
  BY <1>1, <1>2, AtSend

LEMMA AtState ==
    ASSUME NEW p, NEW s, NEW q, NEW op, NEW job, NEW sig,
           NEW type \in RequestTypes,
           NEW state \in {"Inactive", "OpenRequested", "Open", "CloseRequested"},
           Of(p, q, op), At(p, s, q, op, job, sig)
    PROVE  Replies(p, [Send(s, q.id, type) EXCEPT !.ops[op].state = state],
                   q, op, [job EXCEPT !.state = state], sig,
                   [id |-> q.id, type |-> type, offset |-> 0, chunk |-> 0])
<1>1. s \in State /\ op \in DOMAIN s.ops /\ s.ops[op] = job /\ job \in Op
  BY AtFacts
<1>2. [Send(s, q.id, type) EXCEPT !.ops[op].state = state] =
        [SendData(s, q.id, type, 0, 0) EXCEPT
            !.ops = [s.ops EXCEPT ![op] = [job EXCEPT !.state = state]]]
  BY <1>1, StateType DEF Send, SendData, State
<1>3. [job EXCEPT !.state = state] \in Op
  BY <1>1 DEF Op
<1> QED
  BY <1>1, <1>2, <1>3, AtSend

LEMMA AtClose ==
    ASSUME NEW p, NEW s, NEW q, NEW op, NEW job, NEW sig,
           Of(p, q, op), At(p, s, q, op, job, sig),
           job.state # "CloseRequested"
    PROVE  Replies(p, SendTransferCloseHandle(s, op, q.id), q, op,
                   [job EXCEPT !.state = "CloseRequested"], sig,
                   [id |-> q.id, type |-> "CLOSE", offset |-> 0, chunk |-> 0])
<1>1. s.ops[op] = job
  BY AtFacts
<1>2. SendTransferCloseHandle(s, op, q.id) =
          [Send(s, q.id, "CLOSE") EXCEPT !.ops[op].state = "CloseRequested"]
  BY <1>1 DEF SendTransferCloseHandle, Send
<1>3. "CLOSE" \in RequestTypes
  BY DEF RequestTypes, OnHandles
<1>4. Replies(p, [Send(s, q.id, "CLOSE") EXCEPT !.ops[op].state = "CloseRequested"],
              q, op, [job EXCEPT !.state = "CloseRequested"], sig,
              [id |-> q.id, type |-> "CLOSE", offset |-> 0, chunk |-> 0])
  BY <1>3, AtState
<1> QED
  BY <1>2, <1>4

(* The id is given up.                                                     *)
LEMMA AtErase ==
    ASSUME NEW p, NEW s, NEW q, NEW op, NEW job, NEW sig,
           Of(p, q, op), At(p, s, q, op, job, sig)
    PROVE  Leaves(p, Erase(s, q.id), q, op, job, sig)
<1>1. s \in State
  BY AtFacts
<1>2. Without(s.jobs, q.id) \in Maps(Nat, Nat)
  BY <1>1, StateType, MapWithout
<1> DEFINE t == Erase(s, q.id)
<1>3. /\ t.jobs = Without(s.jobs, q.id)
      /\ t.ops = s.ops /\ t.signals = s.signals /\ t.requests = s.requests
      /\ t.uploadDirs = s.uploadDirs /\ t.nextJobId = s.nextJobId
  BY <1>1 DEF Erase, State
<1>4. t \in State
  BY <1>1, <1>2 DEF Erase, State
<1> HIDE DEF t
<1>5. Leaves(p, t, q, op, job, sig)
  BY <1>3, <1>4 DEF At, Same, Leaves
<1> QED
  BY <1>5 DEF t

LEMMA AtRemove ==
    ASSUME NEW p, NEW s, NEW q, NEW op, NEW job, NEW sig,
           Of(p, q, op), At(p, s, q, op, job, sig)
    PROVE  Leaves(p, RemoveTransferRequest(s, q.id), q, op,
                  [job EXCEPT !.inFlightCount = @ - 1], sig)
<1> DEFINE new == [job EXCEPT !.inFlightCount = @ - 1]
           u == [s EXCEPT !.ops[op].inFlightCount = @ - 1]
<1>1. /\ s \in State /\ op \in DOMAIN s.ops /\ op \in DOMAIN s.signals
      /\ s.ops[op] = job /\ s.signals[op] = sig /\ s.jobs[q.id] = op
      /\ job \in Op /\ sig \in Results
  BY AtFacts
<1>2. new \in Op
  BY <1>1 DEF Op
<1>3. /\ u.jobs = s.jobs /\ u.requests = s.requests
      /\ u.uploadDirs = s.uploadDirs /\ u.nextJobId = s.nextJobId
      /\ u.ops = [s.ops EXCEPT ![op] = new]
      /\ u.signals = [s.signals EXCEPT ![op] = sig]
  BY <1>1, StateType DEF State
<1>7. u \in State
  <2>1. [s.ops EXCEPT ![op] = new] \in Maps(Nat, Op)
    BY <1>1, <1>2, StateType, MapExcept
  <2> QED BY <1>1, <2>1 DEF State
<1>4. RemoveTransferRequest(s, q.id) = Erase(u, q.id)
  BY <1>1 DEF RemoveTransferRequest
<1> HIDE DEF u, new
<1>5. At(p, u, q, op, new, sig)
  BY <1>3, <1>7, AtJob
<1>6. Leaves(p, Erase(u, q.id), q, op, new, sig)
  BY <1>5, AtErase
<1> QED
  BY <1>4, <1>6 DEF new

(* The last request of a transfer closes the handle.                       *)
LEMMA AtFinish ==
    ASSUME NEW p, NEW s, NEW q, NEW op, NEW job, NEW sig,
           Of(p, q, op), At(p, s, q, op, job, sig),
           job.state # "CloseRequested"
    PROVE  IF job.inFlightCount = 1
           THEN Replies(p, FinishTransferRequest(s, q.id), q, op,
                   [job EXCEPT !.state = "CloseRequested"], sig,
                   [id |-> q.id, type |-> "CLOSE", offset |-> 0, chunk |-> 0])
           ELSE Leaves(p, FinishTransferRequest(s, q.id), q, op,
                       [job EXCEPT !.inFlightCount = @ - 1], sig)
<1>1. s.jobs[q.id] = op /\ s.ops[op] = job
  BY AtFacts
<1>2. CASE job.inFlightCount = 1
  BY <1>1, <1>2, AtClose DEF FinishTransferRequest
<1>3. CASE job.inFlightCount # 1
  BY <1>1, <1>3, AtRemove DEF FinishTransferRequest
<1> QED
  BY <1>2, <1>3

(* Reading and writing the next chunk.                                     *)
AfterRead(job, id) ==
    [job EXCEPT !.offsets = With(job.offsets, id, job.offset),
                !.offset = job.offset + 1,
                !.eofId = IF job.offset + 1 >= job.fileSize THEN id
                          ELSE job.eofId]

AfterWrite(job) == [job EXCEPT !.offset = @ + 1, !.position = @ + 1]

LEMMA ReadIs ==
    ASSUME NEW s \in State, NEW op \in DOMAIN s.ops, NEW id \in Nat,
           NEW job, s.ops[op] = job
    PROVE  LET t == SendReadRequest(s, op, id)
           IN  /\ t \in State /\ t.jobs = s.jobs /\ t.signals = s.signals
               /\ t.uploadDirs = s.uploadDirs /\ t.nextJobId = s.nextJobId
               /\ t.ops = [s.ops EXCEPT ![op] = AfterRead(job, id)]
               /\ t.requests = s.requests \union
                     {[id |-> id, type |-> "READ", offset |-> job.offset,
                       chunk |-> job.offset]}
<1> DEFINE t == SendReadRequest(s, op, id)
           r == [id |-> id, type |-> "READ", offset |-> job.offset,
                 chunk |-> job.offset]
           new == AfterRead(job, id)
<1>1. job \in Op
  BY StateType
<1>2. new \in Op
  <2>1. With(job.offsets, id, job.offset) \in Maps(Nat, Nat)
    BY <1>1, MapWith DEF Op
  <2>2. job.offset + 1 \in Nat
    BY <1>1 DEF Op
  <2>3. (IF job.offset + 1 >= job.fileSize THEN id ELSE job.eofId) \in Nat
    BY <1>1 DEF Op
  <2> DEFINE w == With(job.offsets, id, job.offset)
             n == job.offset + 1
             e == IF job.offset + 1 >= job.fileSize THEN id ELSE job.eofId
  <2>4. new = [job EXCEPT !.offsets = w, !.offset = n, !.eofId = e]
    BY <1>1 DEF AfterRead, Op
  <2>5. w \in Maps(Nat, Nat) /\ n \in Nat /\ e \in Nat
    BY <2>1, <2>2, <2>3
  <2> HIDE DEF w, n, e, new
  <2> QED BY <1>1, <2>4, <2>5 DEF Op
<1>3. r \in Request
  BY <1>1 DEF Op, Request, RequestTypes, OnHandles
<1>4. /\ [s.ops EXCEPT ![op] = new] \in Maps(Nat, Op)
      /\ s.requests \union {r} \in SUBSET Request
  BY <1>2, <1>3, StateType, MapExcept
<1>5. t = [SendData(s, id, "READ", job.offset, job.offset) EXCEPT
             !.ops[op] = new]
  BY DEF SendReadRequest, AfterRead
<1>6. SendData(s, id, "READ", job.offset, job.offset) =
          [s EXCEPT !.requests = s.requests \union {r}]
  BY DEF SendData
<1> HIDE DEF t, r, new
<1>7. t = [s EXCEPT !.requests = s.requests \union {r},
                    !.ops = [s.ops EXCEPT ![op] = new]]
  BY <1>5, <1>6 DEF State
<1>8. /\ t \in State /\ t.jobs = s.jobs /\ t.signals = s.signals
      /\ t.uploadDirs = s.uploadDirs /\ t.nextJobId = s.nextJobId
      /\ t.ops = [s.ops EXCEPT ![op] = new]
      /\ t.requests = s.requests \union {r}
  BY <1>4, <1>7 DEF State
<1> QED
  BY <1>8 DEF t, r, new

LEMMA WriteIs ==
    ASSUME NEW s \in State, NEW id \in DOMAIN s.jobs, NEW op \in DOMAIN s.ops,
           NEW job, s.jobs[id] = op, s.ops[op] = job,
           job.position < job.readable
    PROVE  LET t == SendWriteRequest(s, id)
           IN  /\ t \in State /\ t.jobs = s.jobs /\ t.signals = s.signals
               /\ t.uploadDirs = s.uploadDirs /\ t.nextJobId = s.nextJobId
               /\ t.ops = [s.ops EXCEPT ![op] = AfterWrite(job)]
               /\ t.requests = s.requests \union
                     {[id |-> id, type |-> "WRITE", offset |-> job.offset,
                       chunk |-> job.position]}
<1> DEFINE t == SendWriteRequest(s, id)
           r == [id |-> id, type |-> "WRITE", offset |-> job.offset,
                 chunk |-> job.position]
           new == AfterWrite(job)
<1>1. job \in Op /\ id \in Nat
  BY StateType
<1>2. new \in Op
  <2>1. job.offset + 1 \in Nat /\ job.position + 1 \in Nat
    BY <1>1 DEF Op
  <2> DEFINE n == job.offset + 1
             k == job.position + 1
  <2>2. new = [job EXCEPT !.offset = n, !.position = k]
    BY <1>1 DEF AfterWrite, Op
  <2>3. n \in Nat /\ k \in Nat
    BY <2>1
  <2> HIDE DEF n, k, new
  <2> QED BY <1>1, <2>2, <2>3 DEF Op
<1>3. r \in Request
  BY <1>1 DEF Op, Request, RequestTypes, OnHandles
<1>4. /\ [s.ops EXCEPT ![op] = new] \in Maps(Nat, Op)
      /\ s.requests \union {r} \in SUBSET Request
  BY <1>2, <1>3, StateType, MapExcept
<1>5. t = [SendData(s, id, "WRITE", job.offset, job.position) EXCEPT
             !.ops[op] = new]
  BY DEF SendWriteRequest, AfterWrite
<1>6. SendData(s, id, "WRITE", job.offset, job.position) =
          [s EXCEPT !.requests = s.requests \union {r}]
  BY DEF SendData
<1> HIDE DEF t, r, new
<1>7. t = [s EXCEPT !.requests = s.requests \union {r},
                    !.ops = [s.ops EXCEPT ![op] = new]]
  BY <1>5, <1>6 DEF State
<1>8. /\ t \in State /\ t.jobs = s.jobs /\ t.signals = s.signals
      /\ t.uploadDirs = s.uploadDirs /\ t.nextJobId = s.nextJobId
      /\ t.ops = [s.ops EXCEPT ![op] = new]
      /\ t.requests = s.requests \union {r}
  BY <1>4, <1>7 DEF State
<1> QED
  BY <1>8 DEF t, r, new

LEMMA AtRead ==
    ASSUME NEW p, NEW s, NEW q, NEW op, NEW job, NEW sig,
           Of(p, q, op), At(p, s, q, op, job, sig)
    PROVE  Replies(p, SendReadRequest(s, op, q.id), q, op,
                   AfterRead(job, q.id), sig,
                   [id |-> q.id, type |-> "READ", offset |-> job.offset,
                    chunk |-> job.offset])
<1> DEFINE t == SendReadRequest(s, op, q.id)
           r == [id |-> q.id, type |-> "READ", offset |-> job.offset,
                 chunk |-> job.offset]
           new == AfterRead(job, q.id)
<1>1. /\ s \in State /\ op \in DOMAIN s.ops /\ s.ops[op] = job
      /\ q.id \in Nat
  BY AtFacts
<1>2. /\ t \in State /\ t.jobs = s.jobs /\ t.signals = s.signals
      /\ t.uploadDirs = s.uploadDirs /\ t.nextJobId = s.nextJobId
      /\ t.ops = [s.ops EXCEPT ![op] = new]
      /\ t.requests = s.requests \union {r}
  BY <1>1, ReadIs
<1> HIDE DEF t, r, new
<1>3. [s.ops EXCEPT ![op] = new] = [p.ops EXCEPT ![op] = new]
  BY StateType DEF Of, At, Same
<1>4. Replies(p, t, q, op, new, sig, r)
  BY <1>2, <1>3 DEF Replies, Same, At
<1> QED
  BY <1>4 DEF t, r, new

LEMMA AtWrite ==
    ASSUME NEW p, NEW s, NEW q, NEW op, NEW job, NEW sig,
           Of(p, q, op), At(p, s, q, op, job, sig),
           job.position < job.readable
    PROVE  Replies(p, SendWriteRequest(s, q.id), q, op, AfterWrite(job), sig,
                   [id |-> q.id, type |-> "WRITE", offset |-> job.offset,
                    chunk |-> job.position])
<1> DEFINE t == SendWriteRequest(s, q.id)
           r == [id |-> q.id, type |-> "WRITE", offset |-> job.offset,
                 chunk |-> job.position]
           new == AfterWrite(job)
<1>1. /\ s \in State /\ op \in DOMAIN s.ops /\ s.ops[op] = job
      /\ q.id \in DOMAIN s.jobs /\ s.jobs[q.id] = op
  BY AtFacts
<1>2. /\ t \in State /\ t.jobs = s.jobs /\ t.signals = s.signals
      /\ t.uploadDirs = s.uploadDirs /\ t.nextJobId = s.nextJobId
      /\ t.ops = [s.ops EXCEPT ![op] = new]
      /\ t.requests = s.requests \union {r}
  BY <1>1, WriteIs
<1> HIDE DEF t, r, new
<1>3. [s.ops EXCEPT ![op] = new] = [p.ops EXCEPT ![op] = new]
  BY StateType DEF Of, At, Same
<1>4. Replies(p, t, q, op, new, sig, r)
  BY <1>2, <1>3 DEF Replies, Same, At
<1> QED
  BY <1>4 DEF t, r, new

(* At the end of the file, or on its way there, a transfer ends.           *)
LEMMA AtEndOfFile ==
    ASSUME NEW p, NEW s, NEW q, NEW op, NEW job, NEW sig,
           Of(p, q, op), At(p, s, q, op, job, sig),
           ~(job.position < job.readable), ~job.unreadable
    PROVE  SendWriteRequest(s, q.id) = FinishTransferRequest(s, q.id)
<1>1. s.ops[op] = job /\ s.jobs[q.id] = op
  BY AtFacts
<1> QED
  BY <1>1 DEF SendWriteRequest

(* The number of parallel requests.                                        *)
InFlight(size) ==
    IF size = 0 THEN 1
    ELSE IF size > MaxInFlightCount THEN MaxInFlightCount ELSE size

LEMMA AtCount ==
    ASSUME NEW p, NEW s, NEW q, NEW op, NEW job, NEW sig,
           Of(p, q, op), At(p, s, q, op, job, sig)
    PROVE  At(p, CalculateInFlightCount(s, op), q, op,
              [job EXCEPT !.inFlightCount = InFlight(job.fileSize)], sig)
<1>1. /\ s \in State /\ op \in DOMAIN s.ops /\ op \in DOMAIN s.signals
      /\ s.ops[op] = job /\ s.signals[op] = sig
      /\ job \in Op /\ sig \in Results
  BY AtFacts
<1> DEFINE t == CalculateInFlightCount(s, op)
           new == [job EXCEPT !.inFlightCount = InFlight(job.fileSize)]
<1>2. new \in Op
  BY <1>1, InFlightAssumption DEF Op, InFlight
<1>3. /\ t.jobs = s.jobs /\ t.requests = s.requests
      /\ t.uploadDirs = s.uploadDirs /\ t.nextJobId = s.nextJobId
      /\ t.ops = [s.ops EXCEPT ![op] = new]
      /\ t.signals = [s.signals EXCEPT ![op] = sig]
  BY <1>1, StateType DEF CalculateInFlightCount, InFlight, State
<1>4. t \in State
  <2>1. [s.ops EXCEPT ![op] = new] \in Maps(Nat, Op)
    BY <1>1, <1>2, StateType, MapExcept
  <2> QED BY <1>1, <2>1 DEF CalculateInFlightCount, InFlight, State
<1> HIDE DEF t, new
<1>5. At(p, t, q, op, new, sig)
  BY <1>3, <1>4, AtJob
<1> QED
  BY <1>5 DEF t, new

----------------------------------------------------------------------------
(* Nothing of another operation changes, and nothing is reported of ids    *)
(* that are new.                                                           *)
Moves(p, t, op) ==
    /\ Wired(t)
    /\ t.uploadDirs = p.uploadDirs
    /\ DOMAIN t.ops = DOMAIN p.ops
    /\ \A o \in DOMAIN p.ops : o # op => /\ t.ops[o] = p.ops[o]
                                         /\ Ids(t, o) = Ids(p, o)
                                         /\ Sent(t, o) = Sent(p, o)
    /\ t.ops[op].type = p.ops[op].type
    /\ t.ops[op].parent = p.ops[op].parent
    /\ p.nextJobId <= t.nextJobId
    /\ \A i \in 1..p.nextJobId : i # op => t.signals[i] = p.signals[i]
    /\ \A i \in (1..t.nextJobId) \ (1..p.nextJobId) : t.signals[i] = <<>>

LEMMA WiredOne ==
    ASSUME NEW s, Wired(s), NEW op
    PROVE  OneEach(Ids(s, op), Sent(s, op))
  BY DEF Wired, OneEach, Ids, Sent

LEMMA WiredFacts ==
    ASSUME NEW s, Wired(s), NEW op \in DOMAIN s.ops
    PROVE  /\ s \in State /\ op \in DOMAIN s.signals /\ op \in Nat
           /\ op \in 1..s.nextJobId /\ op \notin DOMAIN s.uploadDirs
           /\ s.ops[op] \in Op /\ s.signals[op] \in Results
           /\ s.nextJobId \in Nat
  BY StateType DEF Wired, Plain

LEMMA OfWired ==
    ASSUME NEW p, Wired(p), NEW q \in p.requests, NEW op, op = p.jobs[q.id]
    PROVE  /\ Of(p, q, op) /\ q \in Sent(p, op) /\ q.id \in Ids(p, op)
           /\ op \in DOMAIN p.ops
<1>1. q.id \in DOMAIN p.jobs /\ p.jobs[q.id] \in DOMAIN p.ops
  BY DEF Wired, Plain, OneEach
<1> QED
  BY <1>1, WiredFacts DEF Of, Sent, Ids

(* The answer is followed by another request under the same id.            *)
LEMMA RepliesMoves ==
    ASSUME NEW p, NEW t, NEW q, NEW op, NEW job, NEW sig, NEW r,
           Wired(p), Of(p, q, op), Replies(p, t, q, op, job, sig, r),
           r.id = q.id,
           job.type = p.ops[op].type, job.parent = p.ops[op].parent
    PROVE  /\ Moves(p, t, op) /\ t.ops[op] = job /\ t.signals[op] = sig
           /\ Ids(t, op) = Ids(p, op)
           /\ Sent(t, op) = (Sent(p, op) \ {q}) \union {r}
<1>1. /\ t \in State /\ t.ops = [p.ops EXCEPT ![op] = job]
      /\ t.signals = [p.signals EXCEPT ![op] = sig]
      /\ t.uploadDirs = p.uploadDirs /\ t.nextJobId = p.nextJobId
      /\ t.jobs = p.jobs /\ t.requests = (p.requests \ {q}) \union {r}
  BY DEF Replies, Same
<1>2. /\ p \in State /\ q \in p.requests /\ q.id \in DOMAIN p.jobs
      /\ p.jobs[q.id] = op /\ op \in DOMAIN p.ops /\ op \in DOMAIN p.signals
  BY DEF Of
<1>3. /\ DOMAIN t.ops = DOMAIN p.ops /\ t.ops[op] = job
      /\ \A o \in DOMAIN p.ops : o # op => t.ops[o] = p.ops[o]
      /\ DOMAIN t.signals = DOMAIN p.signals /\ t.signals[op] = sig
      /\ \A i \in DOMAIN p.signals : i # op => t.signals[i] = p.signals[i]
  BY <1>1, <1>2, StateType
<1>4. OneEach(DOMAIN t.jobs, t.requests)
  BY <1>1, <1>2 DEF Wired, OneEach
<1>5. Plain(t)
  BY <1>1, <1>2, <1>3, StateType DEF Wired, Plain
<1>6. \A o : Ids(t, o) = Ids(p, o)
  BY <1>1 DEF Ids
<1>7. \A o \in DOMAIN p.ops : o # op => Sent(t, o) = Sent(p, o)
  BY <1>1, <1>2, <1>6 DEF Sent, Ids
<1>8. Sent(t, op) = (Sent(p, op) \ {q}) \union {r}
  BY <1>1, <1>2, <1>6 DEF Sent, Ids
<1>9. /\ DOMAIN p.signals = 1..p.nextJobId /\ p.nextJobId \in Nat
  BY StateType DEF Wired, Plain
<1> QED
  BY <1>1, <1>3, <1>4, <1>5, <1>6, <1>7, <1>8, <1>9 DEF Moves, Wired

(* The id is given up with the answer.                                     *)
LEMMA LeavesMoves ==
    ASSUME NEW p, NEW t, NEW q, NEW op, NEW job, NEW sig,
           Wired(p), Of(p, q, op), Leaves(p, t, q, op, job, sig),
           job.type = p.ops[op].type, job.parent = p.ops[op].parent
    PROVE  /\ Moves(p, t, op) /\ t.ops[op] = job /\ t.signals[op] = sig
           /\ Ids(t, op) = Ids(p, op) \ {q.id}
           /\ Sent(t, op) = Sent(p, op) \ {q}
<1>1. /\ t \in State /\ t.ops = [p.ops EXCEPT ![op] = job]
      /\ t.signals = [p.signals EXCEPT ![op] = sig]
      /\ t.uploadDirs = p.uploadDirs /\ t.nextJobId = p.nextJobId
      /\ t.jobs = Without(p.jobs, q.id)
      /\ t.requests = p.requests \ {q}
  BY DEF Leaves, Same
<1>2. /\ p \in State /\ q \in p.requests /\ q.id \in DOMAIN p.jobs
      /\ p.jobs[q.id] = op /\ op \in DOMAIN p.ops /\ op \in DOMAIN p.signals
  BY DEF Of
<1>3. /\ DOMAIN t.ops = DOMAIN p.ops /\ t.ops[op] = job
      /\ \A o \in DOMAIN p.ops : o # op => t.ops[o] = p.ops[o]
      /\ DOMAIN t.signals = DOMAIN p.signals /\ t.signals[op] = sig
      /\ \A i \in DOMAIN p.signals : i # op => t.signals[i] = p.signals[i]
  BY <1>1, <1>2, StateType
<1>10. /\ DOMAIN t.jobs = DOMAIN p.jobs \ {q.id}
       /\ \A i \in DOMAIN t.jobs : t.jobs[i] = p.jobs[i]
  BY <1>1 DEF Without
<1>4. OneEach(DOMAIN t.jobs, t.requests)
  BY <1>1, <1>2, <1>10 DEF Wired, OneEach
<1>5. Plain(t)
  BY <1>1, <1>2, <1>3, <1>10, StateType DEF Wired, Plain
<1>6. /\ Ids(t, op) = Ids(p, op) \ {q.id}
      /\ \A o : o # op => Ids(t, o) = Ids(p, o)
  BY <1>2, <1>10 DEF Ids
<1>7. \A o \in DOMAIN p.ops : o # op => Sent(t, o) = Sent(p, o)
  <2>1. \A o : o # op => q.id \notin Ids(p, o)
    BY <1>2 DEF Ids
  <2> QED BY <1>1, <1>6, <2>1 DEF Sent
<1>8. Sent(t, op) = Sent(p, op) \ {q}
  BY <1>1, <1>2, <1>6 DEF Sent, Wired, OneEach
<1>9. /\ DOMAIN p.signals = 1..p.nextJobId /\ p.nextJobId \in Nat
  BY StateType DEF Wired, Plain
<1> QED
  BY <1>1, <1>3, <1>4, <1>5, <1>6, <1>7, <1>8, <1>9 DEF Moves, Wired

(* One more request, under a new id.                                       *)
OneMore(p, t, op, job, r, n) ==
    /\ t \in State /\ n = p.nextJobId + 1 /\ t.nextJobId = n /\ r.id = n
    /\ t.ops = [p.ops EXCEPT ![op] = job]
    /\ t.signals = With(p.signals, n, <<>>)
    /\ t.uploadDirs = p.uploadDirs
    /\ t.jobs = With(p.jobs, n, op) /\ t.requests = p.requests \union {r}

Sends(p, t, op, job, r, n) ==
    /\ Moves(p, t, op) /\ t.ops[op] = job
    /\ t.signals[op] = p.signals[op]
    /\ Ids(t, op) = Ids(p, op) \union {n} /\ n \notin Ids(p, op)
    /\ Sent(t, op) = Sent(p, op) \union {r}

LEMMA OneMoreMoves ==
    ASSUME NEW p, NEW t, NEW op \in DOMAIN p.ops, NEW job, NEW r, NEW n,
           Wired(p), OneMore(p, t, op, job, r, n),
           job.type = p.ops[op].type, job.parent = p.ops[op].parent
    PROVE  Sends(p, t, op, job, r, n)
<1> USE DEF OneMore
<1>1. /\ p \in State /\ p.nextJobId \in Nat /\ op \in 1..p.nextJobId
      /\ op \in Nat
  BY WiredFacts
<1>2. n \in Nat /\ <<>> \in Results
  BY <1>1 DEF Results
<1>3. /\ DOMAIN t.signals = DOMAIN p.signals \union {n}
      /\ t.signals[n] = <<>>
      /\ \A i \in DOMAIN p.signals : i # n => t.signals[i] = p.signals[i]
      /\ DOMAIN t.jobs = DOMAIN p.jobs \union {n} /\ t.jobs[n] = op
      /\ \A i \in DOMAIN p.jobs : i # n => t.jobs[i] = p.jobs[i]
  <2>2. /\ DOMAIN With(p.signals, n, <<>>) = DOMAIN p.signals \union {n}
        /\ With(p.signals, n, <<>>)[n] = <<>>
        /\ \A i \in DOMAIN p.signals :
              i # n => With(p.signals, n, <<>>)[i] = p.signals[i]
    BY DEF With
  <2>3. /\ DOMAIN With(p.jobs, n, op) = DOMAIN p.jobs \union {n}
        /\ With(p.jobs, n, op)[n] = op
        /\ \A i \in DOMAIN p.jobs :
              i # n => With(p.jobs, n, op)[i] = p.jobs[i]
    BY DEF With
  <2> QED BY <2>2, <2>3
<1>4. /\ DOMAIN p.signals = 1..p.nextJobId /\ n \notin DOMAIN p.signals
      /\ DOMAIN t.signals = 1..n /\ n \notin DOMAIN p.jobs
  <2>1. /\ DOMAIN p.signals = 1..p.nextJobId
        /\ DOMAIN p.jobs \subseteq 1..p.nextJobId
    BY DEF Wired, Plain
  <2>2. n \notin 1..p.nextJobId /\ (1..p.nextJobId) \union {n} = 1..n
    BY <1>1
  <2> QED BY <1>3, <2>1, <2>2
<1>5. /\ DOMAIN t.ops = DOMAIN p.ops /\ t.ops[op] = job
      /\ \A o \in DOMAIN p.ops : o # op => t.ops[o] = p.ops[o]
  BY <1>1, StateType
<1>6. OneEach(DOMAIN t.jobs, t.requests)
  <2>1. /\ \A e \in p.requests : e.id \in DOMAIN p.jobs
        /\ \A i \in DOMAIN p.jobs : \E e \in p.requests : e.id = i
        /\ \A e, f \in p.requests : e.id = f.id => e = f
    BY DEF Wired, OneEach
  <2>2. /\ t.requests = p.requests \union {r} /\ r.id = n
        /\ DOMAIN t.jobs = DOMAIN p.jobs \union {n} /\ n \notin DOMAIN p.jobs
    BY <1>3, <1>4
  <2>3. \A e \in t.requests : e.id \in DOMAIN t.jobs
    BY <2>1, <2>2
  <2>4. \A i \in DOMAIN t.jobs : \E e \in t.requests : e.id = i
    BY <2>1, <2>2
  <2>5. \A e, f \in t.requests : e.id = f.id => e = f
    BY <2>1, <2>2
  <2> QED BY <2>3, <2>4, <2>5 DEF OneEach
<1>7. Plain(t)
  <2>1. t \in State /\ t.nextJobId = n /\ t.uploadDirs = p.uploadDirs
    OBVIOUS
  <2>2. Plain(p)
    BY DEF Wired
  <2>3. 1..p.nextJobId \subseteq 1..n
    BY <1>1
  <2>4. \A i \in DOMAIN t.jobs : t.jobs[i] \in DOMAIN t.ops
    BY <1>3, <1>5, <2>2 DEF Plain
  <2>5. DOMAIN t.jobs \subseteq 1..n
    BY <1>3, <1>4, <2>1, <2>2, <2>3 DEF Plain
  <2>6. \A o \in DOMAIN t.ops :
           t.ops[o].parent \in {0} \union DOMAIN t.uploadDirs
    BY <1>5, <2>1, <2>2 DEF Plain
  <2> QED BY <1>4, <1>5, <2>1, <2>2, <2>3, <2>4, <2>5, <2>6 DEF Plain
<1>8. /\ Ids(t, op) = Ids(p, op) \union {n} /\ n \notin Ids(p, op)
      /\ \A o : o # op => Ids(t, o) = Ids(p, o)
  BY <1>3, <1>4 DEF Ids
<1>9. \A q \in p.requests : q.id # n
  BY <1>4 DEF Wired, OneEach
<1>10. \A o \in DOMAIN p.ops : o # op => Sent(t, o) = Sent(p, o)
  <2>1. \A o : o # op => n \notin Ids(t, o)
    BY <1>3 DEF Ids
  <2> QED BY <1>8, <2>1 DEF Sent
<1>11. Sent(t, op) = Sent(p, op) \union {r}
  BY <1>8, <1>9 DEF Sent
<1>12. /\ \A i \in 1..p.nextJobId : t.signals[i] = p.signals[i]
       /\ \A i \in (1..t.nextJobId) \ (1..p.nextJobId) : t.signals[i] = <<>>
       /\ p.nextJobId <= t.nextJobId
  <2>1. /\ \A i \in 1..p.nextJobId : i # n
        /\ (1..n) \ (1..p.nextJobId) = {n} /\ p.nextJobId <= n
    BY <1>1
  <2>2. /\ \A i \in 1..p.nextJobId : t.signals[i] = p.signals[i]
        /\ \A i \in (1..n) \ (1..p.nextJobId) : t.signals[i] = <<>>
    BY <1>3, <1>4, <2>1
  <2> QED BY <2>1, <2>2
<1>13. Moves(p, t, op)
  BY <1>5, <1>6, <1>7, <1>8, <1>10, <1>12 DEF Moves, Wired
<1> QED
  BY <1>1, <1>5, <1>8, <1>11, <1>12, <1>13 DEF Sends

LEMMA MovesTwice ==
    ASSUME NEW p, NEW s, NEW t, NEW op \in DOMAIN p.ops, Wired(p),
           Moves(p, s, op), Moves(s, t, op)
    PROVE  Moves(p, t, op)
<1>1. /\ p.nextJobId \in Nat /\ s.nextJobId \in Nat /\ t.nextJobId \in Nat
      /\ op \in 1..p.nextJobId
  BY StateType, WiredFacts DEF Moves, Wired, Plain
<1>2. /\ p.nextJobId <= t.nextJobId
      /\ \A i \in 1..p.nextJobId : i # op => t.signals[i] = p.signals[i]
      /\ \A i \in (1..t.nextJobId) \ (1..p.nextJobId) : t.signals[i] = <<>>
  <2>1. /\ p.nextJobId <= s.nextJobId /\ s.nextJobId <= t.nextJobId
        /\ \A i \in 1..p.nextJobId : i # op => s.signals[i] = p.signals[i]
        /\ \A i \in 1..s.nextJobId : i # op => t.signals[i] = s.signals[i]
        /\ \A i \in (1..s.nextJobId) \ (1..p.nextJobId) : s.signals[i] = <<>>
        /\ \A i \in (1..t.nextJobId) \ (1..s.nextJobId) : t.signals[i] = <<>>
    BY DEF Moves
  <2> QED BY <1>1, <2>1
<1> QED
  BY <1>2 DEF Moves

(* An operation that goes on, or had no part in a directory.               *)
LEMMA MovesGood ==
    ASSUME NEW p, NEW t, NEW op \in DOMAIN p.ops, Good(p), Moves(p, t, op),
           OpInv(t.ops[op], op, Ids(t, op), Sent(t, op), t.signals[op]),
           Ids(p, op) # {}, Ids(t, op) = {} => p.ops[op].parent = 0
    PROVE  Good(t)
<1>1. /\ Wired(t) /\ t.uploadDirs = p.uploadDirs /\ DOMAIN t.ops = DOMAIN p.ops
      /\ \A o \in DOMAIN p.ops : o # op => /\ t.ops[o] = p.ops[o]
                                           /\ Ids(t, o) = Ids(p, o)
                                           /\ Sent(t, o) = Sent(p, o)
      /\ \A o \in DOMAIN p.ops : /\ t.ops[o].type = p.ops[o].type
                                 /\ t.ops[o].parent = p.ops[o].parent
      /\ \A i \in 1..p.nextJobId : i # op => t.signals[i] = p.signals[i]
  BY DEF Moves
<1>2. Wired(p)
  BY DEF Good
<1>3. OpsInv(t)
  <2>1. \A o \in DOMAIN p.ops : o # op => t.signals[o] = p.signals[o]
    BY <1>1, <1>2, WiredFacts
  <2> QED BY <1>1, <2>1 DEF OpsInv, Good
<1>4. ASSUME NEW d \in DOMAIN p.uploadDirs
      PROVE  DirInv(t, d)
  <2>1. d # op /\ d \in 1..p.nextJobId /\ t.signals[d] = p.signals[d] /\ d # 0
    BY <1>1, <1>2 DEF Wired, Plain
  <2>2. /\ Kids(t, d) = Kids(p, d) /\ FilesIn(t, d) = FilesIn(p, d)
        /\ DirsIn(t, d) = DirsIn(p, d)
    BY <1>1 DEF Kids, FilesIn, DirsIn
  <2>3. \A o \in Kids(p, d) : Ids(t, o) = {} <=> Ids(p, o) = {}
    BY <1>1, <2>1 DEF Kids
  <2>4. DirInv(p, d)
    BY DEF Good, DirsInv
  <2>5. {f \in FilesIn(t, d) : Ids(t, f) # {}} =
            {f \in FilesIn(p, d) : Ids(p, f) # {}}
    BY <2>2, <2>3 DEF FilesIn
  <2>6. Refused(p, d) => Refused(t, d)
    BY <1>1, <2>1, <2>2, <2>3 DEF Refused
  <2>7. AtLevel(p, d) => AtLevel(t, d)
    BY <1>1, <2>1, <2>2, <2>3 DEF AtLevel, DirsIn
  <2>8. AllCreated(p, d) => AllCreated(t, d)
    BY <1>1, <2>1, <2>2, <2>3 DEF AllCreated, DirsIn
  <2> QED BY <1>1, <2>2, <2>4, <2>5, <2>6, <2>7, <2>8 DEF DirInv
<1> QED
  BY <1>1, <1>3, <1>4 DEF Good, DirsInv
----------------------------------------------------------------------------
(* An answer that concerns one operation: its requests in flight need a    *)
(* handle, it is without requests only when its handle is closed or was    *)
(* never opened, and its end is reported once, unless it is part of a      *)
(* directory.                                                              *)
Reports(sig, new, parent) ==
    new = sig \/ (/\ parent = 0 /\ sig = <<>>
                  /\ \E end \in {"ok", "failed"} : new = <<end>>)

Lasting == OnHandles \ {"CLOSE"}

(* The size of the file to append to was refused, and the handle is lost.  *)
Unsized(job) == job.append /\ job.inFlightCount < 0

Settled(p, t, q, op) ==
    /\ Moves(p, t, op)
    /\ OpInv(t.ops[op], op, Ids(t, op), Sent(t, op), t.signals[op])
    /\ \A r \in Sent(t, op) : r.type \in OnHandles
    /\ Ids(t, op) = {} =>
          /\ p.ops[op].parent = 0
          /\ q.type \notin Lasting \/ Unsized(t.ops[op])
    /\ Reports(p.signals[op], t.signals[op], p.ops[op].parent)

LEMMA SettledGood ==
    ASSUME NEW p, NEW t, NEW q, NEW op, Good(p), Of(p, q, op),
           Settled(p, t, q, op)
    PROVE  Good(t)
<1>1. op \in DOMAIN p.ops /\ Ids(p, op) # {}
  BY DEF Of, Ids
<1> QED
  BY <1>1, MovesGood DEF Settled

LEMMA RepliesSettled ==
    ASSUME NEW p, NEW t, NEW q, NEW op, NEW job, NEW sig, NEW r,
           Good(p), Of(p, q, op), Replies(p, t, q, op, job, sig, r),
           r.id = q.id, r.type \in OnHandles,
           job.type = p.ops[op].type, job.parent = p.ops[op].parent,
           \A x \in Sent(p, op) \ {q} : x.type \in OnHandles,
           OpInv(job, op, Ids(p, op), (Sent(p, op) \ {q}) \union {r}, sig),
           Reports(p.signals[op], sig, p.ops[op].parent)
    PROVE  Settled(p, t, q, op)
<1>1. /\ Moves(p, t, op) /\ t.ops[op] = job /\ t.signals[op] = sig
      /\ Ids(t, op) = Ids(p, op)
      /\ Sent(t, op) = (Sent(p, op) \ {q}) \union {r}
  BY RepliesMoves DEF Good
<1>2. Ids(p, op) # {}
  BY DEF Of, Ids
<1> QED
  BY <1>1, <1>2 DEF Settled

LEMMA LeavesSettled ==
    ASSUME NEW p, NEW t, NEW q, NEW op, NEW job, NEW sig,
           Good(p), Of(p, q, op), Leaves(p, t, q, op, job, sig),
           job.type = p.ops[op].type, job.parent = p.ops[op].parent,
           \A x \in Sent(p, op) \ {q} : x.type \in OnHandles,
           OpInv(job, op, Ids(p, op) \ {q.id}, Sent(p, op) \ {q}, sig),
           Ids(p, op) = {q.id} =>
               /\ p.ops[op].parent = 0
               /\ q.type \notin Lasting \/ Unsized(job),
           Reports(p.signals[op], sig, p.ops[op].parent)
    PROVE  Settled(p, t, q, op)
<1>1. /\ Moves(p, t, op) /\ t.ops[op] = job /\ t.signals[op] = sig
      /\ Ids(t, op) = Ids(p, op) \ {q.id}
      /\ Sent(t, op) = Sent(p, op) \ {q}
  BY LeavesMoves DEF Good
<1>2. Ids(t, op) = {} => Ids(p, op) = {q.id}
  BY <1>1 DEF Of, Ids
<1> QED
  BY <1>1, <1>2 DEF Settled

(* What is in flight tells the stage.                                      *)
Alone(p, q, op) == Ids(p, op) = {q.id} /\ Sent(p, op) = {q}

LEMMA StageOf ==
    ASSUME NEW p, NEW q, NEW op, Good(p), Of(p, q, op),
           NEW job, job = p.ops[op], NEW I, I = Ids(p, op),
           NEW Q, Q = Sent(p, op)
    PROVE  /\ OpInv(job, op, I, Q, p.signals[op])
           /\ job \in Op /\ op \in Nat /\ p.signals[op] \in Results
           /\ q \in Q /\ q.id \in I /\ Wired(p) /\ q \in Request
           /\ \/ Requesting(job, op, I, Q) /\ Alone(p, q, op) /\ q.id = op
                 /\ q.type = InitialRequest(job.type)
              \/ Listing(job, op, I, Q) /\ Alone(p, q, op) /\ q.id = op
                 /\ q.type \in {"READDIR", "CLOSE"}
              \/ Creating(job, op, I, Q) /\ Alone(p, q, op) /\ q.id = op
                 /\ q.type = "CLOSE"
              \/ Asking(job, op, I, Q) /\ Alone(p, q, op) /\ q.id = op
                 /\ q.type = "FSTAT"
              \/ Moving(job, I, Q) /\ job.inFlightCount = Cardinality(I)
                 /\ q.type = IF job.type = "Download" THEN "READ" ELSE "WRITE"
              \/ Closing(job, I, Q) /\ Alone(p, q, op) /\ q.type = "CLOSE"
<1>1. /\ op \in DOMAIN p.ops /\ q \in Q /\ q.id \in I /\ Wired(p)
      /\ q \in Request
  BY StateType DEF Of, Ids, Sent, Good
<1>2. OpInv(job, op, I, Q, p.signals[op]) /\ Stage(job, op, I, Q)
  BY <1>1 DEF Good, OpsInv, OpInv
<1>3. ASSUME NEW i, NEW type, Only(i, type, I, Q)
      PROVE  Alone(p, q, op) /\ q.id = i /\ q.type = type
  BY <1>1, <1>3 DEF Only, Alone
<1>4. CASE Requesting(job, op, I, Q)
  BY <1>1, <1>2, <1>3, <1>4, WiredFacts DEF Requesting
<1>5. CASE Listing(job, op, I, Q)
  BY <1>1, <1>2, <1>3, <1>5, WiredFacts DEF Listing
<1>6. CASE Creating(job, op, I, Q)
  BY <1>1, <1>2, <1>3, <1>6, WiredFacts DEF Creating
<1>7. CASE Asking(job, op, I, Q)
  BY <1>1, <1>2, <1>3, <1>7, WiredFacts DEF Asking
<1>8. CASE Moving(job, I, Q) /\ job.inFlightCount = Cardinality(I)
  BY <1>1, <1>2, <1>8, WiredFacts DEF Moving
<1>9. CASE Closing(job, I, Q)
  BY <1>1, <1>2, <1>3, <1>9, WiredFacts DEF Closing
<1> QED
  BY <1>2, <1>4, <1>5, <1>6, <1>7, <1>8, <1>9 DEF Stage

(* The last request of an operation of the user's is answered.             *)
LEMMA EndsSettled ==
    ASSUME NEW p, NEW t, NEW q, NEW op, NEW job, NEW sig,
           Good(p), Of(p, q, op), Alone(p, q, op),
           q.type \notin Lasting \/ Unsized(job),
           Leaves(p, t, q, op, job, sig),
           job.type = p.ops[op].type, job.parent = 0, p.ops[op].parent = 0,
           Shape(job), Reports(p.signals[op], sig, 0),
           job.type \in Transfers /\ "ok" \in Range(sig) => CompleteJob(job)
    PROVE  Settled(p, t, q, op)
<1>1. OpInv(job, op, {}, {}, sig)
  BY DEF OpInv, Reported
<1>2. Ids(p, op) \ {q.id} = {} /\ Sent(p, op) \ {q} = {}
  BY DEF Alone
<1> QED
  BY <1>1, <1>2, LeavesSettled

(* The only request of an operation is followed by another.                *)
LEMMA FollowsSettled ==
    ASSUME NEW p, NEW t, NEW q, NEW op, NEW job, NEW sig, NEW r,
           Good(p), Of(p, q, op), Alone(p, q, op),
           Replies(p, t, q, op, job, sig, r),
           r.id = q.id, r.type \in OnHandles,
           job.type = p.ops[op].type, job.parent = p.ops[op].parent,
           OpInv(job, op, {q.id}, {r}, sig),
           Reports(p.signals[op], sig, p.ops[op].parent)
    PROVE  Settled(p, t, q, op)
<1>1. Ids(p, op) = {q.id} /\ Sent(p, op) \ {q} = {}
  BY DEF Alone
<1>2. OpInv(job, op, Ids(p, op), (Sent(p, op) \ {q}) \union {r}, sig)
  BY <1>1
<1> QED
  BY <1>1, <1>2, RepliesSettled

(* Reporting once.                                                         *)
LEMMA ReportOne ==
    ASSUME NEW end \in {"ok", "failed"}
    PROVE  /\ Append(<<>>, end) = <<end>> /\ <<end>> \in Results
           /\ Range(Append(<<>>, end)) = {end}
           /\ Reports(<<>>, Append(<<>>, end), 0)
  BY DEF Results, Range, Reports
----------------------------------------------------------------------------
(* Operations other than transfers, and the beginning of transfers.        *)
Less(p, q) == [p EXCEPT !.requests = @ \ {q}]

LEMMA LessAt ==
    ASSUME NEW p, NEW q, NEW op, Of(p, q, op)
    PROVE  At(p, Less(p, q), q, op, p.ops[op], p.signals[op])
  BY AtStart DEF Less

LEMMA GenericLeaves ==
    ASSUME NEW p, NEW s, NEW q, NEW op, NEW job, NEW sig, NEW status,
           Of(p, q, op), At(p, s, q, op, job, sig)
    PROVE  \E end \in {"ok", "failed"} :
              Leaves(p, HandleStatusGeneric(s, q.id, status), q, op, job,
                     Append(sig, end))
<1> DEFINE end == IF status = "OK" THEN "ok" ELSE "failed"
<1>1. end \in {"ok", "failed"} /\ s.jobs[q.id] = op
  BY AtFacts
<1>2. HandleStatusGeneric(s, q.id, status) = Erase(Finished(s, op, end), q.id)
  BY <1>1 DEF HandleStatusGeneric
<1> HIDE DEF end
<1>3. At(p, Finished(s, op, end), q, op, job, Append(sig, end))
  BY <1>1, AtFinished
<1>4. Leaves(p, Erase(Finished(s, op, end), q.id), q, op, job,
             Append(sig, end))
  BY <1>3, AtErase
<1> QED
  BY <1>1, <1>2, <1>4

(* An operation of the user's in which nothing failed so far.              *)
LEMMA Unreported ==
    ASSUME NEW job, NEW op, NEW I, NEW Q, NEW sig, OpInv(job, op, I, Q, sig),
           I # {}, ~job.hasError
    PROVE  sig = <<>> /\ Shape(job)
  BY DEF OpInv, Reported

LEMMA PlainStatus ==
    ASSUME NEW p, NEW q, NEW op, NEW status, Good(p), Of(p, q, op),
           p.ops[op].type \in {"StatFile", "Rm", "CreateFile", "MakeDir"},
           p.ops[op].parent = 0, q.type \notin Lasting
    PROVE  Settled(p, HandleStatus(Less(p, q), q.id, status), q, op)
<1> DEFINE job == p.ops[op]
           s == Less(p, q)
           t == HandleStatusGeneric(s, q.id, status)
<1>1. /\ OpInv(job, op, Ids(p, op), Sent(p, op), p.signals[op])
      /\ Alone(p, q, op) /\ ~job.hasError /\ Ids(p, op) # {}
  BY StageOf DEF Requesting, Listing, Creating, Asking, Moving, Closing, Lasting,
                 OnHandles, Fresh, Transfers
<1>2. p.signals[op] = <<>> /\ Shape(job)
  BY <1>1, Unreported
<1>3. At(p, s, q, op, job, <<>>)
  BY <1>2, LessAt
<1>4. s.jobs[q.id] = op /\ s.ops[op] = job
  BY <1>3, AtFacts
<1>5. HandleStatus(s, q.id, status) = t
  <2>1. job.type # "MakeDir" => HandleStatus(s, q.id, status) = t
    BY <1>4 DEF HandleStatus
  <2>2. job.type = "MakeDir" =>
            HandleStatus(s, q.id, status) = HandleMkdirStatus(s, q.id, status)
    BY <1>4 DEF HandleStatus
  <2>3. HandleMkdirStatus(s, q.id, status) = t
    BY <1>4 DEF HandleMkdirStatus
  <2> QED BY <2>1, <2>2, <2>3
<1>6. PICK end \in {"ok", "failed"} : Leaves(p, t, q, op, job, Append(<<>>, end))
  BY <1>3, GenericLeaves
<1>7. Reports(<<>>, Append(<<>>, end), 0)
  BY ReportOne
<1>8. job.type \notin Transfers
  BY DEF Transfers
<1> HIDE DEF t, s
<1>9. Settled(p, t, q, op)
  BY <1>1, <1>2, <1>6, <1>7, <1>8, EndsSettled
<1> QED
  BY <1>5, <1>9 DEF s

LEMMA StatAnswer ==
    ASSUME NEW p, NEW q, NEW op, NEW size, Good(p), Of(p, q, op),
           q.type = "STAT"
    PROVE  Settled(p, HandleAttrs(Less(p, q), q.id, size), q, op)
<1> DEFINE job == p.ops[op]
           s == Less(p, q)
           t == Erase(Finished(s, op, "ok"), q.id)
<1>1. /\ OpInv(job, op, Ids(p, op), Sent(p, op), p.signals[op])
      /\ Alone(p, q, op) /\ ~job.hasError /\ Ids(p, op) # {} /\ q.id = op
      /\ q.type = InitialRequest(job.type) /\ job \in Op
  BY StageOf DEF Requesting, Fresh
<1>2. p.signals[op] = <<>> /\ Shape(job)
  BY <1>1, Unreported
<1>3. job.type = "StatFile"
  BY <1>1 DEF InitialRequest, Op, Types
<1>4. At(p, s, q, op, job, <<>>)
  BY <1>2, LessAt
<1>5. s.jobs[q.id] = op /\ s.ops[op] = job
  BY <1>4, AtFacts
<1>6. HandleAttrs(s, q.id, size) = t
  BY <1>1, <1>3, <1>5 DEF HandleAttrs
<1>7. Leaves(p, t, q, op, job, Append(<<>>, "ok"))
  BY <1>4, AtFinished, AtErase
<1>8. /\ Reports(<<>>, Append(<<>>, "ok"), 0) /\ job.type \notin Transfers
      /\ job.parent = 0 /\ q.type \notin Lasting
  BY <1>2, <1>3, ReportOne DEF Transfers, Shape, Lasting, OnHandles
<1> HIDE DEF t, s
<1>9. Settled(p, t, q, op)
  BY <1>1, <1>2, <1>7, <1>8, EndsSettled
<1> QED
  BY <1>6, <1>9 DEF s

(* Listing a directory.                                                    *)
LEMMA ListStatus ==
    ASSUME NEW p, NEW q, NEW op, NEW status, Good(p), Of(p, q, op),
           p.ops[op].type = "ListDir"
    PROVE  Settled(p, HandleStatus(Less(p, q), q.id, status), q, op)
<1> DEFINE job == p.ops[op]
           s == Less(p, q)
           t == HandleLsStatus(s, q.id, status)
<1>1. /\ OpInv(job, op, Ids(p, op), Sent(p, op), p.signals[op])
      /\ Alone(p, q, op) /\ Ids(p, op) # {} /\ q.id = op /\ job \in Op
      /\ \/ job.state = "OpenRequested" /\ ~job.hasError /\ q.type = "OPENDIR"
         \/ job.state = "Open" /\ ~job.hasError /\ q.type = "READDIR"
         \/ job.state = "CloseRequested" /\ q.type = "CLOSE"
  BY StageOf DEF Requesting, Listing, Creating, Asking, Moving, Closing,
                 Fresh, Transfers, WithHandle, InitialRequest, Only, Alone
<1>2. /\ Shape(job) /\ job.parent = 0
      /\ p.signals[op] = IF job.hasError THEN <<"failed">> ELSE <<>>
  BY <1>1 DEF OpInv, Shape, Reported
<1>3. At(p, s, q, op, job, p.signals[op])
  BY LessAt
<1>4. s.jobs[q.id] = op /\ s.ops[op] = job /\ s \in State
  BY <1>3, AtFacts
<1>5. HandleStatus(s, q.id, status) = t
  BY <1>4 DEF HandleStatus
<1>6. CASE job.state = "OpenRequested"
  <2>1. t = Erase(Finished(s, op, "failed"), q.id)
    <3> s.ops[op].state = "OpenRequested" /\ ~s.ops[op].hasError
      BY <1>1, <1>4, <1>6
    <3> HIDE DEF s
    <3> QED BY <1>4 DEF HandleLsStatus
  <2>2. Leaves(p, t, q, op, job, Append(<<>>, "failed"))
    BY <1>1, <1>2, <1>3, <1>6, <2>1, AtFinished, AtErase
  <2>3. /\ Reports(<<>>, Append(<<>>, "failed"), 0) /\ job.type \notin Transfers
        /\ q.type \notin Lasting /\ p.signals[op] = <<>>
    BY <1>1, <1>2, <1>6, ReportOne DEF Transfers, Lasting, OnHandles
  <2> HIDE DEF t, s
  <2> QED BY <1>1, <1>2, <1>5, <2>2, <2>3, EndsSettled DEF s
<1>7. CASE job.state = "Open"
  <2> DEFINE listed == IF status = "EOF" THEN s ELSE ReportRequestError(s, op)
             new == IF status = "EOF" THEN job
                    ELSE [job EXCEPT !.hasError = TRUE]
             sig == IF status = "EOF" THEN <<>> ELSE Append(<<>>, "failed")
             r == [id |-> q.id, type |-> "CLOSE", offset |-> 0, chunk |-> 0]
             end == [new EXCEPT !.state = "CloseRequested"]
  <2>1. t = [Send(listed, q.id, "CLOSE") EXCEPT
                !.ops[op].state = "CloseRequested"]
    <3> s.ops[op].state = "Open" /\ ~s.ops[op].hasError
      BY <1>1, <1>4, <1>7
    <3> HIDE DEF s
    <3> QED BY <1>4 DEF HandleLsStatus
  <2>2. At(p, listed, q, op, new, sig)
    BY <1>1, <1>2, <1>3, <1>7, AtReport
  <2>3. Replies(p, t, q, op, end, sig, r)
    <3> HIDE DEF t, new, sig, listed
    <3> QED BY <2>1, <2>2, AtState DEF RequestTypes, OnHandles
  <2>4. /\ r.id = q.id /\ r.type \in OnHandles /\ r.type = "CLOSE"
        /\ r = [id |-> op, type |-> "CLOSE", offset |-> 0, chunk |-> 0]
    BY <1>1 DEF OnHandles
  <2>5. /\ end.type = "ListDir" /\ end.parent = 0
        /\ end.state = "CloseRequested" /\ ~end.append
        /\ end.hasError = (status # "EOF")
    BY <1>1, <1>2, <1>7 DEF Op, Shape
  <2>6. OpInv(end, op, {q.id}, {r}, sig)
    <3>1. Shape(end)
      BY <2>5 DEF Shape
    <3>2. Reported(end, {q.id}, sig)
      BY <2>5, ReportOne DEF Reported, Transfers
    <3>3. Listing(end, op, {q.id}, {r})
      BY <1>1, <2>4, <2>5 DEF Listing, Only
    <3> HIDE DEF end, sig, r
    <3> QED BY <3>1, <3>2, <3>3 DEF OpInv, Stage
  <2>7. p.signals[op] = <<>> /\ Reports(<<>>, sig, 0)
    BY <1>1, <1>2, <1>7, ReportOne DEF Reports
  <2> HIDE DEF t, s, end, sig, r
  <2>8. Settled(p, t, q, op)
    BY <1>1, <1>2, <2>3, <2>4, <2>5, <2>6, <2>7, FollowsSettled
  <2> QED BY <1>5, <2>8 DEF s
<1>8. CASE job.state = "CloseRequested" /\ job.hasError
  <2>1. t = Erase(s, q.id)
    BY <1>4, <1>8 DEF HandleLsStatus
  <2>2. Leaves(p, t, q, op, job, p.signals[op])
    BY <1>3, <2>1, AtErase
  <2>3. /\ Reports(p.signals[op], p.signals[op], 0) /\ job.type \notin Transfers
        /\ q.type \notin Lasting
    BY <1>1, <1>8 DEF Transfers, Lasting, OnHandles, Reports
  <2> HIDE DEF t, s
  <2> QED BY <1>1, <1>2, <1>5, <2>2, <2>3, EndsSettled DEF s
<1>9. CASE job.state = "CloseRequested" /\ ~job.hasError
  <2>1. t = HandleStatusGeneric(s, q.id, status)
    BY <1>4, <1>9 DEF HandleLsStatus
  <2>2. PICK end \in {"ok", "failed"} :
            Leaves(p, t, q, op, job, Append(<<>>, end))
    BY <1>2, <1>3, <1>9, <2>1, GenericLeaves
  <2>3. /\ Reports(<<>>, Append(<<>>, end), 0) /\ job.type \notin Transfers
        /\ q.type \notin Lasting /\ p.signals[op] = <<>>
    BY <1>1, <1>2, <1>9, ReportOne DEF Transfers, Lasting, OnHandles
  <2> HIDE DEF t, s
  <2> QED BY <1>1, <1>2, <1>5, <2>2, <2>3, EndsSettled DEF s
<1> QED
  BY <1>1, <1>6, <1>7, <1>8, <1>9

(* SSH_FXP_NAME: the next names are asked for.                             *)
LEMMA NamesAnswer ==
    ASSUME NEW p, NEW q, NEW op, Good(p), Of(p, q, op), q.type = "READDIR"
    PROVE  Settled(p, Send(Less(p, q), q.id, "READDIR"), q, op)
<1> DEFINE job == p.ops[op]
           s == Less(p, q)
           t == Send(s, q.id, "READDIR")
           r == [id |-> q.id, type |-> "READDIR", offset |-> 0, chunk |-> 0]
<1>1. /\ OpInv(job, op, Ids(p, op), Sent(p, op), p.signals[op])
      /\ Alone(p, q, op) /\ Listing(job, op, Ids(p, op), Sent(p, op))
  BY StageOf DEF Requesting, Moving, InitialRequest
<1>2. Ids(p, op) = {q.id} /\ Sent(p, op) = {q}
  BY <1>1 DEF Alone
<1>3. q.id = op /\ q = r /\ r.id = q.id /\ r.type \in OnHandles
  BY <1>1, <1>2 DEF Listing, Only, OnHandles
<1>4. Replies(p, t, q, op, job, p.signals[op], r)
  BY LessAt, AtSendPlain DEF RequestTypes, OnHandles
<1>5. OpInv(job, op, {q.id}, {r}, p.signals[op])
  BY <1>1, <1>2, <1>3
<1>6. Reports(p.signals[op], p.signals[op], job.parent)
  BY DEF Reports
<1> HIDE DEF r, t, s
<1>7. Settled(p, t, q, op)
  BY <1>1, <1>3, <1>4, <1>5, <1>6, FollowsSettled
<1> QED
  BY <1>7 DEF t, s
----------------------------------------------------------------------------
(* SSH_FXP_HANDLE.                                                         *)
LEMMA AtOpened ==
    ASSUME NEW p, NEW s, NEW q, NEW op, NEW job, NEW sig, NEW n \in Nat,
           Of(p, q, op), At(p, s, q, op, job, sig)
    PROVE  At(p, Opened(s, op, n), q, op, [job EXCEPT !.remote = n], sig)
<1>1. /\ s \in State /\ op \in DOMAIN s.ops /\ op \in DOMAIN s.signals
      /\ s.ops[op] = job /\ s.signals[op] = sig
      /\ job \in Op /\ sig \in Results
  BY AtFacts
<1> DEFINE t == Opened(s, op, n)
           new == [job EXCEPT !.remote = n]
<1>2. new \in Op
  BY <1>1 DEF Op
<1>3. /\ t.jobs = s.jobs /\ t.requests = s.requests
      /\ t.uploadDirs = s.uploadDirs /\ t.nextJobId = s.nextJobId
      /\ t.ops = [s.ops EXCEPT ![op] = new]
      /\ t.signals = [s.signals EXCEPT ![op] = sig]
  BY <1>1, StateType DEF Opened, State
<1>4. t \in State
  <2>1. [s.ops EXCEPT ![op] = new] \in Maps(Nat, Op)
    BY <1>1, <1>2, StateType, MapExcept
  <2> QED BY <1>1, <2>1 DEF Opened, State
<1> HIDE DEF t, new
<1>5. At(p, t, q, op, new, sig)
  BY <1>3, <1>4, AtJob
<1> QED
  BY <1>5 DEF t, new

Open(s, op) == [s EXCEPT !.ops[op].state = "Open"]

LEMMA AtOpen ==
    ASSUME NEW p, NEW s, NEW q, NEW op, NEW job, NEW sig,
           Of(p, q, op), At(p, s, q, op, job, sig)
    PROVE  At(p, Open(s, op), q, op, [job EXCEPT !.state = "Open"], sig)
<1>1. /\ s \in State /\ op \in DOMAIN s.ops /\ op \in DOMAIN s.signals
      /\ s.ops[op] = job /\ s.signals[op] = sig
      /\ job \in Op /\ sig \in Results
  BY AtFacts
<1> DEFINE t == Open(s, op)
           new == [job EXCEPT !.state = "Open"]
<1>2. new \in Op
  BY <1>1 DEF Op
<1>3. /\ t.jobs = s.jobs /\ t.requests = s.requests
      /\ t.uploadDirs = s.uploadDirs /\ t.nextJobId = s.nextJobId
      /\ t.ops = [s.ops EXCEPT ![op] = new]
      /\ t.signals = [s.signals EXCEPT ![op] = sig]
  BY <1>1, StateType DEF Open, State
<1>4. t \in State
  <2>1. [s.ops EXCEPT ![op] = new] \in Maps(Nat, Op)
    BY <1>1, <1>2, StateType, MapExcept
  <2> QED BY <1>1, <2>1 DEF Open, State
<1> HIDE DEF t, new
<1>5. At(p, t, q, op, new, sig)
  BY <1>3, <1>4, AtJob
<1> QED
  BY <1>5 DEF t, new

LEMMA AtAsk ==
    ASSUME NEW p, NEW s, NEW q, NEW op, NEW job, NEW sig,
           Of(p, q, op), At(p, s, q, op, job, sig)
    PROVE  Replies(p, [Send(s, q.id, "FSTAT") EXCEPT
                          !.ops[op].statRequested = TRUE],
                   q, op, [job EXCEPT !.statRequested = TRUE], sig,
                   [id |-> q.id, type |-> "FSTAT", offset |-> 0, chunk |-> 0])
<1>1. s \in State /\ op \in DOMAIN s.ops /\ s.ops[op] = job /\ job \in Op
  BY AtFacts
<1>2. [Send(s, q.id, "FSTAT") EXCEPT !.ops[op].statRequested = TRUE] =
        [SendData(s, q.id, "FSTAT", 0, 0) EXCEPT
            !.ops = [s.ops EXCEPT ![op] = [job EXCEPT !.statRequested = TRUE]]]
  BY <1>1, StateType DEF Send, SendData, State
<1>3. [job EXCEPT !.statRequested = TRUE] \in Op
  BY <1>1 DEF Op
<1> QED
  BY <1>1, <1>2, <1>3, AtSend DEF RequestTypes, OnHandles

LEMMA DirectoryOpened ==
    ASSUME NEW p, NEW q, NEW op, Good(p), Of(p, q, op), q.type = "OPENDIR"
    PROVE  Settled(p, HandleHandle(Less(p, q), q.id), q, op)
<1> DEFINE job == p.ops[op]
           s == Less(p, q)
           t == Send(Open(s, op), q.id, "READDIR")
           new == [job EXCEPT !.state = "Open"]
           r == [id |-> q.id, type |-> "READDIR", offset |-> 0, chunk |-> 0]
<1>1. /\ OpInv(job, op, Ids(p, op), Sent(p, op), p.signals[op])
      /\ Alone(p, q, op) /\ Requesting(job, op, Ids(p, op), Sent(p, op))
      /\ job \in Op /\ q.id = op /\ q.type = InitialRequest(job.type)
      /\ Ids(p, op) # {}
  BY StageOf DEF Moving
<1>2. job.type = "ListDir" /\ ~job.hasError
  BY <1>1 DEF InitialRequest, Op, Types, Requesting, Fresh
<1>3. p.signals[op] = <<>> /\ Shape(job)
  BY <1>1, <1>2, Unreported
<1>4. s.jobs[q.id] = op /\ s.ops[op] = job /\ At(p, s, q, op, job, <<>>)
  BY <1>3, LessAt, AtFacts
<1>5. HandleHandle(s, q.id) = t
  BY <1>2, <1>3, <1>4 DEF HandleHandle, Open, Shape
<1>6. /\ new.type = "ListDir" /\ new.parent = 0 /\ ~new.append
      /\ new.state = "Open" /\ ~new.hasError /\ job.parent = 0
  BY <1>1, <1>2, <1>3 DEF Op, Shape
<1>7. r.id = op /\ r.type \in OnHandles /\ Only(op, "READDIR", {q.id}, {r})
  BY <1>1 DEF OnHandles, Only
<1>8. Replies(p, t, q, op, new, <<>>, r)
  BY <1>4, AtOpen, AtSendPlain DEF RequestTypes, OnHandles
<1> HIDE DEF new, r, t, s
<1>9. OpInv(new, op, {q.id}, {r}, <<>>)
  BY <1>6, <1>7 DEF OpInv, Shape, Reported, Stage, Listing, Transfers, Range
<1>10. Reports(p.signals[op], <<>>, job.parent)
  BY <1>3 DEF Reports
<1>11. Settled(p, t, q, op)
  BY <1>1, <1>2, <1>6, <1>7, <1>8, <1>9, <1>10, FollowsSettled
<1> QED
  BY <1>5, <1>11 DEF s

LEMMA FileCreated ==
    ASSUME NEW p, NEW q, NEW op, NEW n \in Nat, Good(p), Of(p, q, op),
           q.type = "OPEN", p.ops[op].type = "CreateFile"
    PROVE  Settled(p, HandleHandle(Opened(Less(p, q), op, n), q.id), q, op)
<1> DEFINE job == p.ops[op]
           s == Opened(Less(p, q), op, n)
           t == Send(Open(s, op), q.id, "CLOSE")
           opened == [job EXCEPT !.remote = n]
           new == [opened EXCEPT !.state = "Open"]
           r == [id |-> q.id, type |-> "CLOSE", offset |-> 0, chunk |-> 0]
<1>1. /\ OpInv(job, op, Ids(p, op), Sent(p, op), p.signals[op])
      /\ Alone(p, q, op) /\ Requesting(job, op, Ids(p, op), Sent(p, op))
      /\ job \in Op /\ q.id = op /\ Ids(p, op) # {}
  BY StageOf DEF Moving
<1>2. ~job.hasError
  BY <1>1 DEF Requesting, Fresh
<1>3. p.signals[op] = <<>> /\ Shape(job)
  BY <1>1, <1>2, Unreported
<1>4. At(p, s, q, op, opened, <<>>)
  BY <1>3, LessAt, AtOpened
<1>5. s.jobs[q.id] = op /\ s.ops[op] = opened
  BY <1>4, AtFacts
<1>6. /\ opened.type = "CreateFile" /\ ~opened.append
      /\ new.type = "CreateFile" /\ new.parent = 0 /\ ~new.append
      /\ ~new.hasError /\ job.parent = 0
  BY <1>1, <1>2, <1>3 DEF Op, Shape
<1>7. HandleHandle(s, q.id) = t
  <2> HIDE DEF s, opened
  <2> QED BY <1>5, <1>6 DEF HandleHandle, Open
<1>8. r.id = op /\ r.type \in OnHandles /\ Only(op, "CLOSE", {q.id}, {r})
  BY <1>1 DEF OnHandles, Only
<1>9. Replies(p, t, q, op, new, <<>>, r)
  <2> HIDE DEF s, opened
  <2> QED BY <1>4, AtOpen, AtSendPlain DEF RequestTypes, OnHandles
<1> HIDE DEF new, r, t, s
<1>10. OpInv(new, op, {q.id}, {r}, <<>>)
  BY <1>6, <1>8 DEF OpInv, Shape, Reported, Stage, Creating, Transfers, Range
<1>11. Reports(p.signals[op], <<>>, job.parent)
  BY <1>3 DEF Reports
<1>12. Settled(p, t, q, op)
  BY <1>1, <1>2, <1>6, <1>8, <1>9, <1>10, <1>11, FollowsSettled
<1> QED
  BY <1>7, <1>12 DEF s

(* The size is asked for.                                                  *)
LEMMA SizeAsked ==
    ASSUME NEW p, NEW q, NEW op, NEW n \in Nat, Good(p), Of(p, q, op),
           q.type = "OPEN",
           p.ops[op].type = "Download"
             \/ (p.ops[op].type = "UploadFile" /\ p.ops[op].append)
    PROVE  Settled(p, HandleHandle(Opened(Less(p, q), op, n), q.id), q, op)
<1> DEFINE job == p.ops[op]
           s == Opened(Less(p, q), op, n)
           t == [Send(Open(s, op), q.id, "FSTAT") EXCEPT
                    !.ops[op].statRequested = TRUE]
           opened == [job EXCEPT !.remote = n]
           open == [opened EXCEPT !.state = "Open"]
           new == [open EXCEPT !.statRequested = TRUE]
           r == [id |-> q.id, type |-> "FSTAT", offset |-> 0, chunk |-> 0]
<1>1. /\ OpInv(job, op, Ids(p, op), Sent(p, op), p.signals[op])
      /\ Alone(p, q, op) /\ Requesting(job, op, Ids(p, op), Sent(p, op))
      /\ job \in Op /\ q.id = op /\ Ids(p, op) # {}
  BY StageOf DEF Moving
<1>2. Fresh(job) /\ ~job.hasError
  BY <1>1 DEF Requesting, Fresh
<1>3. p.signals[op] = <<>> /\ Shape(job)
  BY <1>1, <1>2, Unreported
<1>4. At(p, s, q, op, opened, <<>>)
  BY <1>3, LessAt, AtOpened
<1>5. s.jobs[q.id] = op /\ s.ops[op] = opened
  BY <1>4, AtFacts
<1>6. /\ opened.type = job.type /\ opened.append = job.append
      /\ new.type = job.type /\ new.parent = 0 /\ new.append = job.append
      /\ new.readable = job.readable /\ new.fileSize = job.fileSize
      /\ new.unreadable = job.unreadable /\ new.statRequested
      /\ new.state = "Open" /\ Fresh(new) /\ ~new.hasError /\ job.parent = 0
  BY <1>1, <1>2, <1>3 DEF Op, Shape, Fresh
<1>7. HandleHandle(s, q.id) = t
  <2>1. (job.type = "Download" /\ ~job.append)
           \/ (job.type = "UploadFile" /\ job.append)
    BY <1>3 DEF Shape
  <2> HIDE DEF s, opened
  <2> QED BY <1>5, <1>6, <2>1 DEF HandleHandle, Open
<1>8. r.id = op /\ r.type \in OnHandles /\ Only(op, "FSTAT", {q.id}, {r})
  BY <1>1 DEF OnHandles, Only
<1>9. Replies(p, t, q, op, new, <<>>, r)
  <2> HIDE DEF s, opened
  <2>1. At(p, Open(s, op), q, op, open, <<>>)
    BY <1>4, AtOpen
  <2> HIDE DEF open
  <2> QED BY <2>1, AtAsk
<1> HIDE DEF new, r, t, s
<1>10. OpInv(new, op, {q.id}, {r}, <<>>)
  <2>1. Asking(new, op, {q.id}, {r})
    BY <1>6, <1>8 DEF Asking
  <2>2. Shape(new) /\ Reported(new, {q.id}, <<>>)
    BY <1>3, <1>6 DEF Shape, Reported, Range
  <2> QED BY <2>1, <2>2 DEF OpInv, Stage
<1>11. Reports(p.signals[op], <<>>, job.parent)
  BY <1>3 DEF Reports
<1>12. Settled(p, t, q, op)
  BY <1>1, <1>2, <1>6, <1>8, <1>9, <1>10, <1>11, FollowsSettled
<1> QED
  BY <1>7, <1>12 DEF s
----------------------------------------------------------------------------
(* The ends of transfers: their handle is refused, the size is refused or  *)
(* not told, the handle is closed.                                         *)
LEMMA TransferRefused ==
    ASSUME NEW p, NEW q, NEW op, NEW status, Good(p), Of(p, q, op),
           q.type = "OPEN", p.ops[op].type \in Transfers,
           p.ops[op].parent = 0
    PROVE  Settled(p, HandleStatus(Less(p, q), q.id, status), q, op)
<1> DEFINE job == p.ops[op]
           s == Less(p, q)
           t == Erase(Finished(s, op, "failed"), q.id)
<1>1. /\ OpInv(job, op, Ids(p, op), Sent(p, op), p.signals[op])
      /\ Alone(p, q, op) /\ Requesting(job, op, Ids(p, op), Sent(p, op))
      /\ job \in Op /\ q.id = op /\ Ids(p, op) # {}
  BY StageOf DEF Moving
<1>2. ~job.hasError /\ job.state = "OpenRequested"
  BY <1>1 DEF Requesting, Fresh, WithHandle, Transfers
<1>3. p.signals[op] = <<>> /\ Shape(job)
  BY <1>1, <1>2, Unreported
<1>4. At(p, s, q, op, job, <<>>)
  BY <1>3, LessAt
<1>5. s.jobs[q.id] = op /\ s.ops[op] = job
  BY <1>4, AtFacts
<1>6. HandleStatus(s, q.id, status) = t
  <2> HIDE DEF s
  <2>1. CASE job.type = "Download"
    <3>1. HandleStatus(s, q.id, status) = HandleGetStatus(s, q.id, status)
      BY <1>5, <2>1 DEF HandleStatus
    <3>2. HandleGetStatus(s, q.id, status) = t
      BY <1>2, <1>5 DEF HandleGetStatus
    <3> QED BY <3>1, <3>2
  <2>2. CASE job.type = "UploadFile"
    <3>1. HandleStatus(s, q.id, status) = HandlePutStatus(s, q.id, status)
      BY <1>5, <2>2 DEF HandleStatus
    <3>2. ~ParentHasError(s, op) /\ SetParentError(s, op) = s
      BY <1>5 DEF ParentHasError, SetParentError
    <3>3. HandlePutStatus(s, q.id, status) = t
      BY <1>2, <1>5, <3>2 DEF HandlePutStatus
    <3> QED BY <3>1, <3>3
  <2> QED BY <2>1, <2>2 DEF Transfers
<1>7. Leaves(p, t, q, op, job, Append(<<>>, "failed"))
  BY <1>4, AtFinished, AtErase
<1>8. /\ Reports(<<>>, Append(<<>>, "failed"), 0) /\ q.type \notin Lasting
      /\ "ok" \notin Range(Append(<<>>, "failed"))
  BY ReportOne DEF Lasting, OnHandles
<1> HIDE DEF t, s
<1>9. Settled(p, t, q, op)
  BY <1>1, <1>3, <1>7, <1>8, EndsSettled
<1> QED
  BY <1>6, <1>9 DEF s

(* A transfer that asked for a size fails, and its handle is closed.       *)
LEMMA StatFails ==
    ASSUME NEW p, NEW q, NEW op, Good(p), Of(p, q, op), q.type = "FSTAT"
    PROVE  Settled(p, SendTransferCloseHandle(
                          ReportRequestError(Less(p, q), op), op, q.id),
                   q, op)
<1> DEFINE job == p.ops[op]
           s == Less(p, q)
           t == SendTransferCloseHandle(ReportRequestError(s, op), op, q.id)
           bad == [job EXCEPT !.hasError = TRUE]
           new == [bad EXCEPT !.state = "CloseRequested"]
           sig == Append(<<>>, "failed")
           r == [id |-> q.id, type |-> "CLOSE", offset |-> 0, chunk |-> 0]
<1>1. /\ OpInv(job, op, Ids(p, op), Sent(p, op), p.signals[op])
      /\ Alone(p, q, op) /\ Asking(job, op, Ids(p, op), Sent(p, op))
      /\ job \in Op /\ q.id = op /\ Ids(p, op) # {}
  BY StageOf DEF Moving, InitialRequest
<1>2. /\ ~job.hasError /\ job.parent = 0 /\ job.type \in Transfers
  BY <1>1 DEF Asking, Fresh, Transfers
<1>3. p.signals[op] = <<>> /\ Shape(job)
  BY <1>1, <1>2, Unreported
<1>4. At(p, s, q, op, job, <<>>)
  BY <1>3, LessAt
<1>5. Replies(p, t, q, op, new, sig, r)
  <2>1. At(p, ReportRequestError(s, op), q, op, bad, sig)
    BY <1>4, AtReport
  <2>2. bad.state = "Open"
    BY <1>1 DEF Asking, Op
  <2> HIDE DEF s, bad, sig
  <2> QED BY <2>1, <2>2, AtClose
<1>6. /\ new.type = job.type /\ new.append = job.append /\ new.parent = 0
      /\ new.readable = job.readable /\ new.fileSize = job.fileSize
      /\ new.unreadable = job.unreadable /\ new.hasError
      /\ new.state = "CloseRequested"
  BY <1>1, <1>2 DEF Op
<1>7. /\ Reports(<<>>, sig, 0) /\ "ok" \notin Range(sig)
      /\ sig = <<"failed">>
  BY ReportOne
<1>8. /\ r.id = q.id /\ r.type \in OnHandles
      /\ q.id \in Nat /\ Only(q.id, "CLOSE", {q.id}, {r})
  BY <1>1, <1>4, AtFacts DEF OnHandles, Only
<1> HIDE DEF new, r, t, s, sig
<1>9. OpInv(new, op, {q.id}, {r}, sig)
  <2>1. Closing(new, {q.id}, {r})
    BY <1>2, <1>6, <1>8 DEF Closing
  <2>2. Shape(new) /\ Reported(new, {q.id}, sig)
    BY <1>3, <1>6, <1>7 DEF Shape, Reported
  <2> QED BY <2>1, <2>2 DEF OpInv, Stage
<1>10. Settled(p, t, q, op)
  BY <1>1, <1>2, <1>3, <1>5, <1>6, <1>7, <1>8, <1>9, FollowsSettled
<1> QED
  BY <1>10 DEF t, s

LEMMA DownloadSizeRefused ==
    ASSUME NEW p, NEW q, NEW op, NEW status, Good(p), Of(p, q, op),
           q.type = "FSTAT", p.ops[op].type = "Download"
    PROVE  Settled(p, HandleStatus(Less(p, q), q.id, status), q, op)
<1> DEFINE job == p.ops[op]
           s == Less(p, q)
           t == SendTransferCloseHandle(ReportRequestError(s, op), op, q.id)
<1>1. Asking(job, op, Ids(p, op), Sent(p, op))
  BY StageOf DEF Moving, InitialRequest
<1>2. job.state = "Open" /\ job.statRequested
  BY <1>1 DEF Asking
<1>3. s.jobs[q.id] = op /\ s.ops[op] = job
  BY LessAt, AtFacts
<1>4. HandleStatus(s, q.id, status) = t
  <2> HIDE DEF s
  <2>1. HandleStatus(s, q.id, status) = HandleGetStatus(s, q.id, status)
    BY <1>3 DEF HandleStatus
  <2>2. HandleGetStatus(s, q.id, status) = t
    BY <1>2, <1>3 DEF HandleGetStatus
  <2> QED BY <2>1, <2>2
<1> QED
  BY <1>4, StatFails

(* The code counts a request off that it never counted: the handle is lost.*)
LEMMA AppendRefused ==
    ASSUME NEW p, NEW q, NEW op, Good(p), Of(p, q, op),
           q.type = "FSTAT", p.ops[op].type = "UploadFile"
    PROVE  Settled(p, HandleStatus(Less(p, q), q.id, "FAILURE"), q, op)
<1> DEFINE job == p.ops[op]
           s == Less(p, q)
           t == RemoveTransferRequest(ReportRequestError(s, op), q.id)
           bad == [job EXCEPT !.hasError = TRUE]
           new == [bad EXCEPT !.inFlightCount = @ - 1]
           sig == Append(<<>>, "failed")
<1>1. /\ OpInv(job, op, Ids(p, op), Sent(p, op), p.signals[op])
      /\ Alone(p, q, op) /\ Asking(job, op, Ids(p, op), Sent(p, op))
      /\ job \in Op /\ q.id = op /\ Ids(p, op) # {}
  BY StageOf DEF Moving, InitialRequest
<1>2. /\ ~job.hasError /\ job.parent = 0 /\ job.append
      /\ job.inFlightCount = 0 /\ job.state = "Open"
  BY <1>1 DEF Asking, Fresh
<1>3. p.signals[op] = <<>> /\ Shape(job)
  BY <1>1, <1>2, Unreported
<1>4. At(p, s, q, op, job, <<>>)
  BY <1>3, LessAt
<1>5. s.jobs[q.id] = op /\ s.ops[op] = job
  BY <1>4, AtFacts
<1>6. At(p, ReportRequestError(s, op), q, op, bad, sig)
  <2> HIDE DEF s
  <2> QED BY <1>4, AtReport
<1>7. bad.inFlightCount = 0 /\ bad \in Op
  BY <1>1, <1>2 DEF Op
<1>8. HandleStatus(s, q.id, "FAILURE") = t
  <2> DEFINE e == ReportRequestError(s, op)
  <2>1. e.jobs[q.id] = op /\ e.ops[op] = bad
    BY <1>6, AtFacts
  <2> HIDE DEF s, bad
  <2>2. HandleStatus(s, q.id, "FAILURE") = HandlePutStatus(s, q.id, "FAILURE")
    BY <1>5 DEF HandleStatus
  <2>3. ~ParentHasError(s, op) /\ SetParentError(s, op) = s
    BY <1>2, <1>5 DEF ParentHasError, SetParentError
  <2>4. HandlePutStatus(s, q.id, "FAILURE") = FinishTransferRequest(e, q.id)
    BY <1>2, <1>5, <2>3 DEF HandlePutStatus
  <2> HIDE DEF e
  <2>5. FinishTransferRequest(e, q.id) = RemoveTransferRequest(e, q.id)
    BY <1>7, <2>1 DEF FinishTransferRequest
  <2> QED BY <2>2, <2>4, <2>5 DEF e
<1>9. Leaves(p, t, q, op, new, sig)
  <2> HIDE DEF s, bad
  <2> QED BY <1>6, AtRemove
<1>10. /\ new.type = job.type /\ new.parent = 0 /\ new.append
       /\ new.readable = job.readable /\ new.fileSize = job.fileSize
       /\ new.unreadable = job.unreadable /\ new.inFlightCount = -1
  BY <1>1, <1>2, <1>7 DEF Op
<1>11. /\ Reports(<<>>, sig, 0) /\ "ok" \notin Range(sig)
  BY ReportOne
<1> HIDE DEF new, t, s, sig
<1>12. Shape(new) /\ Unsized(new)
  BY <1>3, <1>10 DEF Shape, Unsized
<1>13. Settled(p, t, q, op)
  BY <1>1, <1>2, <1>3, <1>9, <1>10, <1>11, <1>12, EndsSettled
<1> QED
  BY <1>8, <1>13 DEF s

LEMMA SizeUnknown ==
    ASSUME NEW p, NEW q, NEW op, Good(p), Of(p, q, op),
           q.type = "FSTAT", p.ops[op].type = "UploadFile"
    PROVE  Settled(p, HandleAttrs(Less(p, q), q.id, NoSize), q, op)
<1> DEFINE job == p.ops[op]
           s == Less(p, q)
           t == SendTransferCloseHandle(ReportRequestError(s, op), op, q.id)
<1>1. q.id = op
  BY StageOf DEF Moving, InitialRequest
<1>2. s.jobs[q.id] = op /\ s.ops[op] = job
  BY LessAt, AtFacts
<1>3. HandleAttrs(s, q.id, NoSize) = t
  <2> HIDE DEF s
  <2> QED BY <1>1, <1>2 DEF HandleAttrs
<1> QED
  BY <1>3, StatFails

(* SSH_FXP_CLOSE is answered.                                              *)
LEMMA ClosedDownload ==
    ASSUME NEW p, NEW q, NEW op, NEW status, Good(p), Of(p, q, op),
           q.type = "CLOSE", p.ops[op].type = "Download"
    PROVE  Settled(p, HandleStatus(Less(p, q), q.id, status), q, op)
<1> DEFINE job == p.ops[op]
           s == Less(p, q)
           closed == IF job.hasError THEN s
                     ELSE IF status = "OK" THEN Finished(s, op, "ok")
                     ELSE ReportRequestError(s, op)
           t == RemoveTransferRequest(closed, q.id)
<1>1. /\ OpInv(job, op, Ids(p, op), Sent(p, op), p.signals[op])
      /\ Alone(p, q, op) /\ Closing(job, Ids(p, op), Sent(p, op))
      /\ job \in Op /\ Ids(p, op) # {}
  BY StageOf DEF Requesting, Listing, Creating, Asking, Moving, InitialRequest
<1>2. /\ job.state = "CloseRequested" /\ job.type \in Transfers
      /\ ~job.hasError => CompleteJob(job)
  BY <1>1 DEF Closing
<1>3. Shape(job) /\ job.parent = 0 /\ q.type \notin Lasting
  BY <1>1 DEF OpInv, Shape, Lasting, OnHandles
<1>4. At(p, s, q, op, job, p.signals[op])
  BY LessAt
<1>5. s.jobs[q.id] = op /\ s.ops[op] = job
  BY <1>4, AtFacts
<1>6. HandleStatus(s, q.id, status) = t
  <2> HIDE DEF s
  <2>1. HandleStatus(s, q.id, status) = HandleGetStatus(s, q.id, status)
    BY <1>5 DEF HandleStatus
  <2>2. HandleGetStatus(s, q.id, status) = t
    BY <1>2, <1>5 DEF HandleGetStatus
  <2> QED BY <2>1, <2>2
<1>7. ASSUME NEW end, NEW sig, At(p, closed, q, op, end, sig),
             Shape(end), end.parent = 0, end.type = "Download", end \in Op,
             Reports(p.signals[op], sig, 0),
             "ok" \in Range(sig) => CompleteJob(end)
      PROVE  Settled(p, t, q, op)
  <2> DEFINE new == [end EXCEPT !.inFlightCount = @ - 1]
  <2> HIDE DEF closed
  <2>1. Leaves(p, t, q, op, new, sig)
    BY <1>7, AtRemove
  <2>2. /\ new.type = end.type /\ new.parent = 0 /\ new.append = end.append
        /\ new.contents = end.contents /\ new.remote = end.remote
        /\ new.fileSize = end.fileSize
    BY <1>7 DEF Op
  <2> HIDE DEF new, t
  <2>3. Shape(new) /\ (CompleteJob(end) => CompleteJob(new))
    BY <1>7, <2>2 DEF Shape, CompleteJob, Base
  <2> QED BY <1>1, <1>3, <1>7, <2>1, <2>2, <2>3, EndsSettled
<1>8. ASSUME job.hasError PROVE Settled(p, t, q, op)
  <2>1. "ok" \notin Range(p.signals[op]) /\ Reports(p.signals[op], p.signals[op], 0)
    BY <1>1, <1>3, <1>8, ReportOne DEF OpInv, Reported, Reports
  <2>2. closed = s
    BY <1>8
  <2> HIDE DEF closed, s, t
  <2> QED BY <1>1, <1>3, <1>4, <1>7, <2>1, <2>2
<1>9. ASSUME ~job.hasError PROVE Settled(p, t, q, op)
  <2>1. p.signals[op] = <<>>
    BY <1>1, <1>9, Unreported
  <2>2. CASE status = "OK"
    <3>1. At(p, closed, q, op, job, Append(<<>>, "ok"))
      BY <1>4, <1>9, <2>1, <2>2, AtFinished
    <3>2. Reports(<<>>, Append(<<>>, "ok"), 0)
      BY ReportOne
    <3> HIDE DEF closed, s, t
    <3> QED BY <1>1, <1>2, <1>3, <1>7, <1>9, <2>1, <3>1, <3>2
  <2>3. CASE status # "OK"
    <3> DEFINE end == [job EXCEPT !.hasError = TRUE]
    <3>1. At(p, closed, q, op, end, Append(<<>>, "failed"))
      BY <1>4, <1>9, <2>1, <2>3, AtReport
    <3>2. /\ Reports(<<>>, Append(<<>>, "failed"), 0)
          /\ "ok" \notin Range(Append(<<>>, "failed"))
      BY ReportOne
    <3>3. end \in Op /\ end.type = "Download" /\ end.parent = 0 /\ Shape(end)
      BY <1>1, <1>3 DEF Op, Shape
    <3> HIDE DEF closed, s, t, end
    <3> QED BY <1>7, <2>1, <3>1, <3>2, <3>3
  <2> QED BY <2>2, <2>3
<1> HIDE DEF closed, s, t
<1>10. Settled(p, t, q, op)
  BY <1>8, <1>9
<1> QED
  BY <1>6, <1>10 DEF s

LEMMA ClosedUpload ==
    ASSUME NEW p, NEW q, NEW op, NEW status, Good(p), Of(p, q, op),
           q.type = "CLOSE", p.ops[op].type = "UploadFile",
           p.ops[op].parent = 0
    PROVE  Settled(p, HandleStatus(Less(p, q), q.id, status), q, op)
<1> DEFINE job == p.ops[op]
           s == Less(p, q)
           end == IF status = "OK" THEN "ok" ELSE "failed"
           closed == IF job.hasError THEN s ELSE Finished(s, op, end)
           t == Erase(closed, q.id)
<1>1. /\ OpInv(job, op, Ids(p, op), Sent(p, op), p.signals[op])
      /\ Alone(p, q, op) /\ Closing(job, Ids(p, op), Sent(p, op))
      /\ job \in Op /\ Ids(p, op) # {}
  BY StageOf DEF Requesting, Listing, Creating, Asking, Moving, InitialRequest
<1>2. /\ job.state = "CloseRequested" /\ job.type \in Transfers
      /\ ~job.hasError => CompleteJob(job)
  BY <1>1 DEF Closing
<1>3. Shape(job) /\ q.type \notin Lasting
  BY <1>1 DEF OpInv, Lasting, OnHandles
<1>4. At(p, s, q, op, job, p.signals[op])
  BY LessAt
<1>5. s.jobs[q.id] = op /\ s.ops[op] = job
  BY <1>4, AtFacts
<1>6. HandleStatus(s, q.id, status) = t
  <2> HIDE DEF s
  <2>1. HandleStatus(s, q.id, status) = HandlePutStatus(s, q.id, status)
    BY <1>5 DEF HandleStatus
  <2>2. ~ParentHasError(s, op) /\ UploadClosed(s, op, status) = Finished(s, op, end)
    BY <1>5 DEF ParentHasError, UploadClosed
  <2>3. HandlePutStatus(s, q.id, status) = t
    BY <1>2, <1>5, <2>2 DEF HandlePutStatus
  <2> QED BY <2>1, <2>3
<1>7. ASSUME job.hasError PROVE Settled(p, t, q, op)
  <2>1. "ok" \notin Range(p.signals[op]) /\ Reports(p.signals[op], p.signals[op], 0)
    BY <1>1, <1>3, <1>7, ReportOne DEF OpInv, Reported, Reports
  <2>2. Leaves(p, t, q, op, job, p.signals[op])
    BY <1>4, <1>7, AtErase
  <2> HIDE DEF closed, s, t
  <2> QED BY <1>1, <1>3, <2>1, <2>2, EndsSettled
<1>8. ASSUME ~job.hasError PROVE Settled(p, t, q, op)
  <2>1. p.signals[op] = <<>> /\ end \in {"ok", "failed"}
    BY <1>1, <1>8, Unreported
  <2> HIDE DEF end
  <2>2. Leaves(p, t, q, op, job, Append(<<>>, end))
    BY <1>4, <1>8, <2>1, AtErase, AtFinished
  <2>3. Reports(<<>>, Append(<<>>, end), 0)
    BY <2>1, ReportOne
  <2> HIDE DEF closed, s, t
  <2> QED BY <1>1, <1>2, <1>3, <1>8, <2>1, <2>2, <2>3, EndsSettled
<1> HIDE DEF closed, s, t
<1>9. Settled(p, t, q, op)
  BY <1>7, <1>8
<1> QED
  BY <1>6, <1>9 DEF s
----------------------------------------------------------------------------
(* The chunks of a transfer.                                               *)
Storing(job, x) == [job EXCEPT !.contents = @ \union {x}]

LEMMA AtStored ==
    ASSUME NEW p, NEW s, NEW q, NEW op, NEW job, NEW sig, NEW x \in Nat \X Nat,
           Of(p, q, op), At(p, s, q, op, job, sig)
    PROVE  At(p, [s EXCEPT !.ops[op].contents = @ \union {x}], q, op,
              Storing(job, x), sig)
<1>1. /\ s \in State /\ op \in DOMAIN s.ops /\ op \in DOMAIN s.signals
      /\ s.ops[op] = job /\ s.signals[op] = sig
      /\ job \in Op /\ sig \in Results
  BY AtFacts
<1> DEFINE t == [s EXCEPT !.ops[op].contents = @ \union {x}]
           new == Storing(job, x)
<1>2. new \in Op
  BY <1>1 DEF Op, Storing
<1>3. /\ t.jobs = s.jobs /\ t.requests = s.requests
      /\ t.uploadDirs = s.uploadDirs /\ t.nextJobId = s.nextJobId
      /\ t.ops = [s.ops EXCEPT ![op] = new]
      /\ t.signals = [s.signals EXCEPT ![op] = sig]
  BY <1>1, StateType DEF Storing, State
<1>4. t \in State
  <2>1. [s.ops EXCEPT ![op] = new] \in Maps(Nat, Op)
    BY <1>1, <1>2, StateType, MapExcept
  <2> QED BY <1>1, <1>3, <2>1 DEF Storing, State
<1> HIDE DEF t, new
<1>5. At(p, t, q, op, new, sig)
  BY <1>3, <1>4, AtJob
<1> QED
  BY <1>5 DEF t, new

LEMMA StoringFields ==
    ASSUME NEW job \in Op, NEW x \in Nat \X Nat
    PROVE  LET new == Storing(job, x)
           IN  /\ new.type = job.type /\ new.state = job.state
               /\ new.hasError = job.hasError /\ new.parent = job.parent
               /\ new.append = job.append /\ new.fileSize = job.fileSize
               /\ new.offset = job.offset /\ new.position = job.position
               /\ new.inFlightCount = job.inFlightCount
               /\ new.statRequested = job.statRequested
               /\ new.eofId = job.eofId /\ new.offsets = job.offsets
               /\ new.readable = job.readable
               /\ new.unreadable = job.unreadable
               /\ new.remote = job.remote /\ Base(new) = Base(job)
               /\ new.contents = job.contents \union {x} /\ new \in Op
  BY DEF Storing, Op, Base

LEMMA AfterWriteFields ==
    ASSUME NEW job \in Op
    PROVE  LET new == AfterWrite(job)
           IN  /\ new.type = job.type /\ new.state = job.state
               /\ new.hasError = job.hasError /\ new.parent = job.parent
               /\ new.append = job.append /\ new.fileSize = job.fileSize
               /\ new.offset = job.offset + 1
               /\ new.position = job.position + 1
               /\ new.inFlightCount = job.inFlightCount
               /\ new.statRequested = job.statRequested
               /\ new.readable = job.readable
               /\ new.unreadable = job.unreadable
               /\ new.remote = job.remote /\ Base(new) = Base(job)
               /\ new.contents = job.contents
  BY DEF AfterWrite, Op, Base

LEMMA AfterReadFields ==
    ASSUME NEW job \in Op, NEW id
    PROVE  LET new == AfterRead(job, id)
           IN  /\ new.type = job.type /\ new.state = job.state
               /\ new.hasError = job.hasError /\ new.parent = job.parent
               /\ new.append = job.append /\ new.fileSize = job.fileSize
               /\ new.offset = job.offset + 1
               /\ new.position = job.position
               /\ new.inFlightCount = job.inFlightCount
               /\ new.statRequested = job.statRequested
               /\ new.offsets = With(job.offsets, id, job.offset)
               /\ new.eofId = IF job.offset + 1 >= job.fileSize THEN id
                              ELSE job.eofId
               /\ new.readable = job.readable
               /\ new.unreadable = job.unreadable
               /\ new.remote = job.remote /\ Base(new) = Base(job)
               /\ new.contents = job.contents
  BY DEF AfterRead, Op, Base

LEMMA BaseType ==
    ASSUME NEW job \in Op
    PROVE  /\ Base(job) \in Nat /\ job.position \in Nat /\ job.readable \in Nat
           /\ job.offset \in Nat /\ job.fileSize \in Nat /\ job.remote \in Nat
           /\ job.contents \in SUBSET (Nat \X Nat)
           /\ job.offsets \in Maps(Nat, Nat) /\ job.inFlightCount \in Int
           /\ job.eofId \in Nat
  BY DEF Base, Op

(* An upload: a chunk arrives, the next is sent, all were sent.            *)
LEMMA UploadArrives ==
    ASSUME NEW job \in Op, NEW Q \in SUBSET Request, NEW q \in Q,
           UploadData(job, Q)
    PROVE  UploadData(Storing(job, <<q.offset, q.chunk>>), Q \ {q})
<1> DEFINE x == <<q.offset, q.chunk>>
           new == Storing(job, x)
<1>1. x \in Nat \X Nat /\ x[1] = q.offset /\ x[2] = q.chunk
  BY DEF Request
<1>2. /\ q.chunk < job.position /\ q.offset = Base(job) + q.chunk
  BY DEF UploadData
<1> HIDE DEF x
<1>3. /\ new.offset = job.offset /\ new.position = job.position
      /\ new.readable = job.readable /\ Base(new) = Base(job)
      /\ new.contents = job.contents \union {x}
  BY <1>1, StoringFields
<1> HIDE DEF new
<1>4. ASSUME NEW c \in 0..(job.position - 1)
      PROVE  \/ <<Base(job) + c, c>> \in new.contents
             \/ \E r \in Q \ {q} : r.chunk = c
  <2>1. CASE <<Base(job) + c, c>> \in job.contents
    BY <1>3, <2>1
  <2>2. CASE c = q.chunk
    BY <1>2, <1>3, <2>2 DEF x
  <2>3. CASE \E r \in Q : r.chunk = c /\ c # q.chunk
    BY <2>3
  <2> QED BY <2>1, <2>2, <2>3 DEF UploadData
<1>5. UploadData(new, Q \ {q})
  BY <1>1, <1>2, <1>3, <1>4 DEF UploadData
<1> QED
  BY <1>5 DEF new, x

LEMMA UploadNext ==
    ASSUME NEW job \in Op, NEW R \in SUBSET Request, NEW r \in Request,
           UploadData(job, R), job.position < job.readable,
           r.offset = job.offset, r.chunk = job.position
    PROVE  UploadData(AfterWrite(job), R \union {r})
<1> DEFINE new == AfterWrite(job)
<1>1. /\ new.offset = job.offset + 1 /\ new.position = job.position + 1
      /\ new.readable = job.readable /\ Base(new) = Base(job)
      /\ new.contents = job.contents
  BY AfterWriteFields
<1>2. /\ Base(job) \in Nat /\ job.position \in Nat /\ job.readable \in Nat
      /\ job.offset \in Nat /\ job.contents \in SUBSET (Nat \X Nat)
  BY BaseType
<1>3. /\ job.offset = Base(job) + job.position
      /\ \A x \in R : x.chunk < job.position /\ x.offset = Base(job) + x.chunk
                       /\ x.chunk \in Nat
      /\ \A p \in job.contents :
            p[2] < job.position /\ p[1] = Base(job) + p[2] /\ p[2] \in Nat
      /\ \A c \in 0..(job.position - 1) :
            \/ <<Base(job) + c, c>> \in job.contents
            \/ \E x \in R : x.chunk = c
  BY <1>2 DEF UploadData, Request
<1> HIDE DEF new
<1>4. ASSUME NEW c \in 0..(new.position - 1)
      PROVE  \/ <<Base(job) + c, c>> \in new.contents
             \/ \E x \in R \union {r} : x.chunk = c
  <2>1. CASE c = job.position
    BY <2>1
  <2>2. CASE c # job.position
    <3> c \in 0..(job.position - 1)
      BY <1>1, <1>2, <2>2
    <3> QED BY <1>1, <1>3
  <2> QED BY <2>1, <2>2
<1>5. /\ new.offset = Base(new) + new.position
      /\ new.position <= new.readable
  BY <1>1, <1>2, <1>3
<1>6. \A x \in R \union {r} :
         x.chunk < new.position /\ x.offset = Base(new) + x.chunk
  BY <1>1, <1>2, <1>3
<1>7. \A p \in new.contents :
         p[2] < new.position /\ p[1] = Base(new) + p[2]
  BY <1>1, <1>2, <1>3
<1>8. UploadData(new, R \union {r})
  BY <1>1, <1>4, <1>5, <1>6, <1>7 DEF UploadData
<1> QED
  BY <1>8 DEF new

LEMMA UploadEnds ==
    ASSUME NEW job \in Op, UploadData(job, {}), job.type = "UploadFile",
           Shape(job), ~(job.position < job.readable)
    PROVE  CompleteJob(job)
<1>1. /\ Base(job) \in Nat /\ job.position \in Nat /\ job.readable \in Nat
      /\ job.contents \in SUBSET (Nat \X Nat)
  BY BaseType
<1>2. job.position = job.fileSize
  BY <1>1 DEF UploadData, Shape
<1>3. \A p \in job.contents :
         p \in {<<Base(job) + c, c>> : c \in 0..(job.fileSize - 1)}
  <2> TAKE p \in job.contents
  <2>1. /\ p[2] \in Nat /\ p = <<p[1], p[2]>>
        /\ p[2] < job.fileSize /\ p[1] = Base(job) + p[2]
    BY <1>1, <1>2 DEF UploadData
  <2>2. p[2] \in 0..(job.fileSize - 1)
    BY <1>1, <1>2, <2>1
  <2> QED BY <2>1, <2>2
<1>4. \A c \in 0..(job.fileSize - 1) : <<Base(job) + c, c>> \in job.contents
  BY <1>2 DEF UploadData
<1>5. job.contents = {<<Base(job) + c, c>> : c \in 0..(job.fileSize - 1)}
  BY <1>3, <1>4
<1> QED
  BY <1>5 DEF CompleteJob
(* A download: a chunk arrives, the next is asked for, all were.           *)
LEMMA DownloadArrives ==
    ASSUME NEW job \in Op, NEW I, NEW Q \in SUBSET Request, NEW q \in Q,
           DownloadData(job, I, Q), q.offset < job.remote
    PROVE  /\ q.id \in DOMAIN job.offsets /\ job.offsets[q.id] = q.offset
           /\ q.chunk = q.offset /\ <<q.offset, q.offset>> \in Nat \X Nat
           /\ DownloadData(Storing(job, <<q.offset, q.offset>>), I, Q \ {q})
<1> DEFINE x == <<q.offset, q.offset>>
           new == Storing(job, x)
<1>1. x \in Nat \X Nat /\ x[1] = q.offset /\ x[2] = q.offset
  BY DEF Request
<1>2. /\ q.chunk = q.offset /\ q.offset < job.offset
      /\ q.id \in DOMAIN job.offsets /\ job.offsets[q.id] = q.offset
  BY DEF DownloadData
<1> HIDE DEF x
<1>3. /\ new.offset = job.offset /\ new.fileSize = job.fileSize
      /\ new.remote = job.remote /\ new.offsets = job.offsets
      /\ new.eofId = job.eofId /\ new.contents = job.contents \union {x}
  BY <1>1, StoringFields
<1> HIDE DEF new
<1>4. ASSUME NEW c \in 0..(job.offset - 1)
      PROVE  <<c, c>> \in new.contents \/ \E r \in Q \ {q} : r.offset = c
  <2>1. CASE <<c, c>> \in job.contents
    BY <1>3, <2>1
  <2>2. CASE c = q.offset
    BY <1>3, <2>2 DEF x
  <2>3. CASE \E r \in Q : r.offset = c /\ c # q.offset
    BY <2>3
  <2> QED BY <2>1, <2>2, <2>3 DEF DownloadData
<1>5. /\ \A r \in Q \ {q} : /\ r.chunk = r.offset /\ r.offset < new.offset
                            /\ r.id \in DOMAIN new.offsets
                            /\ new.offsets[r.id] = r.offset
      /\ \A p \in new.contents :
            p[1] = p[2] /\ p[2] < new.offset /\ p[2] < new.remote
      /\ \/ /\ new.fileSize = new.remote /\ new.fileSize # 0
            /\ new.offset <= new.fileSize
         \/ /\ new.fileSize = 0 /\ I = {new.eofId}
            /\ \A r \in Q \ {q} : r.offset + 1 = new.offset
  BY <1>1, <1>2, <1>3 DEF DownloadData
<1>6. DownloadData(new, I, Q \ {q})
  BY <1>3, <1>4, <1>5 DEF DownloadData
<1> QED
  BY <1>1, <1>2, <1>6 DEF new, x

(* The next chunk is asked for.  When the size is not known, nothing else  *)
(* is in flight.                                                           *)
LEMMA DownloadNext ==
    ASSUME NEW job \in Op, NEW I, NEW R \in SUBSET Request, NEW r \in Request,
           DownloadData(job, I, R), NEW J,
           r.offset = job.offset, r.chunk = job.offset,
           \A x \in R : x.id # r.id,
           job.fileSize # 0 => job.offset < job.fileSize,
           job.fileSize = 0 => R = {} /\ J = {r.id}
    PROVE  DownloadData(AfterRead(job, r.id), J, R \union {r})
<1> DEFINE new == AfterRead(job, r.id)
<1>1. /\ new.offset = job.offset + 1 /\ new.fileSize = job.fileSize
      /\ new.remote = job.remote /\ new.contents = job.contents
      /\ new.offsets = With(job.offsets, r.id, job.offset)
      /\ new.eofId = IF job.offset + 1 >= job.fileSize THEN r.id
                     ELSE job.eofId
  BY AfterReadFields
<1>2. /\ job.offset \in Nat /\ job.fileSize \in Nat /\ job.remote \in Nat
      /\ job.contents \in SUBSET (Nat \X Nat)
  BY BaseType
<1>3. /\ DOMAIN new.offsets = DOMAIN job.offsets \union {r.id}
      /\ new.offsets[r.id] = job.offset
      /\ \A i \in DOMAIN job.offsets :
            i # r.id => new.offsets[i] = job.offsets[i]
  BY <1>1 DEF With
<1> HIDE DEF new
<1>4. \A x \in R \union {r} : /\ x.chunk = x.offset /\ x.offset < new.offset
                              /\ x.id \in DOMAIN new.offsets
                              /\ new.offsets[x.id] = x.offset
  <2> TAKE x \in R \union {r}
  <2>1. CASE x = r
    BY <1>1, <1>2, <1>3, <2>1
  <2>2. CASE x \in R
    <3>1. /\ x.chunk = x.offset /\ x.offset < job.offset
          /\ x.id \in DOMAIN job.offsets /\ job.offsets[x.id] = x.offset
          /\ x.offset \in Nat /\ x.id # r.id
      BY <2>2 DEF DownloadData, Request
    <3> QED BY <1>1, <1>2, <1>3, <3>1
  <2> QED BY <2>1, <2>2
<1>5. \A p \in new.contents :
         p[1] = p[2] /\ p[2] < new.offset /\ p[2] < new.remote
  <2> TAKE p \in new.contents
  <2>1. /\ p[1] = p[2] /\ p[2] < job.offset /\ p[2] < job.remote
        /\ p[2] \in Nat
    BY <1>1, <1>2 DEF DownloadData
  <2> QED BY <1>1, <1>2, <2>1
<1>6. ASSUME NEW c \in 0..(new.offset - 1)
      PROVE  <<c, c>> \in new.contents \/ \E x \in R \union {r} : x.offset = c
  <2>1. CASE c = job.offset
    BY <2>1
  <2>2. CASE c # job.offset
    <3> c \in 0..(job.offset - 1)
      BY <1>1, <1>2, <2>2
    <3> QED BY <1>1 DEF DownloadData
  <2> QED BY <2>1, <2>2
<1>7. \/ /\ new.fileSize = new.remote /\ new.fileSize # 0
         /\ new.offset <= new.fileSize
      \/ /\ new.fileSize = 0 /\ J = {new.eofId}
         /\ \A x \in R \union {r} : x.offset + 1 = new.offset
  <2>1. CASE job.fileSize = 0
    BY <1>1, <1>2, <2>1
  <2>2. CASE job.fileSize # 0
    BY <1>1, <1>2, <2>2 DEF DownloadData
  <2> QED BY <2>1, <2>2
<1>8. DownloadData(new, J, R \union {r})
  BY <1>4, <1>5, <1>6, <1>7 DEF DownloadData
<1> QED
  BY <1>8 DEF new

(* Chunks up to the size are there.                                        *)
LEMMA DownloadWhole ==
    ASSUME NEW job \in Op, job.type = "Download",
           \A p \in job.contents : p[1] = p[2] /\ p[2] < job.remote,
           \A c \in 0..(job.remote - 1) : <<c, c>> \in job.contents, Shape(job)
    PROVE  CompleteJob(job)
<1>1. /\ job.remote \in Nat /\ job.contents \in SUBSET (Nat \X Nat)
      /\ Base(job) = 0
  BY BaseType DEF Base, Shape
<1>2. \A p \in job.contents :
         p \in {<<Base(job) + c, c>> : c \in 0..(job.remote - 1)}
  <2> TAKE p \in job.contents
  <2>1. /\ p[2] \in Nat /\ p = <<p[1], p[2]>> /\ p[1] = 0 + p[2]
        /\ p[2] < job.remote
    BY <1>1
  <2>2. p[2] \in 0..(job.remote - 1)
    BY <1>1, <2>1
  <2> QED BY <1>1, <2>1, <2>2
<1>3. \A c \in 0..(job.remote - 1) : <<Base(job) + c, c>> \in job.contents
  <2> TAKE c \in 0..(job.remote - 1)
  <2>1. Base(job) + c = c
    BY <1>1
  <2> QED BY <2>1
<1>4. job.contents = {<<Base(job) + c, c>> : c \in 0..(job.remote - 1)}
  BY <1>2, <1>3
<1> QED
  BY <1>4 DEF CompleteJob

LEMMA DownloadEnds ==
    ASSUME NEW job \in Op, NEW I, DownloadData(job, I, {}),
           job.type = "Download", Shape(job),
           job.offset >= job.fileSize, job.fileSize # 0
    PROVE  CompleteJob(job)
<1>1. job.offset \in Nat /\ job.fileSize \in Nat
  BY BaseType
<1>2. /\ job.offset = job.remote
      /\ \A p \in job.contents : p[1] = p[2] /\ p[2] < job.remote
      /\ \A c \in 0..(job.offset - 1) : <<c, c>> \in job.contents
  BY <1>1 DEF DownloadData
<1> QED
  BY <1>2, DownloadWhole

(* Behind its end there is nothing to read.                                *)
LEMMA DownloadAtEnd ==
    ASSUME NEW job \in Op, NEW I, NEW Q \in SUBSET Request, NEW q \in Q,
           DownloadData(job, I, Q), job.type = "Download", Shape(job),
           q.id \in I, q.offset >= job.remote, OneEach(I, Q)
    PROVE  q.id = job.eofId /\ I = {q.id} /\ CompleteJob(job)
<1>1. /\ job.offset \in Nat /\ job.fileSize \in Nat /\ job.remote \in Nat
      /\ q.offset \in Nat
  BY BaseType DEF Request
<1>2. job.fileSize = 0 /\ I = {job.eofId} /\ q.offset + 1 = job.offset
  BY <1>1 DEF DownloadData
<1>3. I = {q.id} /\ Q = {q}
  BY <1>2 DEF OneEach
<1>4. \A c \in 0..(job.remote - 1) : <<c, c>> \in job.contents
  <2> TAKE c \in 0..(job.remote - 1)
  <2>1. c \in 0..(job.offset - 1) /\ c # q.offset
    BY <1>1, <1>2
  <2> QED BY <1>3, <2>1 DEF DownloadData
<1>5. \A p \in job.contents : p[1] = p[2] /\ p[2] < job.remote
  BY DEF DownloadData
<1> QED
  BY <1>2, <1>3, <1>4, <1>5, DownloadWhole
----------------------------------------------------------------------------
(* Answers to the requests of a transfer.                                  *)
LEMMA NoParentError ==
    ASSUME NEW p, NEW op \in DOMAIN p.ops, Good(p),
           p.ops[op].type = "UploadFile", p.ops[op].parent # 0
    PROVE  /\ p.ops[op].parent \in DOMAIN p.uploadDirs
           /\ ~p.uploadDirs[p.ops[op].parent].hasError
           /\ op # p.ops[op].parent + 1
           /\ op \in FilesIn(p, p.ops[op].parent)
<1> DEFINE d == p.ops[op].parent
<1>1. d \in DOMAIN p.uploadDirs
  BY DEF Good, Wired, Plain
<1>2. DirInv(p, d)
  BY <1>1 DEF Good, DirsInv
<1>3. op \in FilesIn(p, d)
  BY DEF Kids, FilesIn
<1>4. op # d + 1 /\ op \in Kids(p, d)
  BY <1>2, <1>3 DEF DirInv, DirsIn, FilesIn
<1>5. ~Refused(p, d)
  BY <1>4 DEF Refused
<1> HIDE DEF d
<1>6. ~p.uploadDirs[d].hasError
  BY <1>2, <1>5 DEF DirInv, AtLevel, AllCreated
<1> QED
  BY <1>1, <1>3, <1>4, <1>6 DEF d

(* The data of a transfer without the request that was answered: complete, *)
(* when that was the last.                                                 *)
Remaining(job, I, Q, q) ==
    IF I = {q.id} THEN CompleteJob(job) ELSE Data(job, I \ {q.id}, Q \ {q})

(* A transfer that goes on as before, but for its data and its error.      *)
Alike(job, new) ==
    /\ new \in Op
    /\ new.type = job.type /\ new.parent = job.parent
    /\ new.append = job.append /\ new.state = job.state
    /\ new.fileSize = job.fileSize /\ new.readable = job.readable
    /\ new.unreadable = job.unreadable
    /\ new.statRequested = job.statRequested
    /\ new.inFlightCount = job.inFlightCount

(* What was reported of an operation in work.                              *)
Result(job) == IF job.hasError THEN <<"failed">> ELSE <<>>

LEMMA ReportedResult ==
    ASSUME NEW job, NEW I, Shape(job)
    PROVE  Reported(job, I, Result(job)) <=>
              (job.type = "UploadFile" /\ job.parent # 0 /\ I = {}
                  => CompleteJob(job))
  BY ReportOne DEF Reported, Result, Shape, Range

LEMMA FinishSettled ==
    ASSUME NEW p, NEW s, NEW q, NEW op, NEW job,
           Good(p), Of(p, q, op), q.type \in {"READ", "WRITE"},
           At(p, s, q, op, job, Result(job)), Alike(p.ops[op], job),
           p.ops[op].hasError => job.hasError,
           job.hasError => job.parent = 0,
           ~job.hasError => Remaining(job, Ids(p, op), Sent(p, op), q)
    PROVE  Settled(p, FinishTransferRequest(s, q.id), q, op)
<1> DEFINE old == p.ops[op]
           I == Ids(p, op)
           Q == Sent(p, op)
           t == FinishTransferRequest(s, q.id)
<1>1. /\ OpInv(old, op, I, Q, p.signals[op]) /\ Moving(old, I, Q)
      /\ old.inFlightCount = Cardinality(I)
      /\ q \in Q /\ q.id \in I /\ Wired(p) /\ old \in Op
  BY StageOf DEF InitialRequest
<1>2. /\ old.type \in Transfers /\ old.state = "Open" /\ IsFiniteSet(I)
      /\ old.type = "Download" => ~old.statRequested
      /\ \A r \in Q :
            r.type = IF old.type = "Download" THEN "READ" ELSE "WRITE"
  BY <1>1 DEF Moving
<1>3. Shape(job) /\ p.signals[op] = Result(old)
  BY <1>1 DEF OpInv, Shape, Alike, Reported, Result
<1>4. Reports(p.signals[op], Result(job), old.parent)
  BY <1>3 DEF Reports, Result, Alike
<1>5. /\ IF job.inFlightCount = 1
         THEN Replies(p, t, q, op,
                   [job EXCEPT !.state = "CloseRequested"], Result(job),
                   [id |-> q.id, type |-> "CLOSE", offset |-> 0, chunk |-> 0])
         ELSE Leaves(p, t, q, op,
                     [job EXCEPT !.inFlightCount = @ - 1], Result(job))
      /\ q.id \in Nat
  <2>1. job.state # "CloseRequested"
    BY <1>2 DEF Alike
  <2> QED BY <2>1, AtFinish, AtFacts
<1>6. Cardinality(I) \in Nat /\ Cardinality(I) # 0
  BY <1>1, <1>2, FS_CardinalityType, FS_EmptySet
<1>7. CASE Cardinality(I) = 1
  <2> DEFINE new == [job EXCEPT !.state = "CloseRequested"]
             r == [id |-> q.id, type |-> "CLOSE", offset |-> 0, chunk |-> 0]
  <2>1. I = {q.id}
    BY <1>1, <1>2, <1>7, FS_Singleton
  <2>2. Q = {q}
    BY <1>1, <2>1, WiredOne DEF OneEach
  <2>3. Replies(p, t, q, op, new, Result(job), r)
    BY <1>1, <1>5, <1>7 DEF Alike
  <2>4. /\ new.type = old.type /\ new.parent = old.parent
        /\ new.append = job.append /\ new.readable = job.readable
        /\ new.fileSize = job.fileSize /\ new.unreadable = job.unreadable
        /\ new.hasError = job.hasError /\ new.state = "CloseRequested"
        /\ new.contents = job.contents /\ new.remote = job.remote
        /\ new.type = job.type /\ new.parent = job.parent
    BY DEF Alike, Op
  <2>5. r.id = q.id /\ r.type \in OnHandles /\ Only(q.id, "CLOSE", {q.id}, {r})
    BY DEF OnHandles, Only
  <2>6. Reports(p.signals[op], Result(job), p.ops[op].parent)
    BY <1>4
  <2> HIDE DEF new, r, t
  <2>7. Closing(new, {q.id}, {r})
    <3>1. ~new.hasError => CompleteJob(new)
      BY <2>1, <2>4 DEF Remaining, CompleteJob, Base
    <3> QED BY <1>2, <1>5, <2>4, <2>5, <3>1 DEF Closing
  <2>8. Shape(new) /\ Result(new) = Result(job)
    BY <1>3, <2>4 DEF Shape, Result
  <2>9. OpInv(new, op, {q.id}, {r}, Result(job))
    BY <2>7, <2>8, ReportedResult DEF OpInv, Stage
  <2>10. Alone(p, q, op)
    BY <2>1, <2>2 DEF Alone
  <2> HIDE DEF old, I, Q
  <2>11. Settled(p, t, q, op)
    BY <2>3, <2>4, <2>5, <2>6, <2>9, <2>10, FollowsSettled DEF old
  <2> QED BY <2>11 DEF t
<1>8. CASE Cardinality(I) # 1
  <2> DEFINE new == [job EXCEPT !.inFlightCount = @ - 1]
             J == I \ {q.id}
             R == Q \ {q}
  <2>1. /\ I # {q.id} /\ IsFiniteSet(J) /\ J # {}
        /\ Cardinality(J) = Cardinality(I) - 1
    <3>1. IsFiniteSet(J) /\ Cardinality(J) = Cardinality(I) - 1
      BY <1>1, <1>2, FS_RemoveElement
    <3>2. I # {q.id}
      BY <1>8, FS_Singleton
    <3>3. J # {}
      BY <1>1, <3>2
    <3> QED BY <3>1, <3>2, <3>3
  <2>2. Leaves(p, t, q, op, new, Result(job))
    BY <1>1, <1>5, <1>8 DEF Alike
  <2>3. /\ new.type = old.type /\ new.parent = old.parent
        /\ new.append = job.append /\ new.readable = job.readable
        /\ new.fileSize = job.fileSize /\ new.unreadable = job.unreadable
        /\ new.hasError = job.hasError /\ new.state = old.state
        /\ new.contents = job.contents /\ new.remote = job.remote
        /\ new.type = job.type /\ new.parent = job.parent
        /\ new.offset = job.offset /\ new.position = job.position
        /\ new.offsets = job.offsets /\ new.eofId = job.eofId
        /\ new.statRequested = old.statRequested
        /\ new.inFlightCount = old.inFlightCount - 1
    BY DEF Alike, Op
  <2>4. \A x \in R : x.type \in OnHandles
    BY <1>2 DEF OnHandles
  <2> HIDE DEF new, t, J, R
  <2>5. Moving(new, J, R) /\ new.inFlightCount = Cardinality(J)
    <3>1. Data(job, J, R) => Data(new, J, R)
      BY <2>3 DEF Data, DownloadData, UploadData, Base
    <3>2. ~new.hasError => Data(new, J, R)
      BY <2>1, <2>3, <3>1 DEF Remaining, J, R
    <3>3. \A x \in R :
             x.type = IF new.type = "Download" THEN "READ" ELSE "WRITE"
      BY <1>2, <2>3 DEF R
    <3> QED BY <1>1, <1>2, <2>1, <2>3, <3>2, <3>3 DEF Moving
  <2>6. Shape(new) /\ Result(new) = Result(job)
    BY <1>3, <2>3 DEF Shape, Result
  <2>7. OpInv(new, op, J, R, Result(job))
    BY <2>1, <2>5, <2>6, ReportedResult DEF OpInv, Stage
  <2>8. Settled(p, t, q, op)
    BY <1>4, <2>1, <2>2, <2>3, <2>4, <2>7, LeavesSettled DEF J, R
  <2> QED BY <2>8 DEF t
<1> QED
  BY <1>7, <1>8
LEMMA ContinueSettled ==
    ASSUME NEW p, NEW t, NEW q, NEW op, NEW new, NEW r,
           Good(p), Of(p, q, op), q.type \in {"READ", "WRITE"},
           Replies(p, t, q, op, new, <<>>, r), r.id = q.id,
           r.type = IF new.type = "Download" THEN "READ" ELSE "WRITE",
           Alike(p.ops[op], new), ~p.ops[op].hasError, ~new.hasError,
           Data(new, Ids(p, op), (Sent(p, op) \ {q}) \union {r})
    PROVE  Settled(p, t, q, op)
<1> DEFINE old == p.ops[op]
           I == Ids(p, op)
           Q == Sent(p, op)
           R == (Q \ {q}) \union {r}
<1>1. /\ OpInv(old, op, I, Q, p.signals[op]) /\ Moving(old, I, Q)
      /\ old.inFlightCount = Cardinality(I)
  BY StageOf DEF InitialRequest
<1>2. Shape(new) /\ p.signals[op] = <<>> /\ Result(new) = <<>> /\ I # {}
  BY <1>1 DEF OpInv, Shape, Alike, Reported, Result, Moving
<1>3. Moving(new, I, R) /\ new.inFlightCount = Cardinality(I)
  <2>1. \A x \in R :
           x.type = IF new.type = "Download" THEN "READ" ELSE "WRITE"
    BY <1>1 DEF Moving, Alike
  <2> HIDE DEF R
  <2>2. Data(new, I, R)
    BY DEF R
  <2> QED BY <1>1, <2>1, <2>2 DEF Moving, Alike
<1>4. OpInv(new, op, I, R, <<>>)
  <2> HIDE DEF I, R
  <2> QED BY <1>2, <1>3, ReportedResult DEF OpInv, Stage
<1>5. /\ \A x \in Q \ {q} : x.type \in OnHandles
      /\ r.type \in OnHandles
  BY <1>1 DEF Moving, OnHandles
<1>6. /\ Reports(p.signals[op], <<>>, p.ops[op].parent)
      /\ new.type = p.ops[op].type /\ new.parent = p.ops[op].parent
  BY <1>2 DEF Reports, Alike
<1> HIDE DEF old
<1> QED
  BY <1>4, <1>5, <1>6, RepliesSettled

(* What the answers to these requests have in common.                      *)
LEMMA MovingFacts ==
    ASSUME NEW p, NEW q, NEW op, Good(p), Of(p, q, op),
           q.type \in {"READ", "WRITE"}, NEW job, job = p.ops[op],
           NEW I, I = Ids(p, op), NEW Q, Q = Sent(p, op), NEW s,
           s = Less(p, q)
    PROVE  /\ job \in Op /\ Shape(job) /\ job.state = "Open"
           /\ job.type = IF q.type = "READ" THEN "Download" ELSE "UploadFile"
           /\ job.type = "Download" => ~job.statRequested
           /\ job.hasError => job.parent = 0
           /\ ~job.hasError => Data(job, I, Q)
           /\ OneEach(I, Q) /\ q \in Q /\ q.id \in I
           /\ Q \in SUBSET Request /\ q \in Request
           /\ At(p, s, q, op, job, Result(job))
           /\ s.jobs[q.id] = op /\ s.ops[op] = job
           /\ ~ParentHasError(s, op) \/ job.type # "UploadFile"
           /\ Alike(job, job)
<1>1. /\ OpInv(job, op, I, Q, p.signals[op]) /\ Moving(job, I, Q)
      /\ q \in Q /\ q.id \in I /\ Wired(p) /\ job \in Op
      /\ q.type = IF job.type = "Download" THEN "READ" ELSE "WRITE"
  BY StageOf DEF InitialRequest
<1>2. /\ Shape(job) /\ p.signals[op] = Result(job)
      /\ job.hasError => job.parent = 0
  BY <1>1 DEF OpInv, Shape, Reported, Result
<1>3. At(p, s, q, op, job, Result(job))
  BY <1>2, LessAt
<1>4. s.jobs[q.id] = op /\ s.ops[op] = job /\ s.uploadDirs = p.uploadDirs
  <2>1. s.jobs[q.id] = op /\ s.ops[op] = job
    BY <1>3, AtFacts
  <2>2. s.uploadDirs = p.uploadDirs
    BY <1>3 DEF At, Same
  <2> QED BY <2>1, <2>2
<1>5. ~ParentHasError(s, op) \/ job.type # "UploadFile"
  BY <1>4, NoParentError DEF ParentHasError, Of
<1>6. Q \in SUBSET Request /\ q \in Request
  BY <1>1, StateType DEF Sent, Of
<1>7. OneEach(I, Q)
  BY <1>1, WiredOne
<1> QED
  BY <1>1, <1>2, <1>3, <1>4, <1>5, <1>6, <1>7 DEF Moving, Alike, Transfers

(* An error ends the transfer when the requests in flight are answered.    *)
LEMMA ErrorAlike ==
    ASSUME NEW job \in Op
    PROVE  /\ Alike(job, [job EXCEPT !.hasError = TRUE])
           /\ [job EXCEPT !.hasError = TRUE].hasError
           /\ Result([job EXCEPT !.hasError = TRUE]) = <<"failed">>
           /\ [job EXCEPT !.hasError = TRUE].parent = job.parent
  BY DEF Alike, Op, Result

LEMMA ErrorSettled ==
    ASSUME NEW p, NEW s, NEW q, NEW op, NEW job, NEW old,
           Good(p), Of(p, q, op), q.type \in {"READ", "WRITE"},
           old = p.ops[op], job \in Op, job.parent = 0, Alike(old, job),
           job.hasError = old.hasError, At(p, s, q, op, job, Result(job))
    PROVE  /\ job.hasError => Settled(p, FinishTransferRequest(s, q.id), q, op)
           /\ job.hasError =>
                 Settled(p, FinishTransferRequest(SetError(s, op), q.id), q, op)
           /\ ~job.hasError =>
                 Settled(p, FinishTransferRequest(
                               ReportRequestError(s, op), q.id), q, op)
<1> DEFINE bad == [job EXCEPT !.hasError = TRUE]
<1>1. /\ Alike(job, bad) /\ bad.hasError /\ Result(bad) = <<"failed">>
      /\ bad.parent = 0
  BY ErrorAlike
<1>2. Alike(old, bad)
  BY <1>1 DEF Alike
<1>3. /\ At(p, SetError(s, op), q, op, bad, Result(job))
      /\ At(p, ReportRequestError(s, op), q, op, bad,
            Append(Result(job), "failed"))
  BY AtError, AtReport
<1> HIDE DEF bad
<1>4. ASSUME job.hasError
      PROVE  Settled(p, FinishTransferRequest(s, q.id), q, op)
  BY <1>4, FinishSettled
<1>5. ASSUME job.hasError
      PROVE  Settled(p, FinishTransferRequest(SetError(s, op), q.id), q, op)
  <2>1. Result(job) = Result(bad)
    BY <1>1, <1>5 DEF Result
  <2> QED BY <1>1, <1>2, <1>3, <2>1, FinishSettled
<1>6. ASSUME ~job.hasError
      PROVE  Settled(p, FinishTransferRequest(
                           ReportRequestError(s, op), q.id), q, op)
  <2>1. Append(Result(job), "failed") = Result(bad)
    BY <1>1, <1>6, ReportOne DEF Result
  <2> QED BY <1>1, <1>2, <1>3, <1>6, <2>1, FinishSettled
<1> QED
  BY <1>4, <1>5, <1>6
LEMMA WriteAnswer ==
    ASSUME NEW p, NEW q, NEW op, Good(p), Of(p, q, op), q.type = "WRITE"
    PROVE  Settled(p, HandleStatus(Written(Less(p, q), op, q), q.id, "OK"),
                   q, op)
<1> DEFINE job == p.ops[op]
           I == Ids(p, op)
           Q == Sent(p, op)
           x == <<q.offset, q.chunk>>
           s == Written(Less(p, q), op, q)
           new == Storing(job, x)
<1>1. /\ job \in Op /\ Shape(job) /\ job.state = "Open"
      /\ job.type = "UploadFile" /\ (job.hasError => job.parent = 0)
      /\ ~job.hasError => Data(job, I, Q)
      /\ OneEach(I, Q) /\ q \in Q /\ q.id \in I
      /\ Q \in SUBSET Request /\ q \in Request
      /\ At(p, Less(p, q), q, op, job, Result(job))
      /\ ~ParentHasError(Less(p, q), op) /\ Alike(job, job)
      /\ Less(p, q).ops[op] = job
  BY MovingFacts
<1>2. x \in Nat \X Nat
  BY <1>1 DEF Request
<1>3. /\ Alike(job, new) /\ new \in Op /\ new.hasError = job.hasError
      /\ Result(new) = Result(job) /\ new.type = "UploadFile"
      /\ new.state = "Open" /\ Shape(new) /\ new.parent = job.parent
  <2> HIDE DEF x
  <2>1. /\ new.type = job.type /\ new.state = job.state
        /\ new.hasError = job.hasError /\ new.parent = job.parent
        /\ new.append = job.append /\ new.fileSize = job.fileSize
        /\ new.inFlightCount = job.inFlightCount
        /\ new.statRequested = job.statRequested
        /\ new.readable = job.readable /\ new.unreadable = job.unreadable
        /\ new \in Op
    BY <1>1, <1>2, StoringFields
  <2> HIDE DEF new
  <2> QED BY <1>1, <2>1 DEF Alike, Result, Shape
<1>4. At(p, s, q, op, new, Result(new))
  <2>1. s = [Less(p, q) EXCEPT !.ops[op].contents = @ \union {x}]
    BY DEF Written
  <2> HIDE DEF x
  <2>2. At(p, [Less(p, q) EXCEPT !.ops[op].contents = @ \union {x}],
           q, op, new, Result(job))
    BY <1>1, <1>2, AtStored
  <2> HIDE DEF new
  <2> QED BY <1>3, <2>1, <2>2
<1>5. s.jobs[q.id] = op /\ s.ops[op] = new
  BY <1>4, AtFacts
<1>6. ~ParentHasError(s, op)
  <2>1. s.uploadDirs = Less(p, q).uploadDirs
    BY <1>1, <1>4 DEF At, Same
  <2> HIDE DEF s, new
  <2> QED BY <1>1, <1>3, <1>5, <2>1 DEF ParentHasError
<1> HIDE DEF s, new
<1>7. HandleStatus(s, q.id, "OK") =
          IF job.hasError THEN FinishTransferRequest(SetError(s, op), q.id)
          ELSE SendWriteRequest(s, q.id)
  <2>1. HandleStatus(s, q.id, "OK") = HandlePutStatus(s, q.id, "OK")
    BY <1>3, <1>5 DEF HandleStatus
  <2>2. HandlePutStatus(s, q.id, "OK") =
            IF job.hasError THEN FinishTransferRequest(SetError(s, op), q.id)
            ELSE SendWriteRequest(s, q.id)
    BY <1>3, <1>5, <1>6 DEF HandlePutStatus
  <2> QED BY <2>1, <2>2
<1>8. ASSUME job.hasError
      PROVE  Settled(p, FinishTransferRequest(SetError(s, op), q.id), q, op)
  BY <1>1, <1>3, <1>4, <1>8, ErrorSettled
<1>9. ASSUME ~job.hasError
      PROVE  Settled(p, SendWriteRequest(s, q.id), q, op)
  <2>1. UploadData(new, Q \ {q})
    BY <1>1, <1>9, UploadArrives DEF new, Data
  <2>2. CASE new.position < new.readable
    <3> DEFINE r == [id |-> q.id, type |-> "WRITE", offset |-> new.offset,
                     chunk |-> new.position]
               next == AfterWrite(new)
    <3>1. Replies(p, SendWriteRequest(s, q.id), q, op, next, Result(new), r)
      BY <1>4, <2>2, AtWrite
    <3>2. r \in Request
      BY <1>1, <1>3, BaseType DEF Request, RequestTypes, OnHandles
    <3>3. UploadData(next, (Q \ {q}) \union {r})
      <4> DEFINE R == Q \ {q}
      <4>1. R \in SUBSET Request /\ r.offset = new.offset /\ r.chunk = new.position
        BY <1>1
      <4> HIDE DEF R, r
      <4>2. UploadData(new, R)
        BY <2>1 DEF R
      <4>3. UploadData(next, R \union {r})
        BY <1>3, <2>2, <3>2, <4>1, <4>2, UploadNext
      <4> QED BY <4>3 DEF R
    <3>4. /\ Alike(job, next) /\ ~next.hasError /\ next.type = "UploadFile"
      <4>1. next \in Op
        <5>1. /\ SendWriteRequest(s, q.id) \in State
              /\ SendWriteRequest(s, q.id).ops = [p.ops EXCEPT ![op] = next]
              /\ op \in DOMAIN p.ops
          BY <3>1 DEF Replies, Same, Of
        <5> QED BY <5>1, StateType
      <4>2. /\ next.type = new.type /\ next.state = new.state
            /\ next.hasError = new.hasError /\ next.parent = new.parent
            /\ next.append = new.append /\ next.fileSize = new.fileSize
            /\ next.inFlightCount = new.inFlightCount
            /\ next.statRequested = new.statRequested
            /\ next.readable = new.readable /\ next.unreadable = new.unreadable
        BY <1>3, AfterWriteFields
      <4> HIDE DEF next
      <4> QED BY <1>3, <1>9, <4>1, <4>2 DEF Alike
    <3>5. r.id = q.id /\ r.type = "WRITE" /\ Result(new) = <<>>
      BY <1>3, <1>9 DEF Result
    <3> HIDE DEF next, r
    <3>6. Data(next, I, (Q \ {q}) \union {r})
      BY <3>3, <3>4 DEF Data
    <3> QED BY <1>9, <3>1, <3>4, <3>5, <3>6, ContinueSettled
  <2>3. CASE ~(new.position < new.readable)
    <3>1. SendWriteRequest(s, q.id) = FinishTransferRequest(s, q.id)
      BY <1>3, <1>4, <2>3, AtEndOfFile DEF Shape
    <3>2. Remaining(new, I, Q, q)
      <4>1. CASE I = {q.id}
        <5>1. Q \ {q} = {}
          BY <1>1, <4>1 DEF OneEach
        <5>2. UploadData(new, {})
          BY <2>1, <5>1
        <5> QED BY <1>3, <2>3, <4>1, <5>2, UploadEnds DEF Remaining
      <4>2. CASE I # {q.id}
        BY <1>3, <2>1, <4>2 DEF Remaining, Data
      <4> QED BY <4>1, <4>2
    <3> QED BY <1>1, <1>3, <1>4, <1>9, <3>1, <3>2, FinishSettled
  <2> QED BY <2>2, <2>3
<1>10. Settled(p, HandleStatus(s, q.id, "OK"), q, op)
  BY <1>7, <1>8, <1>9
<1> QED
  BY <1>10 DEF s

LEMMA WriteRefused ==
    ASSUME NEW p, NEW q, NEW op, Good(p), Of(p, q, op), q.type = "WRITE",
           p.ops[op].parent = 0, NEW status, status # "OK"
    PROVE  Settled(p, HandleStatus(Less(p, q), q.id, status), q, op)
<1> DEFINE job == p.ops[op]
           s == Less(p, q)
<1>1. /\ job \in Op /\ job.state = "Open" /\ job.type = "UploadFile"
      /\ At(p, s, q, op, job, Result(job))
      /\ ~ParentHasError(s, op) /\ Alike(job, job)
      /\ s.ops[op] = job /\ s.jobs[q.id] = op
  BY MovingFacts
<1>2. SetParentError(s, op) = s
  BY <1>1 DEF SetParentError
<1> HIDE DEF s
<1>3. HandleStatus(s, q.id, status) =
          IF job.hasError THEN FinishTransferRequest(SetError(s, op), q.id)
          ELSE FinishTransferRequest(ReportRequestError(s, op), q.id)
  <2>1. HandleStatus(s, q.id, status) = HandlePutStatus(s, q.id, status)
    BY <1>1 DEF HandleStatus
  <2>2. HandlePutStatus(s, q.id, status) =
            IF job.hasError THEN FinishTransferRequest(SetError(s, op), q.id)
            ELSE FinishTransferRequest(ReportRequestError(s, op), q.id)
    BY <1>1, <1>2 DEF HandlePutStatus
  <2> QED BY <2>1, <2>2
<1>4. /\ job.hasError =>
             Settled(p, FinishTransferRequest(SetError(s, op), q.id), q, op)
      /\ ~job.hasError =>
             Settled(p, FinishTransferRequest(
                           ReportRequestError(s, op), q.id), q, op)
  BY <1>1, ErrorSettled
<1>5. Settled(p, HandleStatus(s, q.id, status), q, op)
  BY <1>3, <1>4
<1> QED
  BY <1>5 DEF s
LEMMA ReadStatus ==
    ASSUME NEW p, NEW q, NEW op, Good(p), Of(p, q, op), q.type = "READ",
           NEW status, status = "EOF" => q.offset >= p.ops[op].remote
    PROVE  Settled(p, HandleStatus(Less(p, q), q.id, status), q, op)
<1> DEFINE job == p.ops[op]
           I == Ids(p, op)
           Q == Sent(p, op)
           s == Less(p, q)
           atEnd == status = "EOF" /\ q.id = job.eofId
<1>1. /\ job \in Op /\ Shape(job) /\ job.state = "Open"
      /\ job.type = "Download" /\ ~job.statRequested
      /\ ~job.hasError => Data(job, I, Q)
      /\ OneEach(I, Q) /\ q \in Q /\ q.id \in I
      /\ Q \in SUBSET Request
      /\ At(p, s, q, op, job, Result(job)) /\ Alike(job, job)
      /\ s.ops[op] = job /\ s.jobs[q.id] = op
  BY MovingFacts
<1>2. job.parent = 0
  BY <1>1 DEF Shape
<1> HIDE DEF s
<1>3. HandleStatus(s, q.id, status) =
          IF atEnd \/ job.hasError THEN FinishTransferRequest(s, q.id)
          ELSE FinishTransferRequest(ReportRequestError(s, op), q.id)
  <2>1. HandleStatus(s, q.id, status) = HandleGetStatus(s, q.id, status)
    BY <1>1 DEF HandleStatus
  <2>2. HandleGetStatus(s, q.id, status) =
            IF atEnd \/ job.hasError THEN FinishTransferRequest(s, q.id)
            ELSE FinishTransferRequest(ReportRequestError(s, op), q.id)
    BY <1>1 DEF HandleGetStatus
  <2> QED BY <2>1, <2>2
<1>4. /\ job.hasError => Settled(p, FinishTransferRequest(s, q.id), q, op)
      /\ ~job.hasError =>
             Settled(p, FinishTransferRequest(
                           ReportRequestError(s, op), q.id), q, op)
  BY <1>1, <1>2, ErrorSettled
<1>5. ASSUME ~job.hasError, atEnd
      PROVE  Settled(p, FinishTransferRequest(s, q.id), q, op)
  <2>1. DownloadData(job, I, Q)
    BY <1>1, <1>5 DEF Data
  <2>2. I = {q.id} /\ CompleteJob(job)
    BY <1>1, <1>5, <2>1, DownloadAtEnd
  <2>3. Remaining(job, I, Q, q)
    BY <2>2 DEF Remaining
  <2> QED BY <1>1, <1>5, <2>3, FinishSettled
<1>6. Settled(p, HandleStatus(s, q.id, status), q, op)
  BY <1>3, <1>4, <1>5
<1> QED
  BY <1>6 DEF s

LEMMA ReadAnswer ==
    ASSUME NEW p, NEW q, NEW op, Good(p), Of(p, q, op), q.type = "READ",
           q.offset < p.ops[op].remote, NEW written \in BOOLEAN
    PROVE  Settled(p, HandleReadData(Less(p, q), q.id, q.chunk, written),
                   q, op)
<1> DEFINE job == p.ops[op]
           I == Ids(p, op)
           Q == Sent(p, op)
           R == Q \ {q}
           x == <<q.offset, q.offset>>
           s == Less(p, q)
           t == HandleReadData(s, q.id, q.chunk, written)
           new == Storing(job, x)
           stored == [s EXCEPT !.ops[op].contents = @ \union {x}]
<1>1. /\ job \in Op /\ Shape(job) /\ job.state = "Open"
      /\ job.type = "Download" /\ ~job.statRequested
      /\ ~job.hasError => Data(job, I, Q)
      /\ OneEach(I, Q) /\ q \in Q /\ q.id \in I
      /\ Q \in SUBSET Request /\ q \in Request
      /\ At(p, s, q, op, job, Result(job)) /\ Alike(job, job)
      /\ s.ops[op] = job /\ s.jobs[q.id] = op
  BY MovingFacts
<1>2. job.parent = 0
  BY <1>1 DEF Shape
<1> HIDE DEF s
<1>3. /\ job.hasError => Settled(p, FinishTransferRequest(s, q.id), q, op)
      /\ ~job.hasError =>
             Settled(p, FinishTransferRequest(
                           ReportRequestError(s, op), q.id), q, op)
  BY <1>1, <1>2, ErrorSettled
<1>4. CASE job.hasError
  <2>1. t = FinishTransferRequest(s, q.id)
    BY <1>1, <1>4 DEF HandleReadData
  <2> QED BY <1>3, <1>4, <2>1 DEF s
<1>5. CASE ~job.hasError /\ ~written
  <2>1. t = FinishTransferRequest(ReportRequestError(s, op), q.id)
    BY <1>1, <1>5 DEF HandleReadData
  <2> QED BY <1>3, <1>5, <2>1 DEF s
<1>6. CASE ~job.hasError /\ written
  <2>1. DownloadData(job, I, Q)
    BY <1>1, <1>6 DEF Data
  <2>2. /\ q.id \in DOMAIN job.offsets /\ job.offsets[q.id] = q.offset
        /\ q.chunk = q.offset /\ x \in Nat \X Nat /\ DownloadData(new, I, R)
    BY <1>1, <2>1, DownloadArrives
  <2>3. t = IF job.offset >= job.fileSize /\ job.fileSize # 0
            THEN FinishTransferRequest(stored, q.id)
            ELSE SendReadRequest(stored, op, q.id)
    BY <1>1, <1>6, <2>2 DEF HandleReadData
  <2> HIDE DEF x
  <2>4. At(p, stored, q, op, new, Result(job))
    BY <1>1, <2>2, AtStored
  <2>5. /\ new.type = "Download" /\ new.state = "Open"
        /\ ~new.hasError /\ new.parent = job.parent
        /\ new.append = job.append /\ new.fileSize = job.fileSize
        /\ new.inFlightCount = job.inFlightCount
        /\ new.statRequested = job.statRequested
        /\ new.readable = job.readable /\ new.unreadable = job.unreadable
        /\ new.offset = job.offset /\ new \in Op
    BY <1>1, <1>6, <2>2, StoringFields
  <2> HIDE DEF t, new, stored
  <2>6. Alike(job, new) /\ Result(new) = Result(job) /\ Shape(new)
        /\ Result(new) = <<>>
    BY <1>1, <1>6, <2>5 DEF Alike, Result, Shape
  <2>7. CASE job.offset >= job.fileSize /\ job.fileSize # 0
    <3>1. Remaining(new, I, Q, q)
      <4>1. CASE I = {q.id}
        <5>1. R = {}
          BY <1>1, <4>1 DEF OneEach
        <5>2. DownloadData(new, I, {})
          BY <2>2, <5>1
        <5> QED BY <2>5, <2>6, <2>7, <4>1, <5>2, DownloadEnds DEF Remaining
      <4>2. CASE I # {q.id}
        <5>1. DownloadData(new, I \ {q.id}, R)
          BY <2>2, <2>5, <2>7 DEF DownloadData
        <5> QED BY <2>5, <4>2, <5>1 DEF Remaining, Data
      <4> QED BY <4>1, <4>2
    <3>2. At(p, stored, q, op, new, Result(new))
      BY <2>4, <2>6
    <3>3. Settled(p, FinishTransferRequest(stored, q.id), q, op)
      BY <1>1, <1>6, <2>5, <2>6, <3>1, <3>2, FinishSettled
    <3> QED BY <2>3, <2>7, <3>3 DEF t, s
  <2>8. CASE ~(job.offset >= job.fileSize /\ job.fileSize # 0)
    <3> DEFINE r == [id |-> q.id, type |-> "READ", offset |-> new.offset,
                     chunk |-> new.offset]
               next == AfterRead(new, q.id)
               u == SendReadRequest(stored, op, q.id)
    <3>1. Replies(p, u, q, op, next, <<>>, r)
      BY <2>4, <2>6, AtRead
    <3>2. r \in Request
      BY <1>1, <2>5, BaseType DEF Request, RequestTypes, OnHandles
    <3>3. /\ r.id = q.id /\ r.type = "READ"
          /\ r.offset = new.offset /\ r.chunk = new.offset
      OBVIOUS
    <3>4. next \in Op
      <4>1. /\ u \in State /\ u.ops = [p.ops EXCEPT ![op] = next]
            /\ op \in DOMAIN p.ops
        BY <3>1 DEF Replies, Same, Of
      <4> QED BY <4>1, StateType
    <3>5. /\ next.type = new.type /\ next.state = new.state
          /\ next.hasError = new.hasError /\ next.parent = new.parent
          /\ next.append = new.append /\ next.fileSize = new.fileSize
          /\ next.inFlightCount = new.inFlightCount
          /\ next.statRequested = new.statRequested
          /\ next.readable = new.readable /\ next.unreadable = new.unreadable
      BY <2>5, AfterReadFields
    <3> HIDE DEF r, u
    <3>6. DownloadData(next, I, R \union {r})
      <4>1. R \in SUBSET Request /\ \A y \in R : y.id # r.id
        BY <1>1, <3>3 DEF OneEach
      <4>2. new.fileSize # 0 => new.offset < new.fileSize
        BY <2>5, <2>8, BaseType
      <4>3. new.fileSize = 0 => R = {} /\ I = {r.id}
        <5> SUFFICES ASSUME new.fileSize = 0 PROVE R = {} /\ I = {r.id}
          OBVIOUS
        <5>1. I = {q.id}
          BY <1>1, <2>2 DEF DownloadData
        <5> QED BY <1>1, <3>3, <5>1 DEF OneEach
      <4> HIDE DEF R
      <4>4. DownloadData(AfterRead(new, r.id), I, R \union {r})
        BY <2>2, <2>5, <3>2, <3>3, <4>1, <4>2, <4>3, DownloadNext
      <4> QED BY <3>3, <4>4
    <3> HIDE DEF next
    <3>7. Alike(job, next) /\ next.type = "Download" /\ ~next.hasError
      BY <2>5, <2>6, <3>4, <3>5 DEF Alike
    <3>8. Data(next, I, (Q \ {q}) \union {r})
      BY <3>6, <3>7 DEF Data
    <3>9. Settled(p, u, q, op)
      BY <1>6, <3>1, <3>3, <3>7, <3>8, ContinueSettled
    <3> QED BY <2>3, <2>8, <3>9 DEF t, s, u
  <2> QED BY <2>7, <2>8
<1> QED
  BY <1>4, <1>5, <1>6
----------------------------------------------------------------------------
(* Recursive functions on 0..n: a step of one is given as the function N,  *)
(* and S tells for every number what is then known.                        *)
Leads(N, S, n) ==
    \A i \in 1..n : \A t \in S[i - 1] : N[<<i, t>>] \in S[i]

Solves(f, a, N, S, n) ==
    /\ f = [i \in 0..n |-> IF i = 0 THEN a ELSE N[<<i, f[i - 1]>>]]
    /\ \A i \in 0..n : f[i] \in S[i]

LEMMA Recursion ==
    ASSUME NEW n \in Nat, NEW S, NEW N, NEW a, a \in S[0], Leads(N, S, n)
    PROVE  \E f : Solves(f, a, N, S, n)
<1> USE DEF Leads
<1> DEFINE Is(f, k) == \A i \in 0..k :
                          /\ f[i] = IF i = 0 THEN a ELSE N[<<i, f[i - 1]>>]
                          /\ f[i] \in S[i]
           T == {k \in Nat : k <= n => \E f : Is(f, k)}
<1>1. 0 \in T
  <2> DEFINE f == [i \in 0..0 |-> a]
  <2>1. f[0] = a /\ \A i \in 0..0 : i = 0
    OBVIOUS
  <2> HIDE DEF f
  <2>2. Is(f, 0)
    BY <2>1
  <2> QED BY <2>2
<1>2. \A k \in T : k + 1 \in T
  <2> TAKE k \in T
  <2>1. ASSUME k + 1 <= n PROVE \E f : Is(f, k + 1)
    <3>1. PICK f : Is(f, k)
      BY <2>1
    <3> DEFINE j == k + 1
               g == [i \in 0..j |-> IF i = j THEN N[<<j, f[k]>>] ELSE f[i]]
    <3>2. /\ j \in 1..n /\ j - 1 = k /\ j # 0 /\ k \in 0..k /\ j \in 0..j
          /\ \A i \in 0..j : i = j \/ (i \in 0..k /\ i # j)
          /\ \A i \in 0..k : i \in 0..j /\ i # j
                             /\ (i # 0 => i - 1 \in 0..k /\ i - 1 \in 0..j /\ i - 1 # j)
      BY <2>1
    <3>3. /\ g[j] = N[<<j, f[k]>>] /\ \A i \in 0..k : g[i] = f[i]
      BY <3>2
    <3> HIDE DEF g, j
    <3>4. ASSUME NEW i \in 0..k
          PROVE  /\ g[i] = IF i = 0 THEN a ELSE N[<<i, g[i - 1]>>]
                 /\ g[i] \in S[i]
      BY <3>1, <3>2, <3>3
    <3>5. /\ g[j] = IF j = 0 THEN a ELSE N[<<j, g[j - 1]>>]
          /\ g[j] \in S[j]
      BY <3>1, <3>2, <3>3
    <3>6. Is(g, j)
      BY <3>2, <3>4, <3>5
    <3> QED BY <3>6 DEF j
  <2> HIDE DEF Is
  <2> QED BY <2>1
<1>3. T = Nat
  <2> T \in SUBSET Nat OBVIOUS
  <2> HIDE DEF T
  <2> QED BY <1>1, <1>2, NatSets
<1>4. PICK f : Is(f, n)
  <2> n \in T BY <1>3
  <2> QED OBVIOUS
<1> DEFINE g == [i \in 0..n |-> f[i]]
<1>5. \A i \in 0..n : g[i] = f[i] /\ (i # 0 => i - 1 \in 0..n /\ g[i - 1] = f[i - 1])
  <2> TAKE i \in 0..n
  <2>1. i # 0 => i - 1 \in 0..n
    OBVIOUS
  <2> QED BY <2>1
<1>6. g = [i \in 0..n |-> IF i = 0 THEN a ELSE N[<<i, g[i - 1]>>]]
  <2>1. ASSUME NEW i \in 0..n
        PROVE  f[i] = IF i = 0 THEN a ELSE N[<<i, g[i - 1]>>]
    <3> HIDE DEF g
    <3> QED BY <1>4, <1>5
  <2>2. g = [i \in 0..n |-> f[i]]
    OBVIOUS
  <2> HIDE DEF g
  <2> QED BY <2>1, <2>2
<1>7. \A i \in 0..n : g[i] \in S[i]
  BY <1>4, <1>5
<1> HIDE DEF g
<1> QED
  BY <1>6, <1>7 DEF Solves

LEMMA StepByStep ==
    ASSUME NEW n \in Nat, NEW S, NEW F, F[0] \in S[0],
           \A i \in 1..n : F[i - 1] \in S[i - 1] => F[i] \in S[i]
    PROVE  F[n] \in S[n]
<1> DEFINE T == {k \in Nat : k <= n => F[k] \in S[k]}
<1>1. 0 \in T
  OBVIOUS
<1>2. \A k \in T : k + 1 \in T
  <2> TAKE k \in T
  <2> DEFINE j == k + 1
  <2>1. j \in Nat /\ (j <= n => j \in 1..n /\ k <= n) /\ j - 1 = k
    OBVIOUS
  <2> HIDE DEF j
  <2>2. j <= n => F[j] \in S[j]
    BY <2>1
  <2>3. j \in T
    BY <2>1, <2>2
  <2> QED BY <2>3 DEF j
<1>3. T = Nat
  <2> T \in SUBSET Nat OBVIOUS
  <2> HIDE DEF T
  <2> QED BY <1>1, <1>2, NatSets
<1> QED
  BY <1>3

ReadNext(op, t, i) ==
    IF TRUE /\ i < t.ops[op].inFlightCount
    THEN SendReadRequest(Insert(NewId(t), NewId(t).nextJobId, op), op,
                         NewId(t).nextJobId)
    ELSE t

WriteNext(op, t, i) ==
    IF ~t.ops[op].hasError /\ i < t.ops[op].inFlightCount
    THEN SendWriteRequest(Insert(NewId(t), NewId(t).nextJobId, op),
                          NewId(t).nextJobId)
    ELSE t

LEMMA SpawnReadSteps ==
    ASSUME NEW s, NEW op
    PROVE  SpawnReadRequests(s, op) =
              (CHOOSE f : f = [i \in 0..(MaxInFlightCount - 1) |->
                  IF i = 0
                  THEN SendReadRequest(CalculateInFlightCount(s, op), op, op)
                  ELSE ReadNext(op, f[i - 1], i)])[MaxInFlightCount - 1]
  BY Zenon DEF SpawnReadRequests, Further, ReadNext

LEMMA SpawnWriteSteps ==
    ASSUME NEW s, NEW id, NEW op, op = s.jobs[id]
    PROVE  SpawnWriteRequests(s, id) =
              (CHOOSE f : f = [i \in 0..(MaxInFlightCount - 1) |->
                  IF i = 0
                  THEN SendWriteRequest(CalculateInFlightCount(s, op), id)
                  ELSE WriteNext(op, f[i - 1], i)])[MaxInFlightCount - 1]
  BY Zenon DEF SpawnWriteRequests, Further, WriteNext
LEMMA ReadLoop ==
    ASSUME NEW s, NEW op, NEW S, \A i \in Nat : S[i] \in SUBSET State,
           SendReadRequest(CalculateInFlightCount(s, op), op, op) \in S[0],
           \A i \in 1..(MaxInFlightCount - 1) :
              \A t \in S[i - 1] : ReadNext(op, t, i) \in S[i]
    PROVE  SpawnReadRequests(s, op) \in S[MaxInFlightCount - 1]
<1> DEFINE n == MaxInFlightCount - 1
           a == SendReadRequest(CalculateInFlightCount(s, op), op, op)
           N == [x \in (1..n) \X State |-> ReadNext(op, x[2], x[1])]
           Is(f) == [i \in 0..n |-> IF i = 0 THEN a
                                    ELSE ReadNext(op, f[i - 1], i)]
           F == CHOOSE f : f = Is(f)
<1>1. n \in Nat
  BY InFlightAssumption
<1>2. \A i \in 1..n : \A t \in S[i - 1] : N[<<i, t>>] = ReadNext(op, t, i)
  <2> TAKE i \in 1..n
  <2> TAKE t \in S[i - 1]
  <2>1. i - 1 \in Nat
    BY <1>1
  <2>2. <<i, t>> \in (1..n) \X State /\ <<i, t>>[1] = i /\ <<i, t>>[2] = t
    BY <2>1
  <2> QED BY <2>2
<1> HIDE DEF N, a, n
<1>3. \E f : f = Is(f)
  <2>1. Leads(N, S, n)
    BY <1>2 DEF n, Leads
  <2>2. a \in S[0]
    BY DEF a
  <2>3. PICK f : Solves(f, a, N, S, n)
    BY <1>1, <2>1, <2>2, Recursion
  <2>4. ASSUME NEW i \in 0..n, i # 0
        PROVE  N[<<i, f[i - 1]>>] = ReadNext(op, f[i - 1], i)
    <3>1. i \in 1..n /\ i - 1 \in 0..n
      BY <1>1, <2>4
    <3>2. f[i - 1] \in S[i - 1]
      BY <2>3, <3>1 DEF Solves
    <3> QED BY <1>2, <3>1, <3>2
  <2>5. [i \in 0..n |-> IF i = 0 THEN a ELSE N[<<i, f[i - 1]>>]] = Is(f)
    BY <2>4
  <2> QED BY <2>3, <2>5 DEF Solves
<1>4. F = Is(F)
  <2> HIDE DEF Is
  <2> QED BY <1>3
<1> HIDE DEF F
<1>5. F[0] = a /\ \A i \in 1..n : F[i] = ReadNext(op, F[i - 1], i)
  <2>1. 0 \in 0..n /\ \A i \in 1..n : i \in 0..n /\ i # 0
    BY <1>1
  <2> QED BY <1>4, <2>1
<1>6. \A i \in 1..n : F[i - 1] \in S[i - 1] => F[i] \in S[i]
  BY <1>5 DEF n
<1>7. F[0] \in S[0]
  BY <1>5 DEF a
<1>8. F[n] \in S[n]
  BY <1>1, <1>6, <1>7, StepByStep
<1>9. SpawnReadRequests(s, op) = F[n]
  BY SpawnReadSteps DEF F, n, a
<1> QED
  BY <1>8, <1>9 DEF n

LEMMA WriteLoop ==
    ASSUME NEW s, NEW id, NEW op, op = s.jobs[id],
           NEW S, \A i \in Nat : S[i] \in SUBSET State,
           SendWriteRequest(CalculateInFlightCount(s, op), id) \in S[0],
           \A i \in 1..(MaxInFlightCount - 1) :
              \A t \in S[i - 1] : WriteNext(op, t, i) \in S[i]
    PROVE  SpawnWriteRequests(s, id) \in S[MaxInFlightCount - 1]
<1> DEFINE n == MaxInFlightCount - 1
           a == SendWriteRequest(CalculateInFlightCount(s, op), id)
           N == [x \in (1..n) \X State |-> WriteNext(op, x[2], x[1])]
           Is(f) == [i \in 0..n |-> IF i = 0 THEN a
                                    ELSE WriteNext(op, f[i - 1], i)]
           F == CHOOSE f : f = Is(f)
<1>1. n \in Nat
  BY InFlightAssumption
<1>2. \A i \in 1..n : \A t \in S[i - 1] : N[<<i, t>>] = WriteNext(op, t, i)
  <2> TAKE i \in 1..n
  <2> TAKE t \in S[i - 1]
  <2>1. i - 1 \in Nat
    BY <1>1
  <2>2. <<i, t>> \in (1..n) \X State /\ <<i, t>>[1] = i /\ <<i, t>>[2] = t
    BY <2>1
  <2> QED BY <2>2
<1> HIDE DEF N, a, n
<1>3. \E f : f = Is(f)
  <2>1. Leads(N, S, n)
    BY <1>2 DEF n, Leads
  <2>2. a \in S[0]
    BY DEF a
  <2>3. PICK f : Solves(f, a, N, S, n)
    BY <1>1, <2>1, <2>2, Recursion
  <2>4. ASSUME NEW i \in 0..n, i # 0
        PROVE  N[<<i, f[i - 1]>>] = WriteNext(op, f[i - 1], i)
    <3>1. i \in 1..n /\ i - 1 \in 0..n
      BY <1>1, <2>4
    <3>2. f[i - 1] \in S[i - 1]
      BY <2>3, <3>1 DEF Solves
    <3> QED BY <1>2, <3>1, <3>2
  <2>5. [i \in 0..n |-> IF i = 0 THEN a ELSE N[<<i, f[i - 1]>>]] = Is(f)
    BY <2>4
  <2> QED BY <2>3, <2>5 DEF Solves
<1>4. F = Is(F)
  <2> HIDE DEF Is
  <2> QED BY <1>3
<1> HIDE DEF F
<1>5. F[0] = a /\ \A i \in 1..n : F[i] = WriteNext(op, F[i - 1], i)
  <2>1. 0 \in 0..n /\ \A i \in 1..n : i \in 0..n /\ i # 0
    BY <1>1
  <2> QED BY <1>4, <2>1
<1>6. \A i \in 1..n : F[i - 1] \in S[i - 1] => F[i] \in S[i]
  BY <1>5 DEF n
<1>7. F[0] \in S[0]
  BY <1>5 DEF a
<1>8. F[n] \in S[n]
  BY <1>1, <1>6, <1>7, StepByStep
<1>9. SpawnWriteRequests(s, id) = F[n]
  BY SpawnWriteSteps DEF F, n, a
<1> QED
  BY <1>8, <1>9 DEF n

(* A further request of op, under a new id.                                *)
LEMMA PreparedPlain ==
    ASSUME NEW t, NEW op \in DOMAIN t.ops, Plain(t)
    PROVE  LET n == t.nextJobId + 1
               u == Insert(NewId(t), NewId(t).nextJobId, op)
           IN  /\ NewId(t).nextJobId = n /\ n \in Nat
               /\ u \in State /\ u.ops = t.ops /\ u.nextJobId = n
               /\ u.signals = With(t.signals, n, <<>>)
               /\ u.jobs = With(t.jobs, n, op) /\ u.requests = t.requests
               /\ u.uploadDirs = t.uploadDirs
               /\ n \in DOMAIN u.jobs /\ u.jobs[n] = op
<1> DEFINE n == t.nextJobId + 1
           u == Insert(NewId(t), NewId(t).nextJobId, op)
           ss == With(t.signals, n, <<>>)
           jj == With(t.jobs, n, op)
<1>1. t \in State /\ t.nextJobId \in Nat /\ op \in Nat
  BY StateType DEF Plain
<1>2. n \in Nat /\ <<>> \in Results
  BY <1>1 DEF Results
<1>3. ss \in Maps(Nat, Results) /\ jj \in Maps(Nat, Nat)
  <2> HIDE DEF n
  <2>1. t.signals \in Maps(Nat, Results) /\ t.jobs \in Maps(Nat, Nat)
    BY <1>1, StateType
  <2> QED BY <1>1, <1>2, <2>1, WithType
<1>4. NewId(t).nextJobId = n
  BY <1>1 DEF NewId, State
<1>5. n \in DOMAIN jj /\ jj[n] = op
  BY DEF With
<1>6. u = [t EXCEPT !.nextJobId = n, !.signals = ss, !.jobs = jj]
  BY <1>1, <1>4 DEF NewId, Insert, State
<1> HIDE DEF n, ss, jj, u
<1>7. /\ u \in State /\ u.ops = t.ops /\ u.nextJobId = n
      /\ u.signals = ss /\ u.jobs = jj /\ u.requests = t.requests
      /\ u.uploadDirs = t.uploadDirs
  BY <1>1, <1>2, <1>3, <1>6 DEF State
<1> QED
  BY <1>2, <1>4, <1>5, <1>7 DEF n, ss, jj, u

LEMMA Prepared ==
    ASSUME NEW t, NEW op \in DOMAIN t.ops, Wired(t)
    PROVE  LET n == t.nextJobId + 1
               u == Insert(NewId(t), NewId(t).nextJobId, op)
           IN  /\ NewId(t).nextJobId = n /\ n \in Nat
               /\ u \in State /\ u.ops = t.ops /\ u.nextJobId = n
               /\ u.signals = With(t.signals, n, <<>>)
               /\ u.jobs = With(t.jobs, n, op) /\ u.requests = t.requests
               /\ u.uploadDirs = t.uploadDirs
               /\ n \in DOMAIN u.jobs /\ u.jobs[n] = op
  BY PreparedPlain DEF Wired

MoreRead(t, u, op, job, r, n) ==
    /\ job = t.ops[op] /\ n = t.nextJobId + 1
    /\ u = SendReadRequest(Insert(NewId(t), NewId(t).nextJobId, op), op,
                           NewId(t).nextJobId)
    /\ r = [id |-> n, type |-> "READ", offset |-> job.offset,
            chunk |-> job.offset]

LEMMA ReadMore ==
    ASSUME NEW t, NEW op \in DOMAIN t.ops, Wired(t), NEW job,
           NEW u, NEW r, NEW n, MoreRead(t, u, op, job, r, n)
    PROVE  Sends(t, u, op, AfterRead(job, n), r, n)
<1> USE DEF MoreRead
<1> DEFINE w == Insert(NewId(t), NewId(t).nextJobId, op)
<1>1. /\ NewId(t).nextJobId = n /\ n \in Nat
      /\ w \in State /\ w.ops = t.ops /\ w.nextJobId = n
      /\ w.signals = With(t.signals, n, <<>>)
      /\ w.jobs = With(t.jobs, n, op) /\ w.requests = t.requests
      /\ w.uploadDirs = t.uploadDirs
  BY Prepared
<1> HIDE DEF w
<1>2. u = SendReadRequest(w, op, n)
  BY <1>1 DEF w
<1>3. op \in DOMAIN w.ops /\ w.ops[op] = job
  BY <1>1
<1>4. /\ u \in State /\ u.jobs = w.jobs /\ u.signals = w.signals
      /\ u.uploadDirs = w.uploadDirs /\ u.nextJobId = w.nextJobId
      /\ u.ops = [w.ops EXCEPT ![op] = AfterRead(job, n)]
      /\ u.requests = w.requests \union {r}
  BY <1>1, <1>2, <1>3, ReadIs
<1>5. /\ AfterRead(job, n).type = job.type /\ AfterRead(job, n).parent = job.parent
  BY WiredFacts, AfterReadFields
<1> DEFINE new == AfterRead(job, n)
<1>6. /\ u \in State /\ u.jobs = With(t.jobs, n, op)
      /\ u.signals = With(t.signals, n, <<>>)
      /\ u.uploadDirs = t.uploadDirs /\ u.nextJobId = n
      /\ u.ops = [t.ops EXCEPT ![op] = new]
      /\ u.requests = t.requests \union {r} /\ r.id = n
      /\ new.type = t.ops[op].type /\ new.parent = t.ops[op].parent
  BY <1>1, <1>4, <1>5
<1>7. OneMore(t, u, op, new, r, n)
  <2> HIDE DEF new
  <2> QED BY <1>6 DEF OneMore
<1>8. new.type = t.ops[op].type /\ new.parent = t.ops[op].parent
  BY <1>6
<1> HIDE DEF new, MoreRead
<1>9. Sends(t, u, op, new, r, n)
  BY <1>7, <1>8, OneMoreMoves
<1> QED
  BY <1>9 DEF new

MoreWrite(t, u, op, job, r, n) ==
    /\ job = t.ops[op] /\ n = t.nextJobId + 1
    /\ u = SendWriteRequest(Insert(NewId(t), NewId(t).nextJobId, op),
                            NewId(t).nextJobId)
    /\ r = [id |-> n, type |-> "WRITE", offset |-> job.offset,
            chunk |-> job.position]

LEMMA WriteMore ==
    ASSUME NEW t, NEW op \in DOMAIN t.ops, Wired(t), NEW job,
           job.position < job.readable,
           NEW u, NEW r, NEW n, MoreWrite(t, u, op, job, r, n)
    PROVE  Sends(t, u, op, AfterWrite(job), r, n)
<1> USE DEF MoreWrite
<1> DEFINE w == Insert(NewId(t), NewId(t).nextJobId, op)
<1>1. /\ NewId(t).nextJobId = n /\ n \in Nat
      /\ w \in State /\ w.ops = t.ops /\ w.nextJobId = n
      /\ w.signals = With(t.signals, n, <<>>)
      /\ w.jobs = With(t.jobs, n, op) /\ w.requests = t.requests
      /\ w.uploadDirs = t.uploadDirs
      /\ n \in DOMAIN w.jobs /\ w.jobs[n] = op
  BY Prepared
<1> HIDE DEF w
<1>2. u = SendWriteRequest(w, n)
  BY <1>1 DEF w
<1>3. op \in DOMAIN w.ops /\ w.ops[op] = job
  BY <1>1
<1>4. /\ u \in State /\ u.jobs = w.jobs /\ u.signals = w.signals
      /\ u.uploadDirs = w.uploadDirs /\ u.nextJobId = w.nextJobId
      /\ u.ops = [w.ops EXCEPT ![op] = AfterWrite(job)]
      /\ u.requests = w.requests \union {r}
  BY <1>1, <1>2, <1>3, WriteIs
<1>5. /\ AfterWrite(job).type = job.type /\ AfterWrite(job).parent = job.parent
  BY WiredFacts, AfterWriteFields
<1> DEFINE new == AfterWrite(job)
<1>6. /\ u \in State /\ u.jobs = With(t.jobs, n, op)
      /\ u.signals = With(t.signals, n, <<>>)
      /\ u.uploadDirs = t.uploadDirs /\ u.nextJobId = n
      /\ u.ops = [t.ops EXCEPT ![op] = new]
      /\ u.requests = t.requests \union {r} /\ r.id = n
      /\ new.type = t.ops[op].type /\ new.parent = t.ops[op].parent
  BY <1>1, <1>4, <1>5
<1>7. OneMore(t, u, op, new, r, n)
  <2> HIDE DEF new
  <2> QED BY <1>6 DEF OneMore
<1>8. new.type = t.ops[op].type /\ new.parent = t.ops[op].parent
  BY <1>6
<1> HIDE DEF new, MoreWrite
<1>9. Sends(t, u, op, new, r, n)
  BY <1>7, <1>8, OneMoreMoves
<1> QED
  BY <1>9 DEF new
----------------------------------------------------------------------------
(* The first requests of a transfer: after i further steps, as many as     *)
(* that and one more are in flight, up to the limit.                       *)
Number(i, c) == IF i < c THEN i + 1 ELSE c

Chunks(job) == IF job.type = "Download" THEN job.offset ELSE job.position

Spawned(p, t, op, job, i) ==
    LET new == t.ops[op]
        I == Ids(t, op)
    IN  /\ Moves(p, t, op) /\ Alike(job, new) /\ ~new.hasError
        /\ t.signals[op] = <<>>
        /\ Moving(new, I, Sent(t, op))
        /\ Cardinality(I) = Number(i, job.inFlightCount)
        /\ Chunks(new) = Cardinality(I)

LEMMA InFlightType ==
    ASSUME NEW size \in Nat
    PROVE  /\ InFlight(size) \in 1..MaxInFlightCount
           /\ size # 0 => InFlight(size) <= size
           /\ Number(MaxInFlightCount - 1, InFlight(size)) = InFlight(size)
           /\ Number(0, InFlight(size)) = 1
  BY InFlightAssumption DEF InFlight, Number

LEMMA SpawnedSettled ==
    ASSUME NEW p, NEW t, NEW q, NEW op, NEW job \in Op,
           Spawned(p, t, op, job, MaxInFlightCount - 1),
           job.inFlightCount = InFlight(job.fileSize), Shape(job),
           p.signals[op] = <<>>
    PROVE  Settled(p, t, q, op)
<1> DEFINE new == t.ops[op]
           I == Ids(t, op)
           Q == Sent(t, op)
<1>1. /\ Moves(p, t, op) /\ Alike(job, new) /\ ~new.hasError
      /\ t.signals[op] = <<>> /\ Moving(new, I, Q)
      /\ Cardinality(I) = Number(MaxInFlightCount - 1, job.inFlightCount)
  BY DEF Spawned
<1>2. new.inFlightCount = Cardinality(I)
  BY <1>1, InFlightType, BaseType DEF Alike
<1>3. Shape(new) /\ Result(new) = <<>> /\ I # {}
  BY <1>1 DEF Shape, Alike, Result, Moving
<1>4. OpInv(new, op, I, Q, t.signals[op])
  <2> HIDE DEF new, I, Q
  <2> QED BY <1>1, <1>2, <1>3, ReportedResult DEF OpInv, Stage
<1>5. \A r \in Q : r.type \in OnHandles
  BY <1>1 DEF Moving, OnHandles
<1>6. Reports(p.signals[op], t.signals[op], p.ops[op].parent)
  BY <1>1 DEF Reports
<1> QED
  BY <1>1, <1>3, <1>4, <1>5, <1>6 DEF Settled

LEMMA SpawnedFirst ==
    ASSUME NEW p, NEW t, NEW q, NEW op, NEW job \in Op, NEW new, NEW r,
           Good(p), Of(p, q, op), Alone(p, q, op),
           Replies(p, t, q, op, new, <<>>, r), r.id = q.id,
           job.type \in Transfers, job.state = "Open",
           job.type = "Download" => ~job.statRequested,
           job.type = p.ops[op].type, job.parent = p.ops[op].parent,
           job.inFlightCount = InFlight(job.fileSize),
           Alike(job, new), ~new.hasError, Chunks(new) = 1,
           r.type = IF job.type = "Download" THEN "READ" ELSE "WRITE",
           Data(new, {q.id}, {r})
    PROVE  Spawned(p, t, op, job, 0)
<1>1. /\ new.type = p.ops[op].type /\ new.parent = p.ops[op].parent
      /\ Wired(p)
  BY DEF Alike, Good
<1>2. /\ Moves(p, t, op) /\ t.ops[op] = new /\ t.signals[op] = <<>>
      /\ Ids(t, op) = Ids(p, op)
      /\ Sent(t, op) = (Sent(p, op) \ {q}) \union {r}
  BY <1>1, RepliesMoves
<1>3. Ids(t, op) = {q.id} /\ Sent(t, op) = {r}
  BY <1>2 DEF Alone
<1>4. IsFiniteSet({q.id}) /\ Cardinality({q.id}) = 1
  BY FS_Singleton
<1>5. Number(0, job.inFlightCount) = 1
  BY InFlightType, BaseType
<1>6. Moving(new, {q.id}, {r})
  BY <1>4 DEF Moving, Alike
<1> QED
  BY <1>2, <1>3, <1>4, <1>5, <1>6 DEF Spawned

LEMMA SpawnedMore ==
    ASSUME NEW p, NEW t, NEW u, NEW op, NEW job \in Op, NEW new, NEW r, NEW n,
           NEW i \in Nat \ {0}, NEW old, old = t.ops[op],
           Wired(p), op \in DOMAIN p.ops,
           Spawned(p, t, op, job, i - 1), i < job.inFlightCount,
           Sends(t, u, op, new, r, n), Alike(old, new), ~new.hasError,
           Chunks(new) = Chunks(old) + 1,
           r.type = IF job.type = "Download" THEN "READ" ELSE "WRITE",
           Data(new, Ids(t, op) \union {n}, Sent(t, op) \union {r})
    PROVE  Spawned(p, u, op, job, i)
<1> DEFINE I == Ids(t, op)
           J == I \union {n}
           R == Sent(t, op) \union {r}
<1>1. /\ Moves(p, t, op) /\ Alike(job, old)
      /\ t.signals[op] = <<>> /\ Moving(old, I, Sent(t, op))
      /\ Cardinality(I) = Number(i - 1, job.inFlightCount)
      /\ Chunks(old) = Cardinality(I)
  BY DEF Spawned
<1>2. /\ Moves(t, u, op) /\ u.ops[op] = new /\ u.signals[op] = <<>>
      /\ Ids(u, op) = J /\ n \notin I /\ Sent(u, op) = R
  BY <1>1 DEF Sends
<1>3. Moves(p, u, op)
  BY <1>1, <1>2, MovesTwice
<1>4. IsFiniteSet(J) /\ Cardinality(J) = Cardinality(I) + 1 /\ J # {}
  <2>1. IsFiniteSet(I)
    BY <1>1 DEF Moving
  <2> HIDE DEF I
  <2> QED BY <1>2, <2>1, FS_AddElement
<1>5. Cardinality(J) = Number(i, job.inFlightCount)
  <2>1. job.inFlightCount \in Int
    BY BaseType
  <2> HIDE DEF I, J
  <2> QED BY <1>1, <1>4, <2>1 DEF Number
<1>6. Alike(job, new)
  BY <1>1 DEF Alike
<1>7. Moving(new, J, R)
  <2>1. \A x \in R : x.type = IF new.type = "Download" THEN "READ" ELSE "WRITE"
    BY <1>1, <1>6 DEF Moving, Alike
  <2> HIDE DEF R, J
  <2>2. Data(new, J, R)
    BY DEF J, R
  <2> QED BY <1>1, <1>4, <2>1, <2>2 DEF Moving, Alike
<1> HIDE DEF I, J, R
<1>8. Chunks(new) = Cardinality(J)
  BY <1>1, <1>4
<1> QED
  BY <1>2, <1>3, <1>5, <1>6, <1>7, <1>8 DEF Spawned

LEMMA SpawnedAll ==
    ASSUME NEW p, NEW t, NEW op, NEW job \in Op, NEW i \in Nat \ {0},
           Spawned(p, t, op, job, i - 1), ~(i < job.inFlightCount),
           job.inFlightCount = InFlight(job.fileSize)
    PROVE  Spawned(p, t, op, job, i)
<1>1. Number(i, job.inFlightCount) = Number(i - 1, job.inFlightCount)
  BY BaseType DEF Number
<1> QED
  BY <1>1 DEF Spawned
LEMMA Typed ==
    ASSUME NEW p, NEW t, NEW q, NEW op, NEW new, NEW sig, NEW r,
           Of(p, q, op), Replies(p, t, q, op, new, sig, r)
    PROVE  new \in Op
<1>1. /\ t \in State /\ t.ops = [p.ops EXCEPT ![op] = new]
      /\ op \in DOMAIN p.ops
  BY DEF Replies, Same, Of
<1> QED
  BY <1>1, StateType

LEMMA CountedFields ==
    ASSUME NEW job \in Op, NEW n \in Int
    PROVE  LET new == [job EXCEPT !.inFlightCount = n]
           IN  /\ new.type = job.type /\ new.state = job.state
               /\ new.hasError = job.hasError /\ new.parent = job.parent
               /\ new.append = job.append /\ new.fileSize = job.fileSize
               /\ new.offset = job.offset /\ new.position = job.position
               /\ new.inFlightCount = n
               /\ new.statRequested = job.statRequested
               /\ new.eofId = job.eofId /\ new.offsets = job.offsets
               /\ new.readable = job.readable
               /\ new.unreadable = job.unreadable
               /\ new.remote = job.remote /\ Base(new) = Base(job)
               /\ new.contents = job.contents /\ new \in Op
  BY DEF Op, Base

LEMMA AfterReadAlike ==
    ASSUME NEW job \in Op, NEW id, AfterRead(job, id) \in Op
    PROVE  /\ Alike(job, AfterRead(job, id))
           /\ AfterRead(job, id).hasError = job.hasError
           /\ job.type = "Download" =>
                 Chunks(AfterRead(job, id)) = Chunks(job) + 1
<1> DEFINE new == AfterRead(job, id)
<1>1. /\ new.type = job.type /\ new.state = job.state
      /\ new.hasError = job.hasError /\ new.parent = job.parent
      /\ new.append = job.append /\ new.fileSize = job.fileSize
      /\ new.inFlightCount = job.inFlightCount
      /\ new.statRequested = job.statRequested
      /\ new.readable = job.readable /\ new.unreadable = job.unreadable
      /\ new.offset = job.offset + 1
  BY AfterReadFields
<1> HIDE DEF new
<1>2. /\ Alike(job, new) /\ new.hasError = job.hasError
      /\ job.type = "Download" => Chunks(new) = Chunks(job) + 1
  BY <1>1 DEF Alike, Chunks, new
<1> QED
  BY <1>2 DEF new

LEMMA AfterWriteAlike ==
    ASSUME NEW job \in Op, AfterWrite(job) \in Op
    PROVE  /\ Alike(job, AfterWrite(job))
           /\ AfterWrite(job).hasError = job.hasError
           /\ job.type = "UploadFile" =>
                 Chunks(AfterWrite(job)) = Chunks(job) + 1
<1> DEFINE new == AfterWrite(job)
<1>1. /\ new.type = job.type /\ new.state = job.state
      /\ new.hasError = job.hasError /\ new.parent = job.parent
      /\ new.append = job.append /\ new.fileSize = job.fileSize
      /\ new.inFlightCount = job.inFlightCount
      /\ new.statRequested = job.statRequested
      /\ new.readable = job.readable /\ new.unreadable = job.unreadable
      /\ new.position = job.position + 1
  BY AfterWriteFields
<1> HIDE DEF new
<1>2. /\ Alike(job, new) /\ new.hasError = job.hasError
      /\ job.type = "UploadFile" => Chunks(new) = Chunks(job) + 1
  BY <1>1 DEF Alike, Chunks, new
<1> QED
  BY <1>2 DEF new

(* The size of a download is known, or is said to be unknown.              *)
Sized(p, q, op, job) ==
    /\ Good(p) /\ Of(p, q, op) /\ Alone(p, q, op) /\ p.signals[op] = <<>>
    /\ job \in Op /\ Shape(job) /\ ~job.hasError
    /\ job.state = "Open" /\ (job.type = "Download" => ~job.statRequested)
    /\ job.position = 0 /\ job.contents = {}
    /\ job.type = p.ops[op].type /\ job.parent = p.ops[op].parent

LEMMA FirstRead ==
    ASSUME NEW p, NEW s, NEW q, NEW op, NEW job, NEW known,
           Sized(p, q, op, job), At(p, s, q, op, job, <<>>), q.id = op,
           job.type = "Download", job.offset = 0,
           job.fileSize \in {0, job.remote},
           known = [job EXCEPT !.inFlightCount = InFlight(job.fileSize)]
    PROVE  Spawned(p, SendReadRequest(CalculateInFlightCount(s, op), op, op),
                   op, known, 0)
<1> USE DEF Sized
<1> DEFINE a == CalculateInFlightCount(s, op)
           t == SendReadRequest(a, op, q.id)
           r == [id |-> q.id, type |-> "READ", offset |-> known.offset,
                 chunk |-> known.offset]
           new == AfterRead(known, q.id)
<1>1. InFlight(job.fileSize) \in Int
  BY InFlightType, BaseType
<1>2. /\ known.type = "Download" /\ known.state = "Open"
      /\ ~known.hasError /\ known.parent = job.parent
      /\ known.append = job.append /\ known.fileSize = job.fileSize
      /\ known.offset = 0 /\ known.remote = job.remote
      /\ known.inFlightCount = InFlight(known.fileSize)
      /\ ~known.statRequested /\ known.contents = {} /\ known \in Op
  BY <1>1, CountedFields
<1>3. At(p, a, q, op, known, <<>>)
  BY AtCount
<1> HIDE DEF a
<1>4. Replies(p, t, q, op, new, <<>>, r)
  BY <1>3, AtRead
<1>5. new \in Op
  BY <1>4, Typed
<1>6. /\ Alike(known, new) /\ ~new.hasError /\ Chunks(new) = 1
      /\ new.type = "Download"
  <2>1. /\ Alike(known, new) /\ new.hasError = known.hasError
        /\ Chunks(new) = Chunks(known) + 1
    BY <1>2, <1>5, AfterReadAlike
  <2>2. Chunks(known) = 0
    BY <1>2 DEF Chunks
  <2> HIDE DEF new
  <2> QED BY <1>2, <2>1, <2>2 DEF Alike
<1>7. /\ r.id = q.id /\ r.type = "READ" /\ r.offset = known.offset
      /\ r.chunk = known.offset
  OBVIOUS
<1>8. r \in Request
  BY <1>2, StateType DEF Of, Request, RequestTypes, OnHandles
<1> HIDE DEF r
<1>9. DownloadData(known, {known.eofId}, {})
  BY <1>2, BaseType DEF DownloadData
<1>10. DownloadData(new, {q.id}, {r})
  <2>1. known.fileSize # 0 => known.offset < known.fileSize
    BY <1>2, BaseType
  <2> DEFINE N == {}
             J == {r.id}
  <2>2. /\ N \in SUBSET Request /\ \A x \in N : x.id # r.id
        /\ known.fileSize = 0 => N = {} /\ J = {r.id}
    OBVIOUS
  <2>3. DownloadData(known, {known.eofId}, N)
    BY <1>9
  <2> HIDE DEF N, J
  <2>4. DownloadData(AfterRead(known, r.id), J, N \union {r})
    BY <1>2, <1>7, <1>8, <2>1, <2>2, <2>3, DownloadNext
  <2> QED BY <1>7, <2>4 DEF N, J
<1> HIDE DEF new, t
<1>11. Data(new, {q.id}, {r})
  BY <1>6, <1>10 DEF Data
<1>12. Spawned(p, t, op, known, 0)
  BY <1>2, <1>4, <1>6, <1>7, <1>11, SpawnedFirst DEF Transfers
<1> QED
  BY <1>12 DEF t, a

LEMMA NextRead ==
    ASSUME NEW p, NEW t, NEW op, NEW job \in Op, NEW i \in Nat \ {0},
           Wired(p), op \in DOMAIN p.ops, job.type = "Download",
           job.inFlightCount = InFlight(job.fileSize),
           Spawned(p, t, op, job, i - 1)
    PROVE  Spawned(p, ReadNext(op, t, i), op, job, i)
<1> DEFINE old == t.ops[op]
           n == t.nextJobId + 1
           u == SendReadRequest(Insert(NewId(t), NewId(t).nextJobId, op), op,
                                NewId(t).nextJobId)
           r == [id |-> n, type |-> "READ", offset |-> old.offset,
                 chunk |-> old.offset]
           new == AfterRead(old, n)
           I == Ids(t, op)
           R == Sent(t, op)
<1>1. /\ Wired(t) /\ op \in DOMAIN t.ops /\ Alike(job, old) /\ ~old.hasError
      /\ Moving(old, I, R)
      /\ Cardinality(I) = Number(i - 1, job.inFlightCount)
      /\ Chunks(old) = Cardinality(I)
  BY DEF Spawned, Moves
<1>2. CASE ~(i < job.inFlightCount)
  <2>1. ReadNext(op, t, i) = t
    BY <1>1, <1>2 DEF ReadNext, Alike
  <2> QED BY <1>2, <2>1, SpawnedAll
<1>3. CASE i < job.inFlightCount
  <2>1. ReadNext(op, t, i) = u
    BY <1>1, <1>3 DEF ReadNext, Alike
  <2>2. MoreRead(t, u, op, old, r, n)
    BY DEF MoreRead
  <2>3. /\ r.id = n /\ r.type = "READ" /\ r.offset = old.offset
        /\ r.chunk = old.offset
    OBVIOUS
  <2>4. /\ t \in State /\ t.nextJobId \in Nat /\ old \in Op
        /\ t.requests \in SUBSET Request
    BY <1>1, WiredFacts, StateType
  <2>5. r \in Request
    BY <2>4, BaseType DEF Request, RequestTypes, OnHandles
  <2>6. n \notin DOMAIN t.jobs
    BY <1>1, <2>4 DEF Wired, Plain
  <2> HIDE DEF r, u, old, n
  <2>7. Sends(t, u, op, new, r, n)
    BY <1>1, <2>2, ReadMore
  <2>8. new \in Op
    <3>1. Wired(u) /\ op \in DOMAIN u.ops /\ u.ops[op] = new
      BY <1>1, <2>7 DEF Sends, Moves
    <3> QED BY <3>1, WiredFacts
  <2>9. old.type = "Download" /\ old.fileSize = job.fileSize
    BY <1>1 DEF Alike
  <2>10. /\ Alike(old, new) /\ ~new.hasError /\ Chunks(new) = Chunks(old) + 1
         /\ new.type = "Download"
    BY <1>1, <2>4, <2>8, <2>9, AfterReadAlike DEF Alike
  <2>11. DownloadData(old, I, R)
    BY <1>1, <2>9 DEF Moving, Data
  <2>12. old.fileSize # 0 /\ old.offset < old.fileSize
    <3>1. job.fileSize \in Nat /\ InFlight(job.fileSize) \in Nat
          /\ (job.fileSize # 0 => InFlight(job.fileSize) <= job.fileSize)
          /\ (job.fileSize = 0 => InFlight(job.fileSize) = 1)
      BY BaseType, InFlightType DEF InFlight
    <3>2. old.offset = i
      BY <1>1, <1>3, <2>9, <3>1 DEF Chunks, Number
    <3> QED BY <1>3, <2>9, <3>1, <3>2
  <2>13. R \in SUBSET Request /\ \A x \in R : x.id # n
    BY <2>4, <2>6 DEF Sent, Ids
  <2> DEFINE J == I \union {n}
  <2> HIDE DEF I, R, J
  <2>14. DownloadData(new, J, R \union {r})
    <3>1. DownloadData(AfterRead(old, r.id), J, R \union {r})
      BY <2>3, <2>4, <2>5, <2>11, <2>12, <2>13, DownloadNext
    <3> QED BY <2>3, <3>1
  <2> HIDE DEF new
  <2>15. Data(new, I \union {n}, R \union {r})
    BY <2>10, <2>14 DEF Data, J
  <2>16. Spawned(p, u, op, job, i)
    BY <1>3, <2>3, <2>7, <2>10, <2>15, SpawnedMore DEF old, I, R
  <2> QED BY <2>1, <2>16
<1> QED
  BY <1>2, <1>3

LEMMA ReadsSettled ==
    ASSUME NEW p, NEW s, NEW q, NEW op, NEW job,
           Sized(p, q, op, job), At(p, s, q, op, job, <<>>), q.id = op,
           job.type = "Download", job.offset = 0,
           job.fileSize \in {0, job.remote}
    PROVE  Settled(p, SpawnReadRequests(s, op), q, op)
<1> DEFINE known == [job EXCEPT !.inFlightCount = InFlight(job.fileSize)]
           S == [i \in Nat |-> {t \in State : Spawned(p, t, op, known, i)}]
           a == SendReadRequest(CalculateInFlightCount(s, op), op, op)
           u == SpawnReadRequests(s, op)
           m == MaxInFlightCount - 1
<1>1. InFlight(job.fileSize) \in Int
  BY InFlightType, BaseType DEF Sized
<1>2. /\ known.type = "Download" /\ known.append = job.append
      /\ known.parent = job.parent /\ known.hasError = job.hasError
      /\ known.fileSize = job.fileSize
      /\ known.inFlightCount = InFlight(known.fileSize)
      /\ known \in Op
  BY <1>1, CountedFields DEF Sized
<1>3. Spawned(p, a, op, known, 0)
  BY FirstRead
<1> HIDE DEF known, a
<1>4. \A t, i : Spawned(p, t, op, known, i) => t \in State
  BY StateType DEF Spawned, Moves, Wired, Plain
<1>5. /\ \A i \in Nat : S[i] \in SUBSET State
      /\ \A i \in Nat : \A t : t \in S[i] <=> Spawned(p, t, op, known, i)
  BY <1>4
<1>6. m \in Nat /\ \A i \in 1..m : i \in Nat \ {0} /\ i - 1 \in Nat
  BY InFlightAssumption
<1> HIDE DEF S, m
<1>7. a \in S[0]
  BY <1>3, <1>5
<1>8. \A i \in 1..m : \A t \in S[i - 1] : ReadNext(op, t, i) \in S[i]
  <2> TAKE i \in 1..m
  <2> TAKE t \in S[i - 1]
  <2>1. Spawned(p, t, op, known, i - 1)
    BY <1>5, <1>6
  <2>2. Spawned(p, ReadNext(op, t, i), op, known, i)
    BY <1>2, <1>6, <2>1, NextRead DEF Sized, Good, Of
  <2> QED BY <1>5, <1>6, <2>2
<1>9. u \in S[m]
  BY <1>5, <1>7, <1>8, ReadLoop DEF a, m
<1> HIDE DEF u
<1>10. Spawned(p, u, op, known, m)
  BY <1>5, <1>6, <1>9
<1>11. Shape(known)
  BY <1>2 DEF Sized, Shape
<1>12. Settled(p, u, q, op)
  BY <1>2, <1>10, <1>11, SpawnedSettled DEF Sized, m
<1> QED
  BY <1>12 DEF u

(* The first requests of an upload, of which nothing was sent.             *)
LEMMA FirstWrite ==
    ASSUME NEW p, NEW s, NEW q, NEW op, NEW job, NEW known,
           Sized(p, q, op, job), At(p, s, q, op, job, <<>>),
           job.type = "UploadFile", job.offset = Base(job), job.fileSize # 0,
           known = [job EXCEPT !.inFlightCount = InFlight(job.fileSize)]
    PROVE  Spawned(p, SendWriteRequest(CalculateInFlightCount(s, op), q.id),
                   op, known, 0)
<1> USE DEF Sized
<1> DEFINE a == CalculateInFlightCount(s, op)
           t == SendWriteRequest(a, q.id)
           r == [id |-> q.id, type |-> "WRITE", offset |-> known.offset,
                 chunk |-> known.position]
           new == AfterWrite(known)
<1>1. InFlight(job.fileSize) \in Int
  BY InFlightType, BaseType
<1>2. /\ known.type = "UploadFile" /\ known.state = "Open"
      /\ ~known.hasError /\ known.parent = job.parent
      /\ known.append = job.append /\ known.fileSize = job.fileSize
      /\ known.offset = Base(known) /\ known.position = 0
      /\ known.inFlightCount = InFlight(known.fileSize)
      /\ known.readable = job.readable
      /\ known.contents = {} /\ known \in Op
  BY <1>1, CountedFields
<1>3. At(p, a, q, op, known, <<>>)
  BY AtCount
<1>4. known.position < known.readable
  BY <1>2, BaseType DEF Shape
<1> HIDE DEF a
<1>5. Replies(p, t, q, op, new, <<>>, r)
  BY <1>3, <1>4, AtWrite
<1>6. new \in Op
  BY <1>5, Typed
<1>7. /\ Alike(known, new) /\ ~new.hasError /\ Chunks(new) = 1
      /\ new.type = "UploadFile"
  <2>1. /\ Alike(known, new) /\ new.hasError = known.hasError
        /\ Chunks(new) = Chunks(known) + 1
    BY <1>2, <1>6, AfterWriteAlike
  <2>2. Chunks(known) = 0
    BY <1>2 DEF Chunks
  <2> HIDE DEF new
  <2> QED BY <1>2, <2>1, <2>2 DEF Alike
<1>8. /\ r.id = q.id /\ r.type = "WRITE" /\ r.offset = known.offset
      /\ r.chunk = known.position
  OBVIOUS
<1>9. r \in Request
  BY <1>2, StateType, BaseType DEF Of, Request, RequestTypes, OnHandles
<1> HIDE DEF r
<1>10. UploadData(new, {r})
  <2> DEFINE N == {}
  <2>1. N \in SUBSET Request
    OBVIOUS
  <2>2. UploadData(known, N)
    BY <1>2, BaseType DEF UploadData
  <2> HIDE DEF N
  <2>3. UploadData(new, N \union {r})
    BY <1>2, <1>4, <1>8, <1>9, <2>1, <2>2, UploadNext
  <2> QED BY <2>3 DEF N
<1> HIDE DEF new, t
<1>11. Data(new, {q.id}, {r})
  BY <1>7, <1>10 DEF Data
<1>12. Spawned(p, t, op, known, 0)
  BY <1>2, <1>5, <1>7, <1>8, <1>11, SpawnedFirst DEF Transfers
<1> QED
  BY <1>12 DEF t, a

LEMMA NextWrite ==
    ASSUME NEW p, NEW t, NEW op, NEW job \in Op, NEW i \in Nat \ {0},
           Wired(p), op \in DOMAIN p.ops, job.type = "UploadFile",
           Shape(job), job.fileSize # 0,
           job.inFlightCount = InFlight(job.fileSize),
           Spawned(p, t, op, job, i - 1)
    PROVE  Spawned(p, WriteNext(op, t, i), op, job, i)
<1> DEFINE old == t.ops[op]
           n == t.nextJobId + 1
           u == SendWriteRequest(Insert(NewId(t), NewId(t).nextJobId, op),
                                 NewId(t).nextJobId)
           r == [id |-> n, type |-> "WRITE", offset |-> old.offset,
                 chunk |-> old.position]
           new == AfterWrite(old)
           I == Ids(t, op)
           R == Sent(t, op)
<1>1. /\ Wired(t) /\ op \in DOMAIN t.ops /\ Alike(job, old) /\ ~old.hasError
      /\ Moving(old, I, R)
      /\ Cardinality(I) = Number(i - 1, job.inFlightCount)
      /\ Chunks(old) = Cardinality(I)
  BY DEF Spawned, Moves
<1>2. CASE ~(i < job.inFlightCount)
  <2>1. WriteNext(op, t, i) = t
    BY <1>1, <1>2 DEF WriteNext, Alike
  <2> QED BY <1>2, <2>1, SpawnedAll
<1>3. CASE i < job.inFlightCount
  <2>1. WriteNext(op, t, i) = u
    BY <1>1, <1>3 DEF WriteNext, Alike
  <2>2. MoreWrite(t, u, op, old, r, n)
    BY DEF MoreWrite
  <2>3. /\ r.id = n /\ r.type = "WRITE" /\ r.offset = old.offset
        /\ r.chunk = old.position
    OBVIOUS
  <2>4. /\ t \in State /\ t.nextJobId \in Nat /\ old \in Op
        /\ t.requests \in SUBSET Request
    BY <1>1, WiredFacts, StateType
  <2>5. r \in Request
    BY <2>4, BaseType DEF Request, RequestTypes, OnHandles
  <2>6. old.type = "UploadFile" /\ old.readable = job.readable
    BY <1>1 DEF Alike
  <2>7. old.position < old.readable
    <3>1. job.fileSize \in Nat /\ InFlight(job.fileSize) \in Nat
          /\ InFlight(job.fileSize) <= job.fileSize
          /\ job.readable = job.fileSize
      BY BaseType, InFlightType DEF InFlight, Shape
    <3>2. old.position = i
      BY <1>1, <1>3, <2>6, <3>1 DEF Chunks, Number
    <3> QED BY <1>3, <2>6, <3>1, <3>2
  <2> HIDE DEF r, u, old, n
  <2>8. Sends(t, u, op, new, r, n)
    BY <1>1, <2>2, <2>7, WriteMore
  <2>9. new \in Op
    <3>1. Wired(u) /\ op \in DOMAIN u.ops /\ u.ops[op] = new
      BY <1>1, <2>8 DEF Sends, Moves
    <3> QED BY <3>1, WiredFacts
  <2>10. /\ Alike(old, new) /\ ~new.hasError /\ Chunks(new) = Chunks(old) + 1
         /\ new.type = "UploadFile"
    BY <1>1, <2>4, <2>9, <2>6, AfterWriteAlike DEF Alike
  <2>11. UploadData(old, R)
    BY <1>1, <2>6 DEF Moving, Data
  <2>12. R \in SUBSET Request
    BY <2>4 DEF Sent
  <2> HIDE DEF I, R
  <2>13. UploadData(new, R \union {r})
    BY <2>3, <2>4, <2>5, <2>7, <2>11, <2>12, UploadNext
  <2> HIDE DEF new
  <2>14. Data(new, I \union {n}, R \union {r})
    BY <2>10, <2>13 DEF Data
  <2>15. Spawned(p, u, op, job, i)
    BY <1>3, <2>3, <2>8, <2>10, <2>14, SpawnedMore DEF old, I, R
  <2> QED BY <2>1, <2>15
<1> QED
  BY <1>2, <1>3

(* Of an empty file there is nothing to send.                              *)
Emptied(p, t, q, op) ==
    Settled(p, t, q, op) /\ t.ops[op].inFlightCount = 1

LEMMA NothingToWrite ==
    ASSUME NEW p, NEW s, NEW q, NEW op, NEW job,
           Sized(p, q, op, job), At(p, s, q, op, job, <<>>),
           job.type = "UploadFile", job.fileSize = 0
    PROVE  Emptied(p, SendWriteRequest(CalculateInFlightCount(s, op), q.id),
                   q, op)
<1> USE DEF Sized
<1> DEFINE a == CalculateInFlightCount(s, op)
           t == SendWriteRequest(a, q.id)
           n == InFlight(job.fileSize)
           known == [job EXCEPT !.inFlightCount = n]
           new == [known EXCEPT !.state = "CloseRequested"]
           r == [id |-> q.id, type |-> "CLOSE", offset |-> 0, chunk |-> 0]
<1>1. n = 1 /\ n \in Int
  BY DEF InFlight
<1>3. At(p, a, q, op, known, <<>>)
  BY AtCount
<1> HIDE DEF n
<1>2. /\ known.type = "UploadFile" /\ known.state = "Open"
      /\ ~known.hasError /\ known.parent = job.parent
      /\ known.append = job.append /\ known.fileSize = 0
      /\ known.inFlightCount = 1 /\ known.unreadable = job.unreadable
      /\ known.readable = job.readable
      /\ known.contents = {} /\ known \in Op
  BY <1>1, CountedFields
<1>4. /\ known.position \in Nat /\ known.readable = 0 /\ ~known.unreadable
      /\ q.id \in Nat
  BY <1>2, <1>3, AtFacts, BaseType DEF Shape
<1> HIDE DEF a, known
<1>5. Replies(p, t, q, op, new, <<>>, r)
  <2>1. t = FinishTransferRequest(a, q.id)
    BY <1>2, <1>3, <1>4, AtEndOfFile
  <2> QED BY <1>2, <1>3, <2>1, AtFinish
<1>6. /\ new.type = "UploadFile" /\ new.parent = job.parent
      /\ new.append = job.append /\ new.fileSize = 0 /\ new.readable = 0
      /\ ~new.unreadable /\ ~new.hasError /\ new.state = "CloseRequested"
      /\ new.contents = {} /\ new.inFlightCount = 1
  BY <1>2, <1>4 DEF Op
<1>7. r.id = q.id /\ r.type \in OnHandles /\ Only(q.id, "CLOSE", {q.id}, {r})
  BY DEF OnHandles, Only
<1> HIDE DEF new, r, t
<1>8. CompleteJob(new)
  BY <1>6 DEF CompleteJob
<1>9. Shape(new) /\ Result(new) = <<>>
  BY <1>6 DEF Shape, Result
<1>10. Closing(new, {q.id}, {r})
  BY <1>4, <1>6, <1>7, <1>8 DEF Closing, Transfers
<1>11. OpInv(new, op, {q.id}, {r}, <<>>)
  BY <1>8, <1>9, <1>10, ReportedResult DEF OpInv, Stage
<1>12. Settled(p, t, q, op)
  BY <1>5, <1>6, <1>7, <1>11, FollowsSettled DEF Reports
<1>13. t.ops[op] = new
  <2>1. t.ops = [p.ops EXCEPT ![op] = new] /\ op \in DOMAIN p.ops
    BY <1>5 DEF Replies, Same, Of
  <2> QED BY <2>1
<1>14. Emptied(p, t, q, op)
  BY <1>6, <1>12, <1>13 DEF Emptied
<1> QED
  BY <1>14 DEF t, a

LEMMA WritesSettled ==
    ASSUME NEW p, NEW s, NEW q, NEW op, NEW job,
           Sized(p, q, op, job), At(p, s, q, op, job, <<>>),
           job.type = "UploadFile", job.offset = Base(job)
    PROVE  Settled(p, SpawnWriteRequests(s, q.id), q, op)
<1> DEFINE known == [job EXCEPT !.inFlightCount = InFlight(job.fileSize)]
           a == SendWriteRequest(CalculateInFlightCount(s, op), q.id)
           u == SpawnWriteRequests(s, q.id)
           m == MaxInFlightCount - 1
<1>1. op = s.jobs[q.id]
  BY AtFacts DEF Sized
<1>2. m \in Nat /\ \A i \in 1..m : i \in Nat \ {0} /\ i - 1 \in Nat
  BY InFlightAssumption
<1> HIDE DEF a, m, u
<1>3. CASE job.fileSize # 0
  <2> DEFINE S == [i \in Nat |-> {t \in State : Spawned(p, t, op, known, i)}]
  <2>1. InFlight(job.fileSize) \in Int
    BY InFlightType, BaseType DEF Sized
  <2>2. /\ known.type = "UploadFile" /\ known.append = job.append
        /\ known.parent = job.parent /\ known.hasError = job.hasError
        /\ known.fileSize = job.fileSize /\ known.readable = job.readable
        /\ known.unreadable = job.unreadable
        /\ known.inFlightCount = InFlight(known.fileSize)
        /\ known \in Op
    BY <2>1, CountedFields DEF Sized
  <2>3. Spawned(p, a, op, known, 0)
    BY <1>3, FirstWrite DEF a
  <2>4. Shape(known)
    BY <2>2 DEF Sized, Shape
  <2> HIDE DEF known
  <2>5. \A t, i : Spawned(p, t, op, known, i) => t \in State
    BY StateType DEF Spawned, Moves, Wired, Plain
  <2>6. /\ \A i \in Nat : S[i] \in SUBSET State
        /\ \A i \in Nat : \A t : t \in S[i] <=> Spawned(p, t, op, known, i)
    BY <2>5
  <2> HIDE DEF S
  <2>7. a \in S[0]
    BY <2>3, <2>6
  <2>8. \A i \in 1..m : \A t \in S[i - 1] : WriteNext(op, t, i) \in S[i]
    <3> TAKE i \in 1..m
    <3> TAKE t \in S[i - 1]
    <3>1. Spawned(p, t, op, known, i - 1)
      BY <1>2, <2>6
    <3>2. Spawned(p, WriteNext(op, t, i), op, known, i)
      BY <1>2, <1>3, <2>2, <2>4, <3>1, NextWrite DEF Sized, Good, Of
    <3> QED BY <1>2, <2>6, <3>2
  <2>9. u \in S[m]
    BY <1>1, <2>6, <2>7, <2>8, WriteLoop DEF a, m, u
  <2>10. Spawned(p, u, op, known, m)
    BY <1>2, <2>6, <2>9
  <2>11. Settled(p, u, q, op)
    BY <2>2, <2>4, <2>10, SpawnedSettled DEF Sized, m
  <2> QED BY <2>11 DEF u
<1>4. CASE job.fileSize = 0
  <2> DEFINE S == [i \in Nat |-> {t \in State : Emptied(p, t, q, op)}]
  <2>1. Emptied(p, a, q, op)
    BY <1>4, NothingToWrite DEF a
  <2>2. \A t : Emptied(p, t, q, op) => t \in State
    BY DEF Emptied, Settled, Moves, Wired, Plain
  <2>3. /\ \A i \in Nat : S[i] \in SUBSET State
        /\ \A i \in Nat : \A t : t \in S[i] <=> Emptied(p, t, q, op)
    BY <2>2
  <2> HIDE DEF S
  <2>4. a \in S[0]
    BY <2>1, <2>3
  <2>5. \A i \in 1..m : \A t \in S[i - 1] : WriteNext(op, t, i) \in S[i]
    <3> TAKE i \in 1..m
    <3> TAKE t \in S[i - 1]
    <3>1. Emptied(p, t, q, op)
      BY <1>2, <2>3
    <3>2. WriteNext(op, t, i) = t
      BY <1>2, <3>1 DEF WriteNext, Emptied
    <3> QED BY <1>2, <2>3, <3>1, <3>2
  <2>6. u \in S[m]
    BY <1>1, <2>3, <2>4, <2>5, WriteLoop DEF a, m, u
  <2>7. Settled(p, u, q, op)
    BY <1>2, <2>3, <2>6 DEF Emptied
  <2> QED BY <2>7 DEF u
<1> QED
  BY <1>3, <1>4, BaseType DEF Sized
----------------------------------------------------------------------------
(* SSH_FXP_HANDLE and SSH_FXP_ATTRS start the transfer.                    *)
LEMMA AtNew ==
    ASSUME NEW p, NEW s, NEW q, NEW op, NEW job, NEW sig, NEW new \in Op,
           Of(p, q, op), At(p, s, q, op, job, sig)
    PROVE  At(p, [s EXCEPT !.ops[op] = new], q, op, new, sig)
<1>1. /\ s \in State /\ op \in DOMAIN s.ops /\ op \in DOMAIN s.signals
      /\ s.ops[op] = job /\ s.signals[op] = sig
      /\ job \in Op /\ sig \in Results
  BY AtFacts
<1> DEFINE t == [s EXCEPT !.ops[op] = new]
<1>2. /\ t.jobs = s.jobs /\ t.requests = s.requests
      /\ t.uploadDirs = s.uploadDirs /\ t.nextJobId = s.nextJobId
      /\ t.ops = [s.ops EXCEPT ![op] = new]
      /\ t.signals = [s.signals EXCEPT ![op] = sig]
  BY <1>1, StateType DEF State
<1>3. t \in State
  <2>1. [s.ops EXCEPT ![op] = new] \in Maps(Nat, Op)
    BY <1>1, StateType, MapExcept
  <2> QED BY <1>1, <2>1 DEF State
<1> HIDE DEF t
<1>4. At(p, t, q, op, new, sig)
  BY <1>2, <1>3, AtJob
<1> QED
  BY <1>4 DEF t

LEMMA DownloadStarts ==
    ASSUME NEW p, NEW q, NEW op, NEW size, Good(p), Of(p, q, op),
           q.type = "FSTAT", p.ops[op].type = "Download",
           size \in {p.ops[op].remote, 0, NoSize}
    PROVE  Settled(p, HandleAttrs(Less(p, q), q.id, size), q, op)
<1> DEFINE job == p.ops[op]
           s == Less(p, q)
           n == IF size = NoSize THEN 0 ELSE size
           e == IF size = NoSize THEN op ELSE job.eofId
           known == [job EXCEPT !.fileSize = n, !.eofId = e,
                                !.statRequested = FALSE]
           sized == [s EXCEPT !.ops[op] = known]
<1>1. /\ OpInv(job, op, Ids(p, op), Sent(p, op), p.signals[op])
      /\ Alone(p, q, op) /\ Asking(job, op, Ids(p, op), Sent(p, op))
      /\ job \in Op /\ q.id = op /\ Ids(p, op) # {} /\ op \in Nat
  BY StageOf DEF Moving, InitialRequest
<1>2. /\ Fresh(job) /\ ~job.hasError /\ job.state = "Open"
  BY <1>1 DEF Asking, Fresh
<1>3. p.signals[op] = <<>> /\ Shape(job)
  BY <1>1, <1>2, Unreported
<1>4. At(p, s, q, op, job, <<>>)
  BY <1>3, LessAt
<1>5. s.jobs[q.id] = op /\ s.ops[op] = job
  BY <1>4, AtFacts
<1>6. n \in Nat /\ e \in Nat /\ n \in {0, job.remote}
  BY <1>1, BaseType DEF NoSize
<1>7. HandleAttrs(s, q.id, size) = SpawnReadRequests(sized, op)
  BY <1>5 DEF HandleAttrs
<1> HIDE DEF n, e
<1>8. /\ known \in Op /\ known.type = "Download" /\ known.state = "Open"
      /\ ~known.hasError /\ known.parent = job.parent
      /\ known.append = job.append /\ known.offset = 0
      /\ known.fileSize \in {0, known.remote} /\ known.position = 0
      /\ known.contents = {} /\ ~known.statRequested
  BY <1>1, <1>2, <1>6 DEF Op, Fresh
<1> HIDE DEF known, s
<1>9. At(p, sized, q, op, known, <<>>)
  BY <1>4, <1>8, AtNew
<1> HIDE DEF sized
<1>10. Shape(known)
  BY <1>3, <1>8 DEF Shape
<1>11. Sized(p, q, op, known)
  BY <1>1, <1>3, <1>8, <1>10 DEF Sized
<1>12. Settled(p, SpawnReadRequests(sized, op), q, op)
  BY <1>1, <1>8, <1>9, <1>11, ReadsSettled
<1> QED
  BY <1>7, <1>12 DEF s

LEMMA AppendStarts ==
    ASSUME NEW p, NEW q, NEW op, Good(p), Of(p, q, op),
           q.type = "FSTAT", p.ops[op].type = "UploadFile"
    PROVE  Settled(p, HandleAttrs(Less(p, q), q.id, p.ops[op].remote), q, op)
<1> DEFINE job == p.ops[op]
           s == Less(p, q)
           n == job.remote
           known == [job EXCEPT !.offset = n]
           sized == [s EXCEPT !.ops[op].offset = n]
<1>1. /\ OpInv(job, op, Ids(p, op), Sent(p, op), p.signals[op])
      /\ Alone(p, q, op) /\ Asking(job, op, Ids(p, op), Sent(p, op))
      /\ job \in Op /\ q.id = op /\ Ids(p, op) # {} /\ op \in Nat
  BY StageOf DEF Moving, InitialRequest
<1>2. /\ Fresh(job) /\ ~job.hasError /\ job.state = "Open" /\ job.append
  BY <1>1 DEF Asking, Fresh
<1>3. p.signals[op] = <<>> /\ Shape(job)
  BY <1>1, <1>2, Unreported
<1>4. At(p, s, q, op, job, <<>>)
  BY <1>3, LessAt
<1>5. s.jobs[q.id] = op /\ s.ops[op] = job /\ s \in State /\ op \in DOMAIN s.ops
  BY <1>4, AtFacts
<1>6. n \in Nat /\ n # NoSize
  BY <1>1, BaseType DEF NoSize
<1> HIDE DEF s
<1>7. HandleAttrs(s, q.id, n) = SpawnWriteRequests(sized, q.id)
  BY <1>5, <1>6 DEF HandleAttrs
<1>8. /\ known \in Op /\ known.type = "UploadFile" /\ known.state = "Open"
      /\ ~known.hasError /\ known.parent = job.parent
      /\ known.append = job.append /\ known.offset = Base(known)
      /\ known.fileSize = job.fileSize /\ known.readable = job.readable
      /\ known.unreadable = job.unreadable
      /\ known.position = 0 /\ known.contents = {}
  <2>1. known \in Op
    BY <1>1, <1>6 DEF Op
  <2>2. job.type = "UploadFile" /\ known.offset = n /\ known.append
    BY <1>1, <1>2 DEF Op
  <2>3. Base(known) = n
    BY <1>1, <1>2, <2>2 DEF Op, Base
  <2> QED BY <1>1, <1>2, <2>1, <2>2, <2>3 DEF Op, Fresh
<1>9. At(p, sized, q, op, known, <<>>)
  <2>1. sized = [s EXCEPT !.ops[op] = known]
    BY <1>5, StateType
  <2> HIDE DEF known, sized
  <2>2. At(p, [s EXCEPT !.ops[op] = known], q, op, known, <<>>)
    BY <1>4, <1>8, AtNew
  <2> QED BY <2>1, <2>2
<1> HIDE DEF known, sized
<1>10. Shape(known)
  BY <1>3, <1>8 DEF Shape
<1>11. Sized(p, q, op, known)
  BY <1>1, <1>3, <1>8, <1>10 DEF Sized
<1>12. Settled(p, SpawnWriteRequests(sized, q.id), q, op)
  BY <1>8, <1>9, <1>11, WritesSettled
<1> QED
  BY <1>7, <1>12 DEF s

LEMMA UploadStarts ==
    ASSUME NEW p, NEW q, NEW op, NEW n \in Nat, Good(p), Of(p, q, op),
           q.type = "OPEN", p.ops[op].type = "UploadFile", ~p.ops[op].append
    PROVE  Settled(p, HandleHandle(Opened(Less(p, q), op, n), q.id), q, op)
<1> DEFINE job == p.ops[op]
           s == Opened(Less(p, q), op, n)
           opened == [job EXCEPT !.remote = n]
           known == [opened EXCEPT !.state = "Open"]
           open == Open(s, op)
<1>1. /\ OpInv(job, op, Ids(p, op), Sent(p, op), p.signals[op])
      /\ Alone(p, q, op) /\ Requesting(job, op, Ids(p, op), Sent(p, op))
      /\ job \in Op /\ q.id = op /\ Ids(p, op) # {}
  BY StageOf DEF Moving
<1>2. Fresh(job) /\ ~job.hasError
  BY <1>1 DEF Requesting, Fresh
<1>3. p.signals[op] = <<>> /\ Shape(job)
  BY <1>1, <1>2, Unreported
<1>4. At(p, s, q, op, opened, <<>>)
  BY <1>3, LessAt, AtOpened
<1>5. s.jobs[q.id] = op /\ s.ops[op] = opened
  BY <1>4, AtFacts
<1>6. /\ opened.type = "UploadFile" /\ ~opened.append
      /\ known.type = "UploadFile" /\ known.state = "Open"
      /\ ~known.hasError /\ known.parent = job.parent
      /\ known.append = job.append /\ known.offset = Base(known)
      /\ known.fileSize = job.fileSize /\ known.readable = job.readable
      /\ known.unreadable = job.unreadable
      /\ known.position = 0 /\ known.contents = {}
  BY <1>1, <1>2 DEF Op, Fresh, Base
<1> HIDE DEF s, opened
<1>7. At(p, open, q, op, known, <<>>)
  BY <1>4, AtOpen
<1> HIDE DEF known
<1>8. known \in Op /\ open.ops[op] = known
  BY <1>7, AtFacts
<1>9. ~ParentHasError(open, op)
  <2>1. open.uploadDirs = p.uploadDirs
    BY <1>7 DEF At, Same
  <2>2. job.parent # 0 => ~p.uploadDirs[job.parent].hasError
    BY NoParentError DEF Of
  <2> HIDE DEF open, job
  <2> QED BY <1>6, <1>8, <2>1, <2>2 DEF ParentHasError
<1>10. HandleHandle(s, q.id) = SpawnWriteRequests(open, q.id)
  BY <1>5, <1>6, <1>9 DEF HandleHandle, Open
<1> HIDE DEF open
<1>11. Shape(known)
  BY <1>3, <1>6 DEF Shape
<1>12. Sized(p, q, op, known)
  BY <1>1, <1>3, <1>6, <1>8, <1>11 DEF Sized
<1>13. Settled(p, SpawnWriteRequests(open, q.id), q, op)
  BY <1>6, <1>7, <1>12, WritesSettled
<1> QED
  BY <1>10, <1>13 DEF s
----------------------------------------------------------------------------
(* createJob().  X are ids whose request was answered already.             *)
New(op) ==
    [op EXCEPT !.state = IF op.type \in WithHandle THEN "OpenRequested"
                         ELSE "Inactive"]

FirstRequest(job, n) ==
    [id |-> n, type |-> InitialRequest(job.type), offset |-> 0, chunk |-> 0]

Creates(t, u, job, n) ==
    /\ u \in State /\ n = t.nextJobId + 1 /\ u.nextJobId = n
    /\ u.ops = With(t.ops, n, job) /\ u.jobs = With(t.jobs, n, n)
    /\ u.requests = t.requests \union {FirstRequest(job, n)}
    /\ u.signals = With(t.signals, n, <<>>)
    /\ u.uploadDirs = t.uploadDirs

LEMMA NewFields ==
    ASSUME NEW op \in Op
    PROVE  LET new == New(op)
           IN  /\ new \in Op /\ new.type = op.type
               /\ new.hasError = op.hasError /\ new.parent = op.parent
               /\ new.append = op.append /\ new.fileSize = op.fileSize
               /\ new.offset = op.offset /\ new.position = op.position
               /\ new.statRequested = op.statRequested
               /\ new.readable = op.readable
               /\ new.unreadable = op.unreadable
               /\ new.contents = op.contents
               /\ new.inFlightCount = op.inFlightCount
               /\ new.state = IF new.type \in WithHandle THEN "OpenRequested"
                              ELSE "Inactive"
  BY DEF New, Op

LEMMA InitialRequestType ==
    ASSUME NEW type \in Types
    PROVE  /\ InitialRequest(type) \in {"STAT", "OPENDIR", "MKDIR", "REMOVE",
                                        "OPEN"}
           /\ InitialRequest(type) \in RequestTypes
           /\ InitialRequest(type) \notin OnHandles
           /\ InitialRequest(type) = "OPEN" <=>
                 type \in {"CreateFile", "Download", "UploadFile"}
           /\ InitialRequest(type) = "OPENDIR" <=> type = "ListDir"
           /\ InitialRequest(type) = "STAT" <=> type = "StatFile"
           /\ InitialRequest(type) = "MKDIR" <=> type = "MakeDir"
           /\ InitialRequest(type) = "REMOVE" <=> type = "Rm"
  BY DEF Types, InitialRequest, RequestTypes, OnHandles

LEMMA CreateIs ==
    ASSUME NEW t \in State, NEW op \in Op, NEW n, n = t.nextJobId + 1
    PROVE  Creates(t, CreateJob(t, op), New(op), n)
<1> DEFINE u == CreateJob(t, op)
           job == New(op)
           r == FirstRequest(job, n)
           jj == With(t.jobs, n, n)
           oo == With(t.ops, n, job)
           ss == With(t.signals, n, <<>>)
<1>1. t.nextJobId \in Nat /\ n \in Nat
  BY StateType
<1>2. job \in Op /\ job.type = op.type
  BY NewFields
<1>3. jj \in Maps(Nat, Nat)
  <2>1. t.jobs \in Maps(Nat, Nat)
    BY StateType
  <2> QED BY <1>1, <2>1, WithType
<1>4. oo \in Maps(Nat, Op)
  <2>1. t.ops \in Maps(Nat, Op)
    BY StateType
  <2> QED BY <1>1, <1>2, <2>1, WithType
<1>5. ss \in Maps(Nat, Results)
  <2>1. t.signals \in Maps(Nat, Results) /\ <<>> \in Results
    BY StateType DEF Results
  <2> QED BY <1>1, <2>1, WithType
<1>6. r \in Request
  <2>1. op.type \in Types
    BY DEF Op
  <2> HIDE DEF job
  <2> QED BY <1>1, <1>2, <2>1, InitialRequestType DEF Request, FirstRequest
<1>7. t.requests \union {r} \in SUBSET Request
  BY <1>6, StateType
<1>8. r = [id |-> n, type |-> InitialRequest(op.type), offset |-> 0, chunk |-> 0]
  BY <1>2 DEF FirstRequest
<1>9. u = [t EXCEPT !.nextJobId = n, !.signals = ss, !.jobs = jj, !.ops = oo,
                    !.requests = t.requests \union {r}]
  <2>1. NewId(t) = [t EXCEPT !.nextJobId = n, !.signals = ss]
    BY DEF NewId
  <2>2. NewId(t).nextJobId = n
    BY <2>1 DEF State
  <2>3. Insert(NewId(t), n, n) =
            [t EXCEPT !.nextJobId = n, !.signals = ss, !.jobs = jj]
    BY <2>1 DEF Insert, State
  <2> DEFINE v == Insert(NewId(t), n, n)
             w == [v EXCEPT !.ops = oo]
  <2>4. v.ops = t.ops
    BY <2>3 DEF State
  <2>5. u = Send(w, n, InitialRequest(op.type))
    BY <2>2, <2>4 DEF CreateJob, New
  <2>6. u = [w EXCEPT !.requests = w.requests \union {r}]
    BY <1>8, <2>5 DEF Send, SendData
  <2> HIDE DEF r, ss, jj, oo, u
  <2> QED BY <2>3, <2>6 DEF State
<1> HIDE DEF u, job, r, jj, oo, ss
<1>10. Creates(t, u, job, n)
  <2>1. /\ u.nextJobId = n /\ u.signals = ss /\ u.jobs = jj /\ u.ops = oo
        /\ u.requests = t.requests \union {r} /\ u.uploadDirs = t.uploadDirs
        /\ u \in State
    BY <1>1, <1>3, <1>4, <1>5, <1>7, <1>9 DEF State
  <2> QED BY <2>1 DEF Creates, jj, oo, ss, r
<1> QED
  BY <1>10 DEF u, job

Created(t, u, job, n, X) ==
    /\ Plain(u) /\ OneEach(DOMAIN u.jobs \ X, u.requests)
    /\ u.nextJobId = n /\ n \in Nat /\ t.nextJobId <= n
    /\ n \notin 1..t.nextJobId /\ 1..n = (1..t.nextJobId) \union {n}
    /\ u.uploadDirs = t.uploadDirs
    /\ n \notin DOMAIN t.ops /\ DOMAIN u.ops = DOMAIN t.ops \union {n}
    /\ u.ops[n] = job /\ \A o \in DOMAIN t.ops : u.ops[o] = t.ops[o]
    /\ Ids(u, n) = {n} /\ Sent(u, n) = {FirstRequest(job, n)}
    /\ \A o \in DOMAIN t.ops : Ids(u, o) = Ids(t, o) /\ Sent(u, o) = Sent(t, o)
    /\ \A i \in X : u.jobs[i] = t.jobs[i]
    /\ \A i \in 1..t.nextJobId : u.signals[i] = t.signals[i]
    /\ u.signals[n] = <<>>

LEMMA CreatesFacts ==
    ASSUME NEW t, NEW u, NEW job, NEW n, NEW X,
           Plain(t), OneEach(DOMAIN t.jobs \ X, t.requests),
           X \subseteq DOMAIN t.jobs, Creates(t, u, job, n),
           job.parent \in {0} \union DOMAIN t.uploadDirs
    PROVE  Created(t, u, job, n, X)
<1> DEFINE r == FirstRequest(job, n)
<1>1. /\ u \in State /\ n = t.nextJobId + 1 /\ u.nextJobId = n
      /\ u.requests = t.requests \union {r} /\ u.uploadDirs = t.uploadDirs
      /\ r.id = n
  BY DEF Creates, FirstRequest
<1>2. /\ DOMAIN u.ops = DOMAIN t.ops \union {n} /\ u.ops[n] = job
      /\ \A o \in DOMAIN t.ops : o # n => u.ops[o] = t.ops[o]
      /\ DOMAIN u.jobs = DOMAIN t.jobs \union {n} /\ u.jobs[n] = n
      /\ \A i \in DOMAIN t.jobs : i # n => u.jobs[i] = t.jobs[i]
      /\ DOMAIN u.signals = DOMAIN t.signals \union {n} /\ u.signals[n] = <<>>
      /\ \A i \in DOMAIN t.signals : i # n => u.signals[i] = t.signals[i]
  <2>1. u.ops = With(t.ops, n, job)
    BY DEF Creates
  <2>2. u.jobs = With(t.jobs, n, n)
    BY DEF Creates
  <2>3. u.signals = With(t.signals, n, <<>>)
    BY DEF Creates
  <2>4. /\ DOMAIN u.ops = DOMAIN t.ops \union {n} /\ u.ops[n] = job
        /\ \A o \in DOMAIN t.ops : o # n => u.ops[o] = t.ops[o]
    BY <2>1 DEF With
  <2>5. /\ DOMAIN u.jobs = DOMAIN t.jobs \union {n} /\ u.jobs[n] = n
        /\ \A i \in DOMAIN t.jobs : i # n => u.jobs[i] = t.jobs[i]
    BY <2>2 DEF With
  <2>6. /\ DOMAIN u.signals = DOMAIN t.signals \union {n} /\ u.signals[n] = <<>>
        /\ \A i \in DOMAIN t.signals : i # n => u.signals[i] = t.signals[i]
    BY <2>3 DEF With
  <2> QED BY <2>4, <2>5, <2>6
<1>3. /\ t.nextJobId \in Nat /\ n \in Nat /\ n \notin 1..t.nextJobId
      /\ 1..n = (1..t.nextJobId) \union {n} /\ t.nextJobId <= n
  <2>1. t.nextJobId \in Nat
    BY StateType DEF Plain
  <2> QED BY <1>1, <2>1
<1>4. /\ n \notin DOMAIN t.ops /\ n \notin DOMAIN t.jobs
      /\ n \notin DOMAIN t.signals /\ n \notin DOMAIN t.uploadDirs
      /\ \A i \in DOMAIN t.jobs : t.jobs[i] \in DOMAIN t.ops
      /\ DOMAIN t.signals = 1..t.nextJobId
  BY <1>3 DEF Plain
<1> HIDE DEF r
<1>5. OneEach(DOMAIN u.jobs \ X, u.requests)
  <2>1. n \notin X /\ \A x \in t.requests : x.id \in DOMAIN t.jobs \ X
    BY <1>4 DEF OneEach
  <2>2. DOMAIN u.jobs \ X = (DOMAIN t.jobs \ X) \union {n}
    BY <1>2, <2>1
  <2> QED BY <1>1, <1>4, <2>1, <2>2 DEF OneEach
<1>6. Plain(u)
  <2>1. /\ DOMAIN u.signals = 1..u.nextJobId
        /\ DOMAIN u.ops \subseteq 1..u.nextJobId
        /\ DOMAIN u.jobs \subseteq 1..u.nextJobId
        /\ DOMAIN u.uploadDirs \subseteq (1..u.nextJobId) \ DOMAIN u.ops
    BY <1>1, <1>2, <1>3, <1>4 DEF Plain
  <2>2. \A i \in DOMAIN u.jobs : u.jobs[i] \in DOMAIN u.ops
    BY <1>2, <1>4
  <2>3. \A op \in DOMAIN u.ops :
           u.ops[op].parent \in {0} \union DOMAIN u.uploadDirs
    BY <1>1, <1>2, <1>4 DEF Plain
  <2> QED BY <1>1, <2>1, <2>2, <2>3 DEF Plain
<1>7. /\ Ids(u, n) = {n}
      /\ \A o \in DOMAIN t.ops : Ids(u, o) = Ids(t, o)
  BY <1>2, <1>4 DEF Ids
<1>8. \A x \in t.requests : x.id # n
  BY <1>4 DEF OneEach
<1>9. /\ Sent(u, n) = {r}
      /\ \A o \in DOMAIN t.ops : Sent(u, o) = Sent(t, o)
  <2>1. Sent(u, n) = {r}
    BY <1>1, <1>7, <1>8 DEF Sent
  <2>2. ASSUME NEW o \in DOMAIN t.ops PROVE Sent(u, o) = Sent(t, o)
    <3>1. n \notin Ids(u, o)
      BY <1>2, <1>4 DEF Ids
    <3> QED BY <1>1, <1>7, <3>1 DEF Sent
  <2> QED BY <2>1, <2>2
<1>10. /\ \A o \in DOMAIN t.ops : u.ops[o] = t.ops[o]
       /\ \A i \in 1..t.nextJobId : u.signals[i] = t.signals[i]
       /\ \A i \in X : u.jobs[i] = t.jobs[i]
  BY <1>2, <1>3, <1>4
<1> QED
  BY <1>1, <1>2, <1>3, <1>4, <1>5, <1>6, <1>7, <1>9, <1>10 DEF Created, r

(* A new operation requests what it is about.                              *)
Startable(op) ==
    op \in Op /\ Shape(op) /\ Fresh(op) /\ ~op.statRequested

LEMMA NewOpInv ==
    ASSUME NEW op, Startable(op), NEW n
    PROVE  OpInv(New(op), n, {n}, {FirstRequest(New(op), n)}, <<>>)
<1> DEFINE job == New(op)
           Q == {FirstRequest(job, n)}
<1>1. /\ job \in Op /\ job.type = op.type
      /\ job.hasError = op.hasError /\ job.parent = op.parent
      /\ job.append = op.append /\ job.fileSize = op.fileSize
      /\ job.offset = op.offset /\ job.position = op.position
      /\ job.statRequested = op.statRequested
      /\ job.readable = op.readable /\ job.unreadable = op.unreadable
      /\ job.contents = op.contents /\ job.inFlightCount = op.inFlightCount
      /\ job.state = IF job.type \in WithHandle THEN "OpenRequested"
                     ELSE "Inactive"
  BY NewFields DEF Startable
<1>2. Only(n, InitialRequest(job.type), {n}, Q)
  BY DEF Only, FirstRequest
<1> HIDE DEF job, Q
<1>3. Requesting(job, n, {n}, Q)
  BY <1>1, <1>2 DEF Requesting, Fresh, Startable
<1>4. Shape(job) /\ Result(job) = <<>>
  BY <1>1 DEF Shape, Startable, Fresh, Result
<1>5. OpInv(job, n, {n}, Q, <<>>)
  BY <1>3, <1>4, ReportedResult DEF OpInv, Stage
<1> QED
  BY <1>5 DEF job, Q
----------------------------------------------------------------------------
(* What is started.                                                        *)
LEMMA OperationType ==
    ASSUME NEW type \in Types, NEW d \in Nat
    PROVE  /\ Startable(Operation(type)) /\ Operation(type).parent = 0
           /\ Operation(type).type = type
           /\ Startable([Operation("MakeDir") EXCEPT !.parent = d])
           /\ [Operation("MakeDir") EXCEPT !.parent = d].parent = d
           /\ [Operation("MakeDir") EXCEPT !.parent = d].type = "MakeDir"
<1>1. NoMap \in Maps(Nat, Nat)
  BY NoMapType
<1>2. Operation(type) \in Op
  BY <1>1 DEF Operation, Op, SftpInvalidJob
<1>3. /\ Operation(type).type = type /\ Operation(type).parent = 0
      /\ ~Operation(type).append /\ ~Operation(type).hasError
      /\ Operation(type).offset = 0 /\ Operation(type).position = 0
      /\ Operation(type).contents = {} /\ ~Operation(type).statRequested
      /\ Operation(type).readable = Operation(type).fileSize
      /\ ~Operation(type).unreadable /\ Operation(type).inFlightCount = 0
  BY DEF Operation
<1>4. Startable(Operation(type))
  BY <1>2, <1>3 DEF Startable, Shape, Fresh
<1> DEFINE new == [Operation("MakeDir") EXCEPT !.parent = d]
<1>5. new \in Op
  <2>1. Operation("MakeDir") \in Op
    BY <1>1 DEF Operation, Op, Types, SftpInvalidJob
  <2> QED BY <2>1 DEF Op
<1>6. /\ new.type = "MakeDir" /\ new.parent = d
      /\ ~new.append /\ ~new.hasError
      /\ new.offset = 0 /\ new.position = 0
      /\ new.contents = {} /\ ~new.statRequested /\ new.inFlightCount = 0
  BY DEF Operation
<1> HIDE DEF new
<1>7. Startable(new)
  BY <1>5, <1>6 DEF Startable, Shape, Fresh
<1> QED
  BY <1>3, <1>4, <1>6, <1>7 DEF new

LEMMA UploadType ==
    ASSUME FilesAreWhole, NEW f \in LocalFiles, NEW append \in BOOLEAN,
           NEW d \in Nat, d # 0 => ~append
    PROVE  /\ f.opens /\ Startable(UploadOf(f, append, d))
           /\ UploadOf(f, append, d).parent = d
           /\ UploadOf(f, append, d).type = "UploadFile"
<1>3. f.opens /\ f.size \in Nat /\ f.readable = f.size /\ f.unreadable = FALSE
  <2>1. f \in [size : Nat, readable : Nat, unreadable : BOOLEAN,
               opens : BOOLEAN]
    BY LocalFilesAssumption
  <2> QED BY <2>1 DEF FilesAreWhole
<1> DEFINE new == UploadOf(f, append, d)
<1>4. NoMap \in Maps(Nat, Nat)
  BY NoMapType
<1>5. new \in Op
  <2> DEFINE o == Operation("UploadFile")
             u == f.unreadable
             n == f.size
             k == f.readable
  <2>1. o \in Op
    BY <1>4 DEF Operation, Op, Types, SftpInvalidJob
  <2>2. new = [o EXCEPT !.append = append, !.parent = d, !.fileSize = n,
                        !.readable = k, !.unreadable = u]
    BY DEF UploadOf
  <2>3. n \in Nat /\ k \in Nat /\ u \in BOOLEAN
    BY <1>3
  <2> HIDE DEF o, n, k, u, new
  <2> QED BY <2>1, <2>2, <2>3 DEF Op
<1>6. /\ new.type = "UploadFile" /\ new.parent = d
      /\ new.append = append /\ ~new.hasError
      /\ new.offset = 0 /\ new.position = 0
      /\ new.contents = {} /\ ~new.statRequested
      /\ new.readable = new.fileSize /\ ~new.unreadable
      /\ new.inFlightCount = 0
  BY <1>3 DEF UploadOf, Operation
<1> HIDE DEF new
<1>7. Startable(new)
  BY <1>5, <1>6 DEF Startable, Shape, Fresh
<1> QED
  BY <1>3, <1>6, <1>7 DEF new

(* A directory that is left alone.                                         *)
Kept(p, t, d) ==
    /\ d \in DOMAIN p.uploadDirs /\ d + 1 \in DOMAIN p.ops
    /\ t.uploadDirs[d] = p.uploadDirs[d] /\ t.signals[d] = p.signals[d]
    /\ Kids(t, d) = Kids(p, d)
    /\ \A o \in Kids(p, d) : /\ t.ops[o].type = p.ops[o].type
                             /\ ((Ids(t, o) = {}) <=> (Ids(p, o) = {}))

LEMMA SameDir ==
    ASSUME NEW p, NEW t, NEW d, DirInv(p, d), Kept(p, t, d)
    PROVE  DirInv(t, d)
<1>1. /\ t.uploadDirs[d] = p.uploadDirs[d] /\ t.signals[d] = p.signals[d]
      /\ Kids(t, d) = Kids(p, d)
  BY DEF Kept
<1>2. \A o \in Kids(p, d) : t.ops[o].type = p.ops[o].type
  BY DEF Kept
<1>3. \A o \in Kids(p, d) : (Ids(t, o) = {}) <=> (Ids(p, o) = {})
  BY DEF Kept
<1>4. FilesIn(t, d) = FilesIn(p, d) /\ DirsIn(t, d) = DirsIn(p, d)
  BY <1>1, <1>2 DEF FilesIn, DirsIn
<1>5. FilesIn(p, d) \subseteq Kids(p, d) /\ DirsIn(p, d) \subseteq Kids(p, d)
  BY DEF FilesIn, DirsIn
<1>6. {f \in FilesIn(t, d) : Ids(t, f) # {}} =
          {f \in FilesIn(p, d) : Ids(p, f) # {}}
  BY <1>3, <1>4, <1>5
<1>7. \A o \in DirsIn(p, d) : (Ids(t, o) = {}) <=> (Ids(p, o) = {})
  BY <1>3, <1>5
<1>8. d + 1 \in Kids(p, d)
  BY <1>5 DEF DirInv
<1>9. Refused(p, d) => Refused(t, d)
  BY <1>1, <1>3, <1>8 DEF Refused
<1>10. AtLevel(p, d) => AtLevel(t, d)
  BY <1>1, <1>4, <1>7 DEF AtLevel
<1>11. AllCreated(p, d) => AllCreated(t, d)
  BY <1>1, <1>4, <1>7 DEF AllCreated
<1> QED
  BY <1>1, <1>4, <1>6, <1>9, <1>10, <1>11 DEF DirInv

(* The user starts an operation.                                           *)
LEMMA Started ==
    ASSUME NEW p, NEW t, NEW op, NEW n, Good(p), Startable(op), op.parent = 0,
           n = p.nextJobId + 1, t = CreateJob(p, op)
    PROVE  Good(t) /\ Created(p, t, New(op), n, {})
<1>1. p \in State /\ op \in Op
  BY DEF Good, Wired, Plain, Startable
<1>2. New(op).parent = 0
  BY <1>1, NewFields
<1>3. Creates(p, t, New(op), n)
  BY <1>1, CreateIs
<1>4. OneEach(DOMAIN p.jobs \ {}, p.requests) /\ Plain(p)
  <2>1. OneEach(DOMAIN p.jobs, p.requests) /\ DOMAIN p.jobs \ {} = DOMAIN p.jobs
    BY DEF Good, Wired
  <2> QED BY <2>1 DEF Good, Wired
<1>5. Created(p, t, New(op), n, {})
  BY <1>2, <1>3, <1>4, CreatesFacts
<1> DEFINE job == New(op)
<1>6. OpInv(job, n, {n}, {FirstRequest(job, n)}, <<>>)
  BY NewOpInv
<1>7. /\ Plain(t) /\ OneEach(DOMAIN t.jobs, t.requests)
      /\ n \notin DOMAIN p.ops /\ DOMAIN t.ops = DOMAIN p.ops \union {n}
      /\ t.ops[n] = job /\ \A o \in DOMAIN p.ops : t.ops[o] = p.ops[o]
      /\ Ids(t, n) = {n} /\ Sent(t, n) = {FirstRequest(job, n)}
      /\ \A o \in DOMAIN p.ops : Ids(t, o) = Ids(p, o) /\ Sent(t, o) = Sent(p, o)
      /\ \A i \in 1..p.nextJobId : t.signals[i] = p.signals[i]
      /\ t.signals[n] = <<>> /\ t.uploadDirs = p.uploadDirs
  <2>1. DOMAIN t.jobs \ {} = DOMAIN t.jobs
    OBVIOUS
  <2> QED BY <1>5, <2>1 DEF Created
<1> HIDE DEF job
<1>8. \A o \in DOMAIN p.ops : o \in 1..p.nextJobId
  BY <1>4 DEF Plain
<1>9. OpsInv(t)
  BY <1>6, <1>7, <1>8 DEF OpsInv, Good
<1>10. ASSUME NEW d \in DOMAIN p.uploadDirs
       PROVE  DirInv(t, d)
  <2>1. d \in 1..p.nextJobId /\ d # 0 /\ DirInv(p, d)
    BY <1>4 DEF Plain, Good, DirsInv
  <2>2. Kids(t, d) = Kids(p, d)
    BY <1>2, <1>7, <2>1 DEF Kids, job
  <2>3. \A o \in Kids(p, d) : /\ t.ops[o].type = p.ops[o].type
                              /\ (Ids(t, o) = {}) <=> (Ids(p, o) = {})
    BY <1>7 DEF Kids
  <2>4. d + 1 \in DOMAIN p.ops
    BY <2>1 DEF DirInv, DirsIn, Kids
  <2>5. Kept(p, t, d)
    BY <1>7, <2>1, <2>2, <2>3, <2>4 DEF Kept
  <2> QED BY <2>1, <2>5, SameDir
<1> QED
  BY <1>5, <1>7, <1>9, <1>10 DEF Good, Wired, DirsInv
----------------------------------------------------------------------------
(* What is known after any answer to a request q of op.                    *)
Ends(p, t) ==
    \/ \A i \in 1..p.nextJobId : t.signals[i] = p.signals[i]
    \/ \E x \in 1..p.nextJobId, end \in {"ok", "failed"} :
          /\ \/ x \in DOMAIN p.uploadDirs
             \/ x \in DOMAIN p.ops /\ p.ops[x].parent = 0
          /\ p.signals[x] = <<>> /\ t.signals[x] = <<end>>
          /\ \A i \in 1..p.nextJobId : i # x => t.signals[i] = p.signals[i]

Answered(p, t, q, op) ==
    /\ Good(t)
    /\ DOMAIN p.ops \subseteq DOMAIN t.ops
    /\ DOMAIN t.uploadDirs = DOMAIN p.uploadDirs
    /\ p.nextJobId <= t.nextJobId
    /\ \A o \in DOMAIN p.ops : t.ops[o].parent = p.ops[o].parent
    /\ \A o \in DOMAIN t.ops \ DOMAIN p.ops : t.ops[o].parent # 0
    /\ \A o \in DOMAIN p.ops : o # op => /\ Ids(t, o) = Ids(p, o)
                                         /\ Sent(t, o) = Sent(p, o)
    /\ \A r \in Sent(t, op) : r.type \in OnHandles
    /\ Ids(t, op) = {} => q.type \notin Lasting \/ Unsized(t.ops[op])
    /\ \A o \in DOMAIN p.ops : o # op => t.ops[o] = p.ops[o]
    /\ q.id \in DOMAIN t.jobs => t.jobs[q.id] = op
    /\ Ends(p, t)
    /\ \A i \in (1..t.nextJobId) \ (1..p.nextJobId) : t.signals[i] = <<>>

LEMMA SettledAnswered ==
    ASSUME NEW p, NEW t, NEW q, NEW op, Good(p), Of(p, q, op),
           Settled(p, t, q, op)
    PROVE  Answered(p, t, q, op)
<1>1. /\ Moves(p, t, op) /\ Good(t) /\ Wired(p)
      /\ \A r \in Sent(t, op) : r.type \in OnHandles
      /\ Ids(t, op) = {} => q.type \notin Lasting \/ Unsized(t.ops[op])
      /\ Reports(p.signals[op], t.signals[op], p.ops[op].parent)
  BY SettledGood DEF Settled, Good
<1>2. op \in DOMAIN p.ops /\ op \in 1..p.nextJobId
  BY <1>1, WiredFacts DEF Of
<1>3. Ends(p, t)
  <2>1. \A i \in 1..p.nextJobId : i # op => t.signals[i] = p.signals[i]
    BY <1>1 DEF Moves
  <2>2. CASE t.signals[op] = p.signals[op]
    BY <2>1, <2>2 DEF Ends
  <2>3. CASE t.signals[op] # p.signals[op]
    <3>1. /\ p.ops[op].parent = 0 /\ p.signals[op] = <<>>
          /\ \E end \in {"ok", "failed"} : t.signals[op] = <<end>>
      BY <1>1, <2>3 DEF Reports
    <3> QED BY <1>2, <2>1, <3>1 DEF Ends
  <2> QED BY <2>2, <2>3
<1>4. q.id \in DOMAIN t.jobs => t.jobs[q.id] = op
  <2>1. ASSUME q.id \in DOMAIN t.jobs, t.jobs[q.id] # op
        PROVE  FALSE
    <3> DEFINE o == t.jobs[q.id]
    <3>1. o \in DOMAIN p.ops /\ q.id \in Ids(t, o)
      BY <1>1, <2>1 DEF Moves, Wired, Plain, Ids
    <3>2. q.id \in Ids(p, o)
      BY <1>1, <2>1, <3>1 DEF Moves
    <3> QED BY <2>1, <3>2 DEF Ids, Of
  <2> QED BY <2>1
<1> QED
  BY <1>1, <1>3, <1>4 DEF Answered, Moves

(* The last request of a part of a directory is answered, and what is      *)
(* known of the directory changes.                                         *)
Drops(p, t, q, d, dir, sig) ==
    /\ t \in State /\ t.ops = p.ops /\ t.nextJobId = p.nextJobId
    /\ t.jobs = Without(p.jobs, q.id)
    /\ t.requests = p.requests \ {q}
    /\ t.uploadDirs = [p.uploadDirs EXCEPT ![d] = dir]
    /\ t.signals = [p.signals EXCEPT ![d] = sig]

(* The operation q is about, a part of the directory d.                    *)
Part(p, q, op, d) ==
    /\ Of(p, q, op) /\ Alone(p, q, op)
    /\ d \in DOMAIN p.uploadDirs /\ p.ops[op].parent = d

LEMMA PartFacts ==
    ASSUME NEW p, NEW q, NEW op, NEW d, Good(p), Part(p, q, op, d)
    PROVE  /\ p \in State /\ Wired(p) /\ d \in Nat /\ d # 0
           /\ d \in DOMAIN p.signals /\ d \in 1..p.nextJobId /\ d # op
           /\ d \notin DOMAIN p.ops
           /\ p.uploadDirs[d] \in Dir /\ p.signals[d] \in Results
           /\ DirInv(p, d) /\ op \in Kids(p, d) /\ Ids(p, op) # {}
           /\ op \in DOMAIN p.ops
  BY StateType DEF Part, Of, Good, Wired, Plain, DirsInv, Kids, Ids

LEMMA DropsIs ==
    ASSUME NEW p, NEW q, NEW op, NEW d, Good(p), Part(p, q, op, d),
           NEW dir \in Dir, NEW sig \in Results, NEW u,
           u = [Less(p, q) EXCEPT
                   !.uploadDirs = [p.uploadDirs EXCEPT ![d] = dir],
                   !.signals = [p.signals EXCEPT ![d] = sig]]
    PROVE  Drops(p, Erase(u, q.id), q, d, dir, sig)
<1> DEFINE uu == [p.uploadDirs EXCEPT ![d] = dir]
           ss == [p.signals EXCEPT ![d] = sig]
           jj == Without(p.jobs, q.id)
           t == Erase(u, q.id)
<1>1. /\ p \in State /\ d \in DOMAIN p.uploadDirs /\ d \in DOMAIN p.signals
  BY PartFacts DEF Part
<1>2. uu \in Maps(Nat, Dir) /\ ss \in Maps(Nat, Results) /\ jj \in Maps(Nat, Nat)
  <2>1. /\ p.uploadDirs \in Maps(Nat, Dir) /\ p.signals \in Maps(Nat, Results)
        /\ p.jobs \in Maps(Nat, Nat)
    BY <1>1, StateType
  <2> QED BY <1>1, <2>1, MapExcept, MapWithout
<1>3. Less(p, q) = [p EXCEPT !.requests = p.requests \ {q}]
  BY DEF Less
<1>4. u = [p EXCEPT !.requests = p.requests \ {q}, !.uploadDirs = uu,
                    !.signals = ss]
  <2> HIDE DEF uu, ss
  <2> QED BY <1>1, <1>3 DEF State, uu, ss
<1>5. u.jobs = p.jobs
  BY <1>1, <1>4 DEF State
<1>6. t = [u EXCEPT !.jobs = jj]
  BY <1>5 DEF Erase
<1>7. p.requests \ {q} \in SUBSET Request
  BY <1>1, StateType
<1> HIDE DEF uu, ss, jj, t
<1>8. /\ t \in State /\ t.ops = p.ops /\ t.nextJobId = p.nextJobId
      /\ t.jobs = jj /\ t.requests = p.requests \ {q}
      /\ t.uploadDirs = uu /\ t.signals = ss
  BY <1>1, <1>2, <1>4, <1>6, <1>7 DEF State
<1> QED
  BY <1>8 DEF Drops, uu, ss, jj, t

LEMMA DropsFacts ==
    ASSUME NEW p, NEW t, NEW q, NEW op, NEW d, NEW dir, NEW sig,
           Good(p), Part(p, q, op, d), Drops(p, t, q, d, dir, sig)
    PROVE  /\ Wired(t) /\ Ids(t, op) = {} /\ Sent(t, op) = {}
           /\ \A o \in DOMAIN p.ops : o # op => /\ Ids(t, o) = Ids(p, o)
                                                /\ Sent(t, o) = Sent(p, o)
           /\ t.uploadDirs[d] = dir /\ t.signals[d] = sig
           /\ DOMAIN t.uploadDirs = DOMAIN p.uploadDirs
           /\ \A i \in 1..p.nextJobId : i # d => t.signals[i] = p.signals[i]
           /\ Kids(t, d) = Kids(p, d) /\ FilesIn(t, d) = FilesIn(p, d)
           /\ DirsIn(t, d) = DirsIn(p, d)
<1>1. /\ t \in State /\ t.ops = p.ops /\ t.nextJobId = p.nextJobId
      /\ t.requests = p.requests \ {q}
      /\ DOMAIN t.jobs = DOMAIN p.jobs \ {q.id}
      /\ \A i \in DOMAIN t.jobs : t.jobs[i] = p.jobs[i]
  BY DEF Drops, Without
<1>2. /\ p \in State /\ q \in p.requests /\ q.id \in DOMAIN p.jobs
      /\ p.jobs[q.id] = op /\ op \in DOMAIN p.ops /\ Wired(p)
      /\ Ids(p, op) = {q.id} /\ Sent(p, op) = {q}
      /\ d \in DOMAIN p.uploadDirs /\ d \in DOMAIN p.signals
  BY PartFacts DEF Of, Part, Alone
<1>3. /\ DOMAIN t.uploadDirs = DOMAIN p.uploadDirs
      /\ DOMAIN t.signals = DOMAIN p.signals
      /\ t.uploadDirs[d] = dir /\ t.signals[d] = sig
      /\ \A i \in DOMAIN p.signals : i # d => t.signals[i] = p.signals[i]
  BY <1>2 DEF Drops
<1>4. OneEach(DOMAIN t.jobs, t.requests)
  BY <1>1, <1>2 DEF Wired, OneEach
<1>5. Plain(t)
  BY <1>1, <1>2, <1>3 DEF Wired, Plain
<1>6. /\ Ids(t, op) = {} /\ \A o : o # op => Ids(t, o) = Ids(p, o)
  BY <1>1, <1>2 DEF Ids
<1>7. \A o \in DOMAIN p.ops : o # op => Sent(t, o) = Sent(p, o)
  BY <1>1, <1>2, <1>6 DEF Sent, Ids
<1>8. Sent(t, op) = {}
  BY <1>6 DEF Sent
<1>9. DOMAIN p.signals = 1..p.nextJobId
  BY <1>2 DEF Wired, Plain
<1>10. /\ Kids(t, d) = Kids(p, d) /\ FilesIn(t, d) = FilesIn(p, d)
       /\ DirsIn(t, d) = DirsIn(p, d)
  BY <1>1 DEF Kids, FilesIn, DirsIn
<1> QED
  BY <1>3, <1>4, <1>5, <1>6, <1>7, <1>8, <1>9, <1>10 DEF Wired

LEMMA DropsAnswered ==
    ASSUME NEW p, NEW t, NEW q, NEW op, NEW d, NEW dir, NEW sig,
           Good(p), Part(p, q, op, d), Drops(p, t, q, d, dir, sig),
           q.type \notin Lasting, DirInv(t, d),
           p.ops[op].type = "UploadFile" => CompleteJob(p.ops[op]),
           Reports(p.signals[d], sig, 0)
    PROVE  Answered(p, t, q, op)
<1>1. /\ Wired(t) /\ Ids(t, op) = {} /\ Sent(t, op) = {}
      /\ \A o \in DOMAIN p.ops : o # op => /\ Ids(t, o) = Ids(p, o)
                                           /\ Sent(t, o) = Sent(p, o)
      /\ t.uploadDirs[d] = dir /\ t.signals[d] = sig
      /\ DOMAIN t.uploadDirs = DOMAIN p.uploadDirs
      /\ \A i \in 1..p.nextJobId : i # d => t.signals[i] = p.signals[i]
  BY DropsFacts
<1>2. /\ d \in 1..p.nextJobId /\ d # op /\ d # 0 /\ op \in DOMAIN p.ops
      /\ d \notin DOMAIN p.ops /\ Wired(p) /\ d \in DOMAIN p.uploadDirs
      /\ p.nextJobId \in Nat
  BY PartFacts, StateType DEF Part
<1>3. t.ops = p.ops /\ t.nextJobId = p.nextJobId
  BY DEF Drops
<1>4. \A o \in DOMAIN p.ops : o # d /\ t.signals[o] = p.signals[o]
  BY <1>1, <1>2, WiredFacts
<1>5. OpInv(p.ops[op], op, {}, {}, t.signals[op])
  <2>1. /\ OpInv(p.ops[op], op, Ids(p, op), Sent(p, op), p.signals[op])
        /\ p.ops[op].parent # 0
    BY <1>2 DEF Good, OpsInv, Part
  <2>2. Shape(p.ops[op]) /\ t.signals[op] = <<>>
    BY <1>2, <1>4, <2>1 DEF OpInv, Reported
  <2>3. Reported(p.ops[op], {}, <<>>)
    BY <2>1 DEF Reported, Range
  <2> QED BY <2>2, <2>3 DEF OpInv
<1>6. OpsInv(t)
  BY <1>1, <1>3, <1>4, <1>5 DEF OpsInv, Good
<1>7. Good(t)
  <2>1. DOMAIN t.uploadDirs = {d}
    BY <1>1, <1>2 DEF Wired, Plain
  <2> QED BY <1>1, <1>6, <2>1 DEF Good, DirsInv
<1>8. Ends(p, t)
  <2>1. CASE sig = p.signals[d]
    BY <1>1, <2>1 DEF Ends
  <2>2. CASE sig # p.signals[d]
    <3>1. p.signals[d] = <<>> /\ \E end \in {"ok", "failed"} : sig = <<end>>
      BY <2>2 DEF Reports
    <3> QED BY <1>1, <1>2, <3>1 DEF Ends
  <2> QED BY <2>1, <2>2
<1>9. q.id \notin DOMAIN t.jobs
  BY DEF Drops, Without
<1> QED
  BY <1>1, <1>2, <1>3, <1>7, <1>8, <1>9 DEF Answered
LEMMA LessIs ==
    ASSUME NEW p, NEW q, NEW op, Of(p, q, op)
    PROVE  LET s == Less(p, q)
           IN  /\ s \in State /\ s.jobs[q.id] = op /\ s.ops = p.ops
               /\ s.uploadDirs = p.uploadDirs /\ s.signals = p.signals
               /\ s.nextJobId = p.nextJobId /\ s.jobs = p.jobs
               /\ s.requests = p.requests \ {q}
<1>1. p.requests \ {q} \in SUBSET Request /\ p \in State
  BY StateType DEF Of
<1> QED
  BY <1>1 DEF Less, State, Of

(* The last answer about a file in a directory: its handle is closed.      *)
LEMMA ChildClosed ==
    ASSUME NEW p, NEW q, NEW op, NEW d, Good(p), Of(p, q, op),
           q.type = "CLOSE", p.ops[op].type = "UploadFile",
           p.ops[op].parent = d, d # 0
    PROVE  Answered(p, HandleStatus(Less(p, q), q.id, "OK"), q, op)
<1> DEFINE job == p.ops[op]
           old == p.uploadDirs[d]
           dir == [old EXCEPT !.uploads = @ \ {op}]
           s == Less(p, q)
           rest == [s EXCEPT !.uploadDirs[d].uploads = @ \ {op}]
           last == dir.mkdirs = NoMap /\ dir.uploads = {}
           sig == IF last THEN <<"ok">> ELSE <<>>
<1>1. /\ Closing(job, Ids(p, op), Sent(p, op)) /\ Alone(p, q, op)
      /\ OpInv(job, op, Ids(p, op), Sent(p, op), p.signals[op])
      /\ Shape(job)
  BY StageOf DEF Requesting, Listing, Creating, Asking, Moving, InitialRequest,
                 OpInv
<1>2. ~job.hasError /\ CompleteJob(job) /\ job.state = "CloseRequested"
  BY <1>1 DEF Shape, Closing
<1>3. /\ d \in DOMAIN p.uploadDirs /\ ~old.hasError /\ op # d + 1
      /\ op \in FilesIn(p, d)
  BY NoParentError DEF Of
<1>4. Part(p, q, op, d)
  BY <1>1, <1>3 DEF Part
<1>5. /\ p \in State /\ old \in Dir /\ d \in DOMAIN p.signals /\ DirInv(p, d)
      /\ op \in Kids(p, d) /\ Ids(p, op) # {} /\ d # op
  BY <1>4, PartFacts
<1>6. op \in old.uploads /\ p.signals[d] = <<>> /\ ~Refused(p, d)
  <2>1. op \in old.uploads
    BY <1>3, <1>5 DEF DirInv
  <2> QED BY <1>5, <2>1 DEF DirInv, Refused, AtLevel, AllCreated
<1>7. /\ dir \in Dir /\ dir.uploads = old.uploads \ {op}
      /\ dir.mkdirs = old.mkdirs /\ dir.hasError = old.hasError
      /\ dir.levels = old.levels
  BY <1>5 DEF Dir
<1>8. sig \in Results /\ Reports(p.signals[d], sig, 0)
  <2>1. sig \in {<<>>, <<"ok">>} /\ <<>> \in Results
    BY DEF Results
  <2> HIDE DEF sig
  <2> QED BY <1>6, <2>1, ReportOne DEF Reports
<1>10. /\ s \in State /\ s.jobs[q.id] = op /\ s.ops[op] = job
       /\ s.uploadDirs = p.uploadDirs /\ s.signals = p.signals
  BY LessIs
<1>11. HandleStatus(s, q.id, "OK") =
           Erase(IF last THEN Finished(rest, d, "ok") ELSE rest, q.id)
  <2>1. HandleStatus(s, q.id, "OK") = HandlePutStatus(s, q.id, "OK")
    BY <1>10 DEF HandleStatus
  <2>2. ~ParentHasError(s, op)
    BY <1>3, <1>10 DEF ParentHasError
  <2>3. HandlePutStatus(s, q.id, "OK") = Erase(UploadClosed(s, op, "OK"), q.id)
    <3> HIDE DEF s
    <3> QED BY <1>2, <1>10, <2>2 DEF HandlePutStatus
  <2>4. rest.uploadDirs[d] = dir
    BY <1>3, <1>10 DEF State
  <2>5. UploadClosed(s, op, "OK") = IF last THEN Finished(rest, d, "ok") ELSE rest
    <3> HIDE DEF s, dir
    <3> QED BY <1>10, <2>4 DEF UploadClosed
  <2> QED BY <2>1, <2>3, <2>5
<1> DEFINE u == IF last THEN Finished(rest, d, "ok") ELSE rest
           t == Erase(u, q.id)
<1>12. u = [s EXCEPT !.uploadDirs = [p.uploadDirs EXCEPT ![d] = dir],
                     !.signals = [p.signals EXCEPT ![d] = sig]]
  <2>1. rest = [s EXCEPT !.uploadDirs = [p.uploadDirs EXCEPT ![d] = dir]]
    <3> HIDE DEF s
    <3> QED BY <1>3, <1>10
  <2> DEFINE uu == [p.uploadDirs EXCEPT ![d] = dir]
  <2> HIDE DEF s, rest, uu, dir
  <2>2. CASE last
    <3>1. Finished(rest, d, "ok") = [rest EXCEPT !.signals =
                                        [p.signals EXCEPT ![d] = <<"ok">>]]
      BY <1>5, <1>6, <1>10, <2>1, ReportOne DEF Finished, State
    <3> QED BY <1>10, <2>1, <2>2, <3>1 DEF State, uu
  <2>3. CASE ~last
    <3>1. [p.signals EXCEPT ![d] = <<>>] = p.signals
      BY <1>5, <1>6, StateType
    <3> QED BY <1>10, <2>1, <2>3, <3>1 DEF State, uu
  <2> QED BY <2>2, <2>3
<1> HIDE DEF u, rest, s, dir, sig, last
<1>13. Drops(p, t, q, d, dir, sig)
  BY <1>4, <1>7, <1>8, <1>12, DropsIs DEF s
<1>14. /\ Ids(t, op) = {} /\ t.uploadDirs[d] = dir /\ t.signals[d] = sig
       /\ \A o \in DOMAIN p.ops : o # op => Ids(t, o) = Ids(p, o)
       /\ FilesIn(t, d) = FilesIn(p, d) /\ DirsIn(t, d) = DirsIn(p, d)
       /\ Kids(t, d) = Kids(p, d)
  BY <1>4, <1>13, DropsFacts
<1>15. DirInv(t, d)
  <2>1. /\ FilesIn(p, d) \subseteq DOMAIN p.ops /\ op \notin DirsIn(p, d)
        /\ DirsIn(p, d) \subseteq DOMAIN p.ops
    BY <1>3 DEF FilesIn, DirsIn, Kids
  <2>2. dir.uploads = {f \in FilesIn(t, d) : Ids(t, f) # {}}
    BY <1>3, <1>5, <1>7, <1>14, <2>1 DEF DirInv
  <2>3. \A o \in DirsIn(p, d) : Ids(t, o) = Ids(p, o)
    BY <1>14, <2>1
  <2>4. CASE AtLevel(p, d)
    <3>1. old.mkdirs # NoMap /\ sig = <<>>
      <4>1. \A m, k : With(NoMap, m, k) # NoMap
        BY DEF With, NoMap
      <4>2. old.mkdirs # NoMap
        BY <2>4, <4>1 DEF AtLevel
      <4> QED BY <1>7, <4>2 DEF sig, last
    <3>2. AtLevel(t, d)
      BY <1>7, <1>14, <2>3, <2>4, <3>1 DEF AtLevel
    <3> QED BY <1>5, <1>7, <1>14, <2>2, <3>2 DEF DirInv
  <2>5. CASE AllCreated(p, d)
    <3>1. AllCreated(t, d)
      BY <1>7, <1>14, <2>3, <2>5 DEF AllCreated, sig, last
    <3> QED BY <1>5, <1>7, <1>14, <2>2, <3>1 DEF DirInv
  <2> QED BY <1>5, <1>6, <2>4, <2>5 DEF DirInv
<1>16. q.type \notin Lasting
  BY DEF Lasting
<1>17. Answered(p, t, q, op)
  BY <1>2, <1>4, <1>8, <1>13, <1>15, <1>16, DropsAnswered
<1> QED
  BY <1>11, <1>17 DEF s, u

(* The failure of a part, as a change of what is known of the directory.   *)
FailedDir(dir) == [dir EXCEPT !.hasError = TRUE, !.uploads = {},
                              !.mkdirs = NoMap]

Tainted(s, d) ==
    [s EXCEPT !.uploadDirs =
        [s.uploadDirs EXCEPT ![d] = FailedDir(s.uploadDirs[d])]]

LEMMA ParentErrorIs ==
    ASSUME NEW s \in State, NEW op, NEW d \in DOMAIN s.uploadDirs,
           s.ops[op].parent = d, d # 0
    PROVE  SetParentError(s, op) = Tainted(s, d)
<1> DEFINE old == s.uploadDirs[d]
           v == SetParentError(s, op)
           d1 == [old EXCEPT !.hasError = TRUE]
           d2 == [d1 EXCEPT !.uploads = {}]
           d3 == [d2 EXCEPT !.mkdirs = NoMap]
           v1 == [s EXCEPT !.uploadDirs[d].hasError = TRUE]
           v2 == [v1 EXCEPT !.uploadDirs[d].uploads = {}]
           v3 == [v2 EXCEPT !.uploadDirs[d].mkdirs = NoMap]
<1>1. v = [s EXCEPT !.uploadDirs[d].hasError = TRUE,
                    !.uploadDirs[d].uploads = {},
                    !.uploadDirs[d].mkdirs = NoMap]
  BY DEF SetParentError
<1>2. v = v3
  BY <1>1
<1>3. old \in Dir /\ s.uploadDirs \in [DOMAIN s.uploadDirs -> Dir]
  BY StateType
<1>4. FailedDir(old) = d3
  BY <1>3 DEF FailedDir, Dir
<1> HIDE DEF v, d3, d2, d1, old
<1>5. v1 = [s EXCEPT !.uploadDirs = [s.uploadDirs EXCEPT ![d] = d1]]
  BY <1>3 DEF d1, old
<1> HIDE DEF v1
<1>6. v2 = [s EXCEPT !.uploadDirs = [s.uploadDirs EXCEPT ![d] = d2]]
  <2>1. v1.uploadDirs = [s.uploadDirs EXCEPT ![d] = d1]
    BY <1>5 DEF State
  <2>2. v2 = [v1 EXCEPT !.uploadDirs =
                 [v1.uploadDirs EXCEPT ![d] = [@ EXCEPT !.uploads = {}]]]
    BY DEF v2
  <2>3. v1.uploadDirs[d] = d1
    BY <1>3, <2>1
  <2>4. [v1.uploadDirs EXCEPT ![d] = [@ EXCEPT !.uploads = {}]]
          = [s.uploadDirs EXCEPT ![d] = d2]
    BY <2>1, <2>3 DEF d2
  <2> QED BY <1>5, <2>2, <2>4
<1> HIDE DEF v2
<1>7. v3 = [s EXCEPT !.uploadDirs = [s.uploadDirs EXCEPT ![d] = d3]]
  <2>1. v2.uploadDirs = [s.uploadDirs EXCEPT ![d] = d2]
    BY <1>6 DEF State
  <2>2. v3 = [v2 EXCEPT !.uploadDirs =
                 [v2.uploadDirs EXCEPT ![d] = [@ EXCEPT !.mkdirs = NoMap]]]
    BY DEF v3
  <2>3. v2.uploadDirs[d] = d2
    BY <1>3, <2>1
  <2>4. [v2.uploadDirs EXCEPT ![d] = [@ EXCEPT !.mkdirs = NoMap]]
          = [s.uploadDirs EXCEPT ![d] = d3]
    BY <2>1, <2>3 DEF d3
  <2> QED BY <1>6, <2>2, <2>4
<1> QED
  BY <1>2, <1>4, <1>7 DEF Tainted, v, old

(* The directory itself cannot be created.                                 *)
LEMMA TopRefused ==
    ASSUME NEW p, NEW q, NEW op, NEW d, Good(p), Of(p, q, op),
           q.type = "MKDIR", p.ops[op].parent = d, d # 0, op = d + 1
    PROVE  Answered(p, HandleStatus(Less(p, q), q.id, "DENIED"), q, op)
<1> DEFINE job == p.ops[op]
           old == p.uploadDirs[d]
           dir == FailedDir(old)
           sig == <<"failed">>
           s == Less(p, q)
           u == Finished(SetParentError(s, op), d, "failed")
           t == Erase(u, q.id)
<1>1. /\ Alone(p, q, op) /\ job \in Op /\ q.type = InitialRequest(job.type)
  BY StageOf DEF Listing, Creating, Asking, Moving, Closing
<1>2. job.type = "MakeDir"
  BY <1>1, InitialRequestType DEF Op
<1>3. Part(p, q, op, d)
  BY <1>1 DEF Part, Of, Good, Wired, Plain
<1>4. /\ p \in State /\ old \in Dir /\ d \in DOMAIN p.signals /\ DirInv(p, d)
      /\ op \in Kids(p, d) /\ Ids(p, op) # {} /\ d # op
      /\ d \in DOMAIN p.uploadDirs
  BY <1>3, PartFacts DEF Part
<1>5. op \in DirsIn(p, d)
  BY <1>2, <1>4 DEF DirsIn, FilesIn
<1>6. AtLevel(p, d) /\ Kids(p, d) = {d + 1}
  <2>1. AtLevel(p, d)
    BY <1>4, <1>5 DEF DirInv, Refused, AllCreated
  <2>2. Kids(p, d) = {d + 1}
    BY <1>4, <1>5, <2>1 DEF AtLevel
  <2> QED BY <2>1, <2>2
<1>7. ~old.hasError /\ p.signals[d] = <<>>
  BY <1>6 DEF AtLevel
<1>8. /\ dir \in Dir /\ dir.uploads = {} /\ dir.mkdirs = NoMap
      /\ dir.hasError /\ dir.levels = old.levels
  BY <1>4, NoMapType DEF Dir, FailedDir
<1>9. /\ sig \in Results /\ Reports(p.signals[d], sig, 0)
      /\ Append(<<>>, "failed") = sig
  BY <1>7, ReportOne
<1>11. /\ s \in State /\ s.jobs[q.id] = op /\ s.ops[op] = job
       /\ s.uploadDirs = p.uploadDirs /\ s.signals = p.signals
  BY LessIs
<1>12. HandleStatus(s, q.id, "DENIED") = t
  <2>1. HandleStatus(s, q.id, "DENIED") = HandleMkdirStatus(s, q.id, "DENIED")
    BY <1>2, <1>11 DEF HandleStatus
  <2>2. HandleMkdirStatus(s, q.id, "DENIED") = t
    <3> HIDE DEF s
    <3> QED BY <1>7, <1>11 DEF HandleMkdirStatus
  <2> QED BY <2>1, <2>2
<1>13. u = [s EXCEPT !.uploadDirs = [p.uploadDirs EXCEPT ![d] = dir],
                     !.signals = [p.signals EXCEPT ![d] = sig]]
  <2> DEFINE v == SetParentError(s, op)
             uu == [p.uploadDirs EXCEPT ![d] = dir]
  <2>1. v = [s EXCEPT !.uploadDirs = uu]
    <3>1. v = Tainted(s, d)
      BY <1>4, <1>11, ParentErrorIs, PartFacts, <1>3 DEF Part
    <3> HIDE DEF s, v, dir
    <3> QED BY <1>11, <3>1 DEF Tainted, dir
  <2>3. u = Finished(v, d, "failed")
    OBVIOUS
  <2> HIDE DEF s, uu, dir, v, u
  <2>2. u = [v EXCEPT !.signals = [p.signals EXCEPT ![d] = sig]]
    <3>1. v.signals = p.signals
      BY <1>11, <2>1 DEF State
    <3>2. Append(v.signals[d], "failed") = sig
      BY <1>7, <1>9, <3>1
    <3>3. u = [v EXCEPT !.signals[d] = Append(v.signals[d], "failed")]
      BY <2>3 DEF Finished
    <3> QED BY <3>1, <3>2, <3>3
  <2> QED BY <1>11, <2>1, <2>2 DEF State, uu
<1> HIDE DEF u, s, dir, sig
<1>14. Drops(p, t, q, d, dir, sig)
  BY <1>3, <1>8, <1>9, <1>13, DropsIs DEF s
<1>15. /\ Ids(t, op) = {} /\ t.uploadDirs[d] = dir /\ t.signals[d] = sig
       /\ FilesIn(t, d) = FilesIn(p, d) /\ DirsIn(t, d) = DirsIn(p, d)
       /\ Kids(t, d) = Kids(p, d)
  BY <1>3, <1>14, DropsFacts
<1>16. DirInv(t, d)
  <2>1. FilesIn(p, d) = {}
    BY <1>5, <1>6 DEF FilesIn, DirsIn
  <2>2. Refused(t, d)
    BY <1>6, <1>8, <1>15 DEF Refused, sig
  <2> QED BY <1>4, <1>8, <1>15, <2>1, <2>2 DEF DirInv
<1>17. q.type \notin Lasting
  BY DEF Lasting, OnHandles
<1>18. Answered(p, t, q, op)
  BY <1>2, <1>3, <1>9, <1>14, <1>16, <1>17, DropsAnswered
<1> QED
  BY <1>12, <1>18 DEF s
----------------------------------------------------------------------------
(* A level of a directory exists, and its contents are created: u is p     *)
(* with parts of the directory d that are new, and without the request q   *)
(* of op, the id of which is still in use.                                 *)
Grown(p, u, q, op, d) ==
    /\ Plain(u) /\ OneEach(DOMAIN u.jobs \ {q.id}, u.requests)
    /\ q.id \in DOMAIN u.jobs /\ u.jobs[q.id] = op
    /\ p.nextJobId \in Nat /\ p.nextJobId <= u.nextJobId
    /\ DOMAIN u.uploadDirs = DOMAIN p.uploadDirs
    /\ DOMAIN p.ops \subseteq DOMAIN u.ops
    /\ Sent(u, op) = {}
    /\ \A o \in DOMAIN p.ops : /\ u.ops[o] = p.ops[o]
                               /\ Ids(u, o) = Ids(p, o)
                               /\ o # op => Sent(u, o) = Sent(p, o)
    /\ \A o \in DOMAIN u.ops \ DOMAIN p.ops :
          /\ u.ops[o].parent = d /\ Ids(u, o) # {} /\ o \notin 1..p.nextJobId
          /\ OpInv(u.ops[o], o, Ids(u, o), Sent(u, o), <<>>)
    /\ \A i \in 1..p.nextJobId : u.signals[i] = p.signals[i]
    /\ \A i \in (1..u.nextJobId) \ (1..p.nextJobId) : u.signals[i] = <<>>

(* One more part n of it, which turns the directory into dir.              *)
Grows(u, w, n, job, d, dir) ==
    /\ n = u.nextJobId + 1 /\ w.nextJobId = n /\ n \notin DOMAIN u.ops
    /\ w.ops[n] = job /\ DOMAIN w.ops = DOMAIN u.ops \union {n}
    /\ Ids(w, n) = {n}
    /\ \A o \in DOMAIN u.ops : w.ops[o] = u.ops[o] /\ Ids(w, o) = Ids(u, o)
    /\ w.uploadDirs[d] = dir

(* w is a state in which a part was created and d is now dir.              *)
Adds(u, w, op, n, d, dir) ==
    /\ n = u.nextJobId + 1
    /\ w = [CreateJob(u, op) EXCEPT
               !.uploadDirs = [u.uploadDirs EXCEPT ![d] = dir]]

LEMMA GrownStart ==
    ASSUME NEW p, NEW q, NEW op, NEW d, Good(p), Part(p, q, op, d)
    PROVE  Grown(p, Less(p, q), q, op, d)
<1> DEFINE s == Less(p, q)
<1>1. /\ Wired(p) /\ p \in State /\ op \in DOMAIN p.ops
      /\ Ids(p, op) = {q.id} /\ Sent(p, op) = {q} /\ p.nextJobId \in Nat
      /\ Of(p, q, op)
  BY PartFacts, StateType DEF Part, Alone
<1>2. /\ s \in State /\ s.jobs[q.id] = op /\ s.ops = p.ops
      /\ s.uploadDirs = p.uploadDirs /\ s.signals = p.signals
      /\ s.nextJobId = p.nextJobId /\ s.jobs = p.jobs
      /\ s.requests = p.requests \ {q}
  BY <1>1, LessIs
<1> HIDE DEF s
<1>3. q \in p.requests /\ q.id \in DOMAIN p.jobs
  BY <1>1 DEF Of
<1>4. OneEach(DOMAIN s.jobs \ {q.id}, s.requests)
  BY <1>1, <1>2, <1>3 DEF Wired, OneEach
<1>5. Plain(s)
  BY <1>1, <1>2 DEF Wired, Plain
<1>6. \A o : Ids(s, o) = Ids(p, o)
  BY <1>2 DEF Ids
<1>7. Sent(s, op) = {} /\ \A o : o # op => Sent(s, o) = Sent(p, o)
  <2>1. Sent(s, op) = Sent(p, op) \ {q}
    BY <1>2, <1>6 DEF Sent
  <2>2. \A o : o # op => q \notin Sent(p, o)
    BY <1>1, <1>3 DEF Sent, Ids, Of
  <2>3. \A o : Sent(s, o) = Sent(p, o) \ {q}
    BY <1>2, <1>6 DEF Sent
  <2> QED BY <1>1, <2>1, <2>2, <2>3
<1>8. Grown(p, s, q, op, d)
  BY <1>1, <1>2, <1>3, <1>4, <1>5, <1>6, <1>7 DEF Grown
<1> QED
  BY <1>8 DEF s

LEMMA GrowsMore ==
    ASSUME NEW p, NEW u, NEW w, NEW q, NEW op, NEW d, NEW new, NEW n,
           NEW dir \in Dir, Grown(p, u, q, op, d), d \in DOMAIN p.uploadDirs,
           Startable(new), new.parent = d, Adds(u, w, new, n, d, dir)
    PROVE  Grown(p, w, q, op, d) /\ Grows(u, w, n, New(new), d, dir)
<1> DEFINE job == New(new)
           v == CreateJob(u, new)
<1>1. /\ u \in State /\ new \in Op /\ n = u.nextJobId + 1 /\ Plain(u)
      /\ DOMAIN u.uploadDirs = DOMAIN p.uploadDirs
      /\ p.nextJobId \in Nat /\ p.nextJobId <= u.nextJobId
      /\ u.nextJobId \in Nat
  BY StateType DEF Grown, Plain, Startable, Adds
<1>2. Creates(u, v, job, n)
  BY <1>1, CreateIs
<1>3. job.parent = d /\ job.type = new.type
  BY <1>1, NewFields
<1> HIDE DEF job, v
<1>4. Created(u, v, job, n, {q.id})
  <2>1. /\ OneEach(DOMAIN u.jobs \ {q.id}, u.requests)
        /\ {q.id} \subseteq DOMAIN u.jobs
        /\ job.parent \in {0} \union DOMAIN u.uploadDirs
    BY <1>1, <1>3 DEF Grown
  <2> QED BY <1>1, <1>2, <2>1, CreatesFacts
<1>5. /\ Plain(v) /\ OneEach(DOMAIN v.jobs \ {q.id}, v.requests)
      /\ v.nextJobId = n /\ n \in Nat /\ u.nextJobId <= n
      /\ n \notin 1..u.nextJobId /\ 1..n = (1..u.nextJobId) \union {n}
      /\ v.uploadDirs = u.uploadDirs /\ v \in State
      /\ n \notin DOMAIN u.ops /\ DOMAIN v.ops = DOMAIN u.ops \union {n}
      /\ v.ops[n] = job /\ \A o \in DOMAIN u.ops : v.ops[o] = u.ops[o]
      /\ Ids(v, n) = {n} /\ Sent(v, n) = {FirstRequest(job, n)}
      /\ \A o \in DOMAIN u.ops : Ids(v, o) = Ids(u, o) /\ Sent(v, o) = Sent(u, o)
      /\ v.jobs[q.id] = u.jobs[q.id]
      /\ \A i \in 1..u.nextJobId : v.signals[i] = u.signals[i]
      /\ v.signals[n] = <<>>
  BY <1>4 DEF Created, Plain
<1>6. DOMAIN v.jobs = DOMAIN u.jobs \union {n}
  BY <1>2 DEF Creates, With
<1> DEFINE uu == [u.uploadDirs EXCEPT ![d] = dir]
<1>7. /\ uu \in Maps(Nat, Dir) /\ DOMAIN uu = DOMAIN u.uploadDirs
      /\ uu[d] = dir
  <2>1. u.uploadDirs \in Maps(Nat, Dir) /\ d \in DOMAIN u.uploadDirs
    BY <1>1, StateType
  <2> QED BY <2>1, MapExcept
<1>8. w = [v EXCEPT !.uploadDirs = uu]
  BY DEF Adds, v
<1> HIDE DEF uu
<1>9. /\ w \in State /\ w.ops = v.ops /\ w.jobs = v.jobs
      /\ w.requests = v.requests /\ w.signals = v.signals
      /\ w.nextJobId = v.nextJobId /\ w.uploadDirs = uu
  BY <1>5, <1>7, <1>8 DEF State
<1>10. \A o : Ids(w, o) = Ids(v, o) /\ Sent(w, o) = Sent(v, o)
  BY <1>9 DEF Ids, Sent
<1>11. Plain(w)
  <2>1. DOMAIN w.uploadDirs = DOMAIN v.uploadDirs
    BY <1>5, <1>7, <1>9
  <2> QED BY <1>5, <1>9, <2>1 DEF Plain
<1>12. Grows(u, w, n, job, d, dir)
  BY <1>1, <1>5, <1>7, <1>9, <1>10 DEF Grows
<1>13. OpInv(job, n, {n}, {FirstRequest(job, n)}, <<>>)
  BY NewOpInv DEF job
<1>14. \A o \in DOMAIN u.ops : o \in 1..u.nextJobId /\ o # n
  BY <1>5 DEF Grown, Plain
<1>15. n \notin 1..p.nextJobId /\ \A i \in 1..p.nextJobId : i \in 1..u.nextJobId
  BY <1>1
<1>16. ASSUME NEW o \in DOMAIN w.ops \ DOMAIN p.ops
       PROVE  /\ w.ops[o].parent = d /\ Ids(w, o) # {} /\ o \notin 1..p.nextJobId
              /\ OpInv(w.ops[o], o, Ids(w, o), Sent(w, o), <<>>)
  <2>1. CASE o = n
    <3>1. OpInv(w.ops[n], n, Ids(w, n), Sent(w, n), <<>>)
      <4>1. w.ops[n] = job /\ Ids(w, n) = {n} /\ Sent(w, n) = {FirstRequest(job, n)}
        BY <1>5, <1>9, <1>10
      <4> QED BY <1>13, <4>1
    <3>2. w.ops[n].parent = d /\ Ids(w, n) # {}
      BY <1>3, <1>5, <1>9, <1>10
    <3> QED BY <1>15, <2>1, <3>1, <3>2
  <2>2. CASE o # n
    <3>1. o \in DOMAIN u.ops \ DOMAIN p.ops
      BY <1>5, <1>9, <2>2
    <3> QED BY <1>5, <1>9, <1>10, <3>1 DEF Grown
  <2> QED BY <2>1, <2>2
<1>17. \A o \in DOMAIN p.ops : /\ w.ops[o] = p.ops[o]
                               /\ Ids(w, o) = Ids(p, o)
                               /\ o # op => Sent(w, o) = Sent(p, o)
  BY <1>5, <1>9, <1>10 DEF Grown
<1>18. Sent(w, op) = {}
  <2>1. op \in DOMAIN u.ops
    BY DEF Grown, Plain
  <2> QED BY <1>5, <1>10, <2>1 DEF Grown
<1>19. /\ \A i \in 1..p.nextJobId : w.signals[i] = p.signals[i]
       /\ \A i \in (1..w.nextJobId) \ (1..p.nextJobId) : w.signals[i] = <<>>
  BY <1>1, <1>5, <1>9, <1>15 DEF Grown
<1>20. Grown(p, w, q, op, d)
  <2>1. q.id \in DOMAIN w.jobs /\ w.jobs[q.id] = op
    BY <1>5, <1>6, <1>9 DEF Grown
  <2>2. OneEach(DOMAIN w.jobs \ {q.id}, w.requests)
    BY <1>5, <1>9
  <2>3. p.nextJobId <= w.nextJobId
    BY <1>1, <1>5, <1>9
  <2>4. /\ DOMAIN w.uploadDirs = DOMAIN p.uploadDirs
        /\ DOMAIN p.ops \subseteq DOMAIN w.ops
    BY <1>1, <1>5, <1>7, <1>9 DEF Grown
  <2> QED BY <1>1, <1>11, <1>16, <1>17, <1>18, <1>19, <2>1, <2>2, <2>3, <2>4
          DEF Grown
<1> QED
  BY <1>12, <1>20 DEF job
----------------------------------------------------------------------------
(* The parts of the level k of the directory d so far: the directory that  *)
(* goes deeper, if there is one, and i of its files.                       *)
Levels(p, d) == p.uploadDirs[d].levels
Deeper(p, d, k) == k < Len(Levels(p, d))

Ahead(p, op, d, k) ==
    IF Deeper(p, d, k)
    THEN With(With(NoMap, op, k), p.nextJobId + 1, k + 1)
    ELSE With(NoMap, op, k)

Filled(p, u, q, op, d, k, i) ==
    LET dir == u.uploadDirs[d]
    IN  /\ Grown(p, u, q, op, d)
        /\ ~dir.hasError /\ dir.levels = Levels(p, d)
        /\ dir.mkdirs = Ahead(p, op, d, k)
        /\ dir.uploads = {f \in FilesIn(u, d) : Ids(u, f) # {}}
        /\ DirsIn(u, d) = IF Deeper(p, d, k)
                          THEN DirsIn(p, d) \union {p.nextJobId + 1}
                          ELSE DirsIn(p, d)
        /\ IsFiniteSet(FilesIn(u, d))
        /\ Cardinality(FilesIn(u, d)) = Counts(Levels(p, d))[k - 1] + i

(* What a part adds to the parts.                                          *)
Joins(u, w, n, job, d) ==
    /\ job.type = "UploadFile" =>
          /\ FilesIn(w, d) = FilesIn(u, d) \union {n}
          /\ DirsIn(w, d) = DirsIn(u, d)
    /\ job.type # "UploadFile" =>
          /\ FilesIn(w, d) = FilesIn(u, d)
          /\ DirsIn(w, d) = DirsIn(u, d) \union {n}
    /\ n \notin FilesIn(u, d) /\ n \notin DirsIn(u, d)

LEMMA GrowsKids ==
    ASSUME NEW u, NEW w, NEW n, NEW job, NEW d, NEW dir,
           Grows(u, w, n, job, d, dir), job.parent = d
    PROVE  Joins(u, w, n, job, d)
<1>1. /\ w.ops[n] = job /\ DOMAIN w.ops = DOMAIN u.ops \union {n}
      /\ n \notin DOMAIN u.ops
      /\ \A o \in DOMAIN u.ops : w.ops[o] = u.ops[o]
  BY DEF Grows
<1>2. Kids(w, d) = Kids(u, d) \union {n} /\ n \notin Kids(u, d)
  BY <1>1 DEF Kids
<1>3. \A o \in Kids(u, d) : w.ops[o] = u.ops[o]
  BY <1>1 DEF Kids
<1>4. n \notin FilesIn(u, d) /\ n \notin DirsIn(u, d)
  BY <1>2 DEF FilesIn, DirsIn
<1>5. job.type = "UploadFile" => FilesIn(w, d) = FilesIn(u, d) \union {n}
  BY <1>1, <1>2, <1>3 DEF FilesIn
<1>6. job.type # "UploadFile" => FilesIn(w, d) = FilesIn(u, d)
  BY <1>1, <1>2, <1>3 DEF FilesIn
<1>7. job.type = "UploadFile" => DirsIn(w, d) = DirsIn(u, d)
  BY <1>2, <1>5 DEF DirsIn
<1>8. job.type # "UploadFile" => DirsIn(w, d) = DirsIn(u, d) \union {n}
  BY <1>2, <1>4, <1>6 DEF DirsIn, FilesIn
<1> QED
  BY <1>4, <1>5, <1>6, <1>7, <1>8 DEF Joins

LEMMA FileAdded ==
    ASSUME FilesAreWhole, NEW p, NEW u, NEW q, NEW op, NEW d, NEW k, NEW i \in Int,
           d \in DOMAIN p.uploadDirs, d \in Nat,
           Counts(Levels(p, d))[k - 1] \in Int,
           Filled(p, u, q, op, d, k, i), NEW file \in LocalFiles
    PROVE  Filled(p, AddFile(u, d, file), q, op, d, k, i + 1)
<1> DEFINE new == UploadOf(file, FALSE, d)
           v == CreateJob(u, new)
           n == u.nextJobId + 1
           old == u.uploadDirs[d]
           dir == [old EXCEPT !.uploads = @ \union {n}]
           w == AddFile(u, d, file)
           job == New(new)
<1>1. /\ u \in State /\ Grown(p, u, q, op, d) /\ d \in DOMAIN u.uploadDirs
      /\ old \in Dir /\ u.nextJobId \in Nat /\ n \in Nat
  BY StateType DEF Filled, Grown, Plain
<1>2. /\ file.opens /\ Startable(new) /\ new.parent = d
      /\ new.type = "UploadFile"
  BY UploadType
<1>3. /\ dir \in Dir /\ dir.uploads = old.uploads \union {n}
      /\ dir.mkdirs = old.mkdirs /\ dir.hasError = old.hasError
      /\ dir.levels = old.levels
  <2> HIDE DEF n, old
  <2> QED BY <1>1 DEF Dir
<1>4. job.parent = d /\ job.type = "UploadFile"
  BY <1>2, NewFields DEF Startable
<1>5. v.nextJobId = n /\ v.uploadDirs = u.uploadDirs /\ v \in State
  <2>1. new \in Op
    BY <1>2 DEF Startable
  <2> HIDE DEF new, v, n
  <2>2. Creates(u, v, New(new), n)
    BY <1>1, <2>1, CreateIs DEF v, n
  <2> QED BY <2>2 DEF Creates
<1> HIDE DEF new, v, job
<1>6. w = [v EXCEPT !.uploadDirs = [u.uploadDirs EXCEPT ![d] = dir]]
  <2>1. ~u.uploadDirs[d].hasError
    BY DEF Filled
  <2>2. w = [v EXCEPT !.uploadDirs[d].uploads = @ \union {v.nextJobId}]
    BY <1>2, <2>1 DEF AddFile, v, new
  <2> HIDE DEF w, n
  <2>3. dir = [u.uploadDirs[d] EXCEPT !.uploads = @ \union {n}]
    OBVIOUS
  <2> QED BY <1>1, <1>5, <2>2
<1> HIDE DEF w, dir
<1>7. Adds(u, w, new, n, d, dir)
  BY <1>6 DEF Adds, v
<1>8. Grown(p, w, q, op, d) /\ Grows(u, w, n, job, d, dir)
  <2> HIDE DEF n
  <2> QED BY <1>1, <1>2, <1>3, <1>7, GrowsMore DEF job
<1> HIDE DEF n
<1>9. /\ FilesIn(w, d) = FilesIn(u, d) \union {n} /\ DirsIn(w, d) = DirsIn(u, d)
      /\ n \notin FilesIn(u, d)
  <2>1. Joins(u, w, n, job, d)
    BY <1>4, <1>8, GrowsKids
  <2> QED BY <1>4, <2>1 DEF Joins
<1>10. /\ w.uploadDirs[d] = dir /\ Ids(w, n) = {n}
       /\ \A o \in DOMAIN u.ops : Ids(w, o) = Ids(u, o)
  BY <1>8 DEF Grows
<1>11. dir.uploads = {f \in FilesIn(w, d) : Ids(w, f) # {}}
  <2>1. \A f \in FilesIn(u, d) : Ids(w, f) = Ids(u, f)
    BY <1>10 DEF FilesIn, Kids
  <2>2. old.uploads = {f \in FilesIn(u, d) : Ids(u, f) # {}}
    BY DEF Filled
  <2> QED BY <1>3, <1>9, <1>10, <2>1, <2>2
<1>12. /\ IsFiniteSet(FilesIn(w, d))
       /\ Cardinality(FilesIn(w, d)) = Counts(Levels(p, d))[k - 1] + (i + 1)
  <2>1. /\ IsFiniteSet(FilesIn(u, d))
        /\ Cardinality(FilesIn(u, d)) = Counts(Levels(p, d))[k - 1] + i
    BY DEF Filled
  <2>2. /\ IsFiniteSet(FilesIn(w, d))
        /\ Cardinality(FilesIn(w, d)) = Cardinality(FilesIn(u, d)) + 1
    BY <1>9, <2>1, FS_AddElement
  <2> DEFINE c == Counts(Levels(p, d))[k - 1]
  <2>3. c \in Int /\ Cardinality(FilesIn(w, d)) = (c + i) + 1
    BY <2>1, <2>2
  <2> HIDE DEF c
  <2>4. (c + i) + 1 = c + (i + 1)
    BY <2>3
  <2> QED BY <2>2, <2>3, <2>4 DEF c
<1>13. Filled(p, w, q, op, d, k, i + 1)
  <2>1. /\ ~dir.hasError /\ dir.levels = Levels(p, d)
        /\ dir.mkdirs = Ahead(p, op, d, k)
        /\ DirsIn(w, d) = IF Deeper(p, d, k)
                          THEN DirsIn(p, d) \union {p.nextJobId + 1}
                          ELSE DirsIn(p, d)
    BY <1>3, <1>9 DEF Filled
  <2> QED BY <1>8, <1>10, <1>11, <1>12, <2>1 DEF Filled
<1> QED
  BY <1>13 DEF w

(* The files of a level, one after the other; S tells what is known after  *)
(* each number of them.                                                    *)
LEMMA FileSteps ==
    ASSUME NEW s, NEW d, NEW files
    PROVE  AddFiles(s, d, files) =
              (CHOOSE f : f = [i \in 0..Len(files) |->
                  IF i = 0 THEN s
                  ELSE AddFile(f[i - 1], d, files[i])])[Len(files)]
  BY Zenon DEF AddFiles

LEMMA FileLoop ==
    ASSUME NEW s, NEW d, NEW files, Len(files) \in Nat,
           NEW S, \A i \in Nat : S[i] \in SUBSET State, s \in S[0],
           \A i \in 1..Len(files) :
              \A t \in S[i - 1] : AddFile(t, d, files[i]) \in S[i]
    PROVE  AddFiles(s, d, files) \in S[Len(files)]
<1> DEFINE n == Len(files)
           N == [x \in (1..n) \X State |-> AddFile(x[2], d, files[x[1]])]
           Is(f) == [i \in 0..n |-> IF i = 0 THEN s
                                    ELSE AddFile(f[i - 1], d, files[i])]
           F == CHOOSE f : f = Is(f)
<1>1. n \in Nat
  OBVIOUS
<1>2. \A i \in 1..n : \A t \in S[i - 1] : N[<<i, t>>] = AddFile(t, d, files[i])
  <2> TAKE i \in 1..n
  <2> TAKE t \in S[i - 1]
  <2>1. i - 1 \in Nat
    BY <1>1
  <2>2. <<i, t>> \in (1..n) \X State /\ <<i, t>>[1] = i /\ <<i, t>>[2] = t
    BY <2>1
  <2> QED BY <2>2
<1> HIDE DEF N, n
<1>3. \E f : f = Is(f)
  <2>1. Leads(N, S, n)
    BY <1>2 DEF n, Leads
  <2>3. PICK f : Solves(f, s, N, S, n)
    BY <1>1, <2>1, Recursion
  <2>4. ASSUME NEW i \in 0..n, i # 0
        PROVE  N[<<i, f[i - 1]>>] = AddFile(f[i - 1], d, files[i])
    <3>1. i \in 1..n /\ i - 1 \in 0..n
      BY <1>1, <2>4
    <3>2. f[i - 1] \in S[i - 1]
      BY <2>3, <3>1 DEF Solves
    <3> QED BY <1>2, <3>1, <3>2
  <2>5. [i \in 0..n |-> IF i = 0 THEN s ELSE N[<<i, f[i - 1]>>]] = Is(f)
    BY <2>4
  <2> QED BY <2>3, <2>5 DEF Solves
<1>4. F = Is(F)
  <2> HIDE DEF Is
  <2> QED BY <1>3
<1> HIDE DEF F
<1>5. F[0] = s /\ \A i \in 1..n : F[i] = AddFile(F[i - 1], d, files[i])
  <2>1. 0 \in 0..n /\ \A i \in 1..n : i \in 0..n /\ i # 0
    BY <1>1
  <2> QED BY <1>4, <2>1
<1>6. \A i \in 1..n : F[i - 1] \in S[i - 1] => F[i] \in S[i]
  BY <1>5 DEF n
<1>7. F[0] \in S[0]
  BY <1>5
<1>8. F[n] \in S[n]
  BY <1>1, <1>6, <1>7, StepByStep
<1>9. AddFiles(s, d, files) = F[n]
  BY FileSteps DEF F, n
<1> QED
  BY <1>8, <1>9 DEF n
LEMMA CountsFacts ==
    ASSUME NEW A, NEW levels \in Seq(Seq(A))
    PROVE  /\ Counts(levels)[0] = 0
           /\ \A k \in 1..Len(levels) :
                 Counts(levels)[k] = Counts(levels)[k - 1] + Len(levels[k])
           /\ \A k \in 0..Len(levels) : Counts(levels)[k] \in Nat
           /\ FilesOf(levels) = Counts(levels)[Len(levels)]
<1> DEFINE n == Len(levels)
           N == [x \in (1..n) \X Nat |-> x[2] + Len(levels[x[1]])]
           S == [i \in Nat |-> Nat]
           Is(f) == [i \in 0..n |-> IF i = 0 THEN 0
                                    ELSE f[i - 1] + Len(levels[i])]
           F == CHOOSE f : f = Is(f)
<1>1. n \in Nat /\ \A i \in 1..n : Len(levels[i]) \in Nat
  <2>1. \A i \in 1..n : levels[i] \in Seq(A)
    OBVIOUS
  <2> QED BY <2>1
<1>2. Counts(levels) = F
  BY Zenon DEF Counts
<1>3. \A i \in 1..n : \A t \in Nat : N[<<i, t>>] = t + Len(levels[i])
  <2> TAKE i \in 1..n
  <2> TAKE t \in Nat
  <2>1. <<i, t>> \in (1..n) \X Nat /\ <<i, t>>[1] = i /\ <<i, t>>[2] = t
    OBVIOUS
  <2> QED BY <2>1
<1>4. \A i \in Nat : S[i] = Nat
  OBVIOUS
<1> HIDE DEF N, n, S
<1>5. PICK f : Solves(f, 0, N, S, n)
  <2>1. Leads(N, S, n)
    <3> SUFFICES ASSUME NEW i \in 1..n, NEW t \in S[i - 1]
                 PROVE  N[<<i, t>>] \in S[i]
      BY DEF Leads
    <3>1. i - 1 \in Nat /\ i \in Nat
      BY <1>1
    <3>2. S[i - 1] = Nat /\ S[i] = Nat
      BY <1>4, <3>1
    <3>3. t \in Nat /\ Len(levels[i]) \in Nat
      BY <1>1, <3>2
    <3>4. N[<<i, t>>] = t + Len(levels[i])
      BY <1>3, <3>3
    <3>5. t + Len(levels[i]) \in Nat
      BY <3>3
    <3> QED BY <3>2, <3>4, <3>5
  <2>2. 0 \in S[0]
    BY <1>4
  <2> QED BY <1>1, <2>1, <2>2, Recursion
<1>6. \A i \in 0..n : f[i] \in Nat
  <2> TAKE i \in 0..n
  <2>1. i \in Nat /\ f[i] \in S[i]
    BY <1>1, <1>5 DEF Solves
  <2>2. S[i] = Nat
    BY <1>4, <2>1
  <2> QED BY <2>1, <2>2
<1>7. f = Is(f)
  <2>1. ASSUME NEW i \in 0..n, i # 0
        PROVE  N[<<i, f[i - 1]>>] = f[i - 1] + Len(levels[i])
    <3>1. i \in 1..n /\ i - 1 \in 0..n
      BY <1>1, <2>1
    <3> QED BY <1>3, <1>6, <3>1
  <2>2. [i \in 0..n |-> IF i = 0 THEN 0 ELSE N[<<i, f[i - 1]>>]] = Is(f)
    BY <2>1
  <2> QED BY <1>5, <2>2 DEF Solves
<1>8. F = Is(F)
  <2> HIDE DEF Is
  <2> QED BY <1>7
<1> HIDE DEF F
<1>9. F[0] = 0 /\ \A i \in 1..n : F[i] = F[i - 1] + Len(levels[i])
  <2>1. 0 \in 0..n /\ \A i \in 1..n : i \in 0..n /\ i # 0
    BY <1>1
  <2> QED BY <1>8, <2>1
<1>10. \A k \in 0..n : F[k] \in Nat
  <2> TAKE k \in 0..n
  <2>1. F[0] \in S[0] /\ k \in Nat
    BY <1>1, <1>4, <1>9
  <2>2. \A i \in 1..k : F[i - 1] \in S[i - 1] => F[i] \in S[i]
    <3> TAKE i \in 1..k
    <3>1. i \in Nat /\ i - 1 \in Nat /\ i \in 1..n
      BY <1>1
    <3>2. /\ S[i - 1] = Nat /\ S[i] = Nat /\ Len(levels[i]) \in Nat
          /\ F[i] = F[i - 1] + Len(levels[i])
      BY <1>1, <1>4, <1>9, <3>1
    <3> QED BY <3>2
  <2>3. F[k] \in S[k]
    BY <2>1, <2>2, StepByStep
  <2> QED BY <1>4, <2>1, <2>3
<1>11. FilesOf(levels) = F[n]
  BY Zenon DEF FilesOf, F, n
<1> QED
  BY <1>2, <1>9, <1>10, <1>11 DEF n

LEMMA NoMapNot ==
    ASSUME NEW m, NEW k
    PROVE  /\ With(NoMap, m, k) # NoMap /\ With(NoMap, m, k)[m] = k
           /\ DOMAIN With(NoMap, m, k) = {m}
<1>1. DOMAIN With(NoMap, m, k) = {m} /\ With(NoMap, m, k)[m] = k
  BY DEF With, NoMap
<1>2. DOMAIN NoMap = {}
  BY DEF NoMap
<1> QED
  BY <1>1, <1>2

(* Without the level that was created, what is left to create is the next. *)
LEMMA AheadWithout ==
    ASSUME NEW m, NEW k, NEW n, NEW j, m # n
    PROVE  Without(With(With(NoMap, m, k), n, j), m) = With(NoMap, n, j)
<1> DEFINE map == With(With(NoMap, m, k), n, j)
<1>1. DOMAIN With(NoMap, m, k) = {m}
  BY NoMapNot
<1>2. DOMAIN map \ {m} = {n} /\ map[n] = j
  BY <1>1 DEF With
<1>3. With(NoMap, n, j) = [i \in {n} |-> j]
  BY DEF With, NoMap
<1> HIDE DEF map
<1>4. Without(map, m) = [i \in {n} |-> j]
  BY <1>2 DEF Without
<1> QED
  BY <1>3, <1>4 DEF map

LEMMA LastWithout ==
    ASSUME NEW m, NEW k
    PROVE  Without(With(NoMap, m, k), m) = NoMap
<1> DEFINE map == With(NoMap, m, k)
<1>1. DOMAIN map \ {m} = {}
  BY NoMapNot
<1> HIDE DEF map
<1>2. Without(map, m) = NoMap
  BY <1>1 DEF Without, NoMap
<1> QED
  BY <1>2 DEF map
(* op is the directory that is being created, at level k.                  *)
LevelOf(p, op, d, k) ==
    LET dir == p.uploadDirs[d]
    IN  /\ k \in 1..Len(Levels(p, d)) /\ op \in DirsIn(p, d)
        /\ dir.mkdirs = With(NoMap, op, k)
        /\ ~dir.hasError /\ p.signals[d] = <<>>
        /\ \A o \in DirsIn(p, d) : Ids(p, o) # {} => o = op
        /\ Cardinality(FilesIn(p, d)) = Counts(Levels(p, d))[k - 1]

LEMMA LevelIs ==
    ASSUME NEW p, NEW q, NEW op, NEW d, Good(p), Part(p, q, op, d),
           op \in DirsIn(p, d)
    PROVE  \E k : LevelOf(p, op, d, k)
<1>1. DirInv(p, d) /\ Ids(p, op) # {}
  BY PartFacts
<1>2. AtLevel(p, d)
  <2>1. ~AllCreated(p, d)
    BY <1>1 DEF AllCreated
  <2>2. ~Refused(p, d)
    <3>1. op \in Kids(p, d)
      BY DEF DirsIn
    <3> QED BY <1>1, <3>1 DEF Refused
  <2> QED BY <1>1, <2>1, <2>2 DEF DirInv
<1>3. PICK m \in DirsIn(p, d), k \in 1..Len(p.uploadDirs[d].levels) :
         /\ p.uploadDirs[d].mkdirs = With(NoMap, m, k)
         /\ \A o \in DirsIn(p, d) : Ids(p, o) # {} => o = m
         /\ Cardinality(FilesIn(p, d)) = Counts(p.uploadDirs[d].levels)[k - 1]
  BY <1>2 DEF AtLevel
<1>4. m = op
  BY <1>1, <1>3
<1>5. ~p.uploadDirs[d].hasError /\ p.signals[d] = <<>>
  BY <1>2 DEF AtLevel
<1>6. LevelOf(p, op, d, k)
  BY <1>3, <1>4, <1>5 DEF LevelOf, Levels
<1> QED
  BY <1>6

LEMMA LevelStarts ==
    ASSUME NEW p, NEW q, NEW op, NEW d, NEW k, Good(p), Part(p, q, op, d),
           LevelOf(p, op, d, k)
    PROVE  Filled(p, AddSubDirectory(Less(p, q), d, k + 1), q, op, d, k, 0)
<1> DEFINE s == Less(p, q)
           old == p.uploadDirs[d]
           n == p.nextJobId + 1
<1>1. /\ p \in State /\ DirInv(p, d) /\ old \in Dir /\ d \in Nat
      /\ d \in DOMAIN p.uploadDirs /\ Of(p, q, op) /\ Plain(p)
      /\ op \in DOMAIN p.ops
  BY PartFacts DEF Part, Wired
<1>2. /\ s \in State /\ s.ops = p.ops /\ s.uploadDirs = p.uploadDirs
      /\ s.nextJobId = p.nextJobId /\ s.jobs = p.jobs
  BY <1>1, LessIs
<1>3. Grown(p, s, q, op, d)
  BY GrownStart
<1> HIDE DEF s
<1>4. /\ FilesIn(s, d) = FilesIn(p, d) /\ DirsIn(s, d) = DirsIn(p, d)
      /\ \A o : Ids(s, o) = Ids(p, o)
  BY <1>2 DEF FilesIn, DirsIn, Kids, Ids
<1>5. /\ IsFiniteSet(FilesIn(p, d)) /\ k \in Nat /\ Len(Levels(p, d)) \in Nat
      /\ Cardinality(FilesIn(p, d)) \in Nat /\ p.nextJobId \in Nat
      /\ Counts(Levels(p, d))[k - 1] \in Nat
      /\ Cardinality(FilesIn(p, d)) = Counts(Levels(p, d))[k - 1]
  <2>1. IsFiniteSet(FilesIn(p, d))
    BY <1>1 DEF DirInv
  <2>2. Levels(p, d) \in Seq(Seq(LocalFiles))
    BY <1>1 DEF Levels, Dir
  <2> QED BY <1>1, <2>1, <2>2, FS_CardinalityType, StateType DEF LevelOf
<1>6. old.uploads = {f \in FilesIn(p, d) : Ids(p, f) # {}}
  BY <1>1 DEF DirInv
<1>7. CASE ~Deeper(p, d, k)
  <2>1. AddSubDirectory(s, d, k + 1) = s
    <3>1. k + 1 > Len(s.uploadDirs[d].levels)
      BY <1>2, <1>5, <1>7 DEF Deeper, Levels
    <3> QED BY <3>1 DEF AddSubDirectory
  <2>2. Filled(p, s, q, op, d, k, 0)
    <3>1. old.mkdirs = Ahead(p, op, d, k) /\ ~old.hasError /\ old.levels = Levels(p, d)
      BY <1>7 DEF Ahead, LevelOf, Levels
    <3> QED BY <1>2, <1>3, <1>4, <1>5, <1>6, <1>7, <3>1 DEF Filled
  <2> QED BY <2>1, <2>2 DEF s
<1>8. CASE Deeper(p, d, k)
  <2> DEFINE new == [Operation("MakeDir") EXCEPT !.parent = d]
             v == CreateJob(s, new)
             map == With(old.mkdirs, n, k + 1)
             dir == [old EXCEPT !.mkdirs = map]
             w == AddSubDirectory(s, d, k + 1)
             job == New(new)
  <2>1. Startable(new) /\ new.parent = d /\ new.type = "MakeDir" /\ new \in Op
    <3>1. "MakeDir" \in Types
      BY DEF Types
    <3> HIDE DEF new
    <3>2. Startable(new) /\ new.parent = d /\ new.type = "MakeDir"
      BY <1>1, <3>1, OperationType DEF new
    <3> QED BY <3>2 DEF Startable
  <2> HIDE DEF new
  <2>2. job.parent = d /\ job.type = "MakeDir"
    BY <2>1, NewFields
  <2>3. v.nextJobId = n /\ v.uploadDirs = p.uploadDirs
    <3> HIDE DEF v
    <3>1. Creates(s, v, New(new), n)
      BY <1>2, <2>1, CreateIs DEF v
    <3> QED BY <1>2, <3>1 DEF Creates
  <2>4. map \in Maps(Nat, Nat)
    <3>1. n \in Nat /\ k + 1 \in Nat /\ old.mkdirs \in Maps(Nat, Nat)
      BY <1>1, <1>5 DEF Dir
    <3> HIDE DEF n, old
    <3> QED BY <3>1, MapWith
  <2> HIDE DEF map
  <2>5. /\ dir \in Dir /\ dir.uploads = old.uploads /\ dir.mkdirs = map
        /\ dir.hasError = old.hasError /\ dir.levels = old.levels
    <3> HIDE DEF old
    <3> QED BY <1>1, <2>4 DEF Dir
  <2>6. w = [v EXCEPT !.uploadDirs = [s.uploadDirs EXCEPT ![d] = dir]]
    <3>1. ~(k + 1 > Len(s.uploadDirs[d].levels))
      BY <1>2, <1>5, <1>8 DEF Deeper, Levels
    <3>2. w = [v EXCEPT !.uploadDirs[d].mkdirs = With(@, v.nextJobId, k + 1)]
      BY <3>1 DEF AddSubDirectory, new
    <3>3. w = [v EXCEPT !.uploadDirs[d].mkdirs = map]
      BY <1>1, <2>3, <3>2 DEF map
    <3> HIDE DEF w, v
    <3> QED BY <1>2, <2>3, <3>3
  <2> HIDE DEF w, dir
  <2>7. Adds(s, w, new, n, d, dir)
    BY <1>2, <2>6 DEF Adds, v
  <2> HIDE DEF v, n
  <2>8. Grown(p, w, q, op, d) /\ Grows(s, w, n, job, d, dir)
    BY <1>1, <1>3, <2>1, <2>5, <2>7, GrowsMore
  <2>9. Joins(s, w, n, job, d)
    <3> HIDE DEF job
    <3> QED BY <2>2, <2>8, GrowsKids
  <2>10. /\ FilesIn(w, d) = FilesIn(p, d)
         /\ DirsIn(w, d) = DirsIn(p, d) \union {n}
    BY <1>4, <2>2, <2>9 DEF Joins
  <2>11. /\ w.uploadDirs[d] = dir
         /\ \A o \in DOMAIN p.ops : Ids(w, o) = Ids(p, o)
    BY <1>2, <1>4, <2>8 DEF Grows
  <2>12. dir.uploads = {f \in FilesIn(w, d) : Ids(w, f) # {}}
    <3>1. FilesIn(p, d) \subseteq DOMAIN p.ops
      BY DEF FilesIn, Kids
    <3> QED BY <1>6, <2>5, <2>10, <2>11, <3>1
  <2>13. /\ dir.mkdirs = Ahead(p, op, d, k) /\ ~dir.hasError
         /\ dir.levels = Levels(p, d)
    BY <1>8, <2>5 DEF Ahead, LevelOf, Levels, map, n
  <2>14. DirsIn(w, d) = DirsIn(p, d) \union {p.nextJobId + 1}
    BY <2>10 DEF n
  <2>15. Filled(p, w, q, op, d, k, 0)
    BY <1>5, <1>8, <2>8, <2>10, <2>11, <2>12, <2>13, <2>14 DEF Filled
  <2> QED BY <2>15 DEF w, s
<1> QED
  BY <1>7, <1>8

LEMMA LevelFilled ==
    ASSUME FilesAreWhole, NEW p, NEW q, NEW op, NEW d, NEW k, Good(p),
           Part(p, q, op, d), LevelOf(p, op, d, k), NEW files,
           files = Levels(p, d)[k]
    PROVE  /\ Len(files) \in Nat
           /\ Filled(p, AddFiles(AddSubDirectory(Less(p, q), d, k + 1), d,
                                 files), q, op, d, k, Len(files))
<1> DEFINE s == AddSubDirectory(Less(p, q), d, k + 1)
           S == [i \in Nat |-> {u \in State : Filled(p, u, q, op, d, k, i)}]
<1>1. /\ d \in DOMAIN p.uploadDirs /\ d \in Nat /\ p.uploadDirs[d] \in Dir
      /\ k \in 1..Len(Levels(p, d))
  BY PartFacts DEF Part, LevelOf
<1>2. Levels(p, d) \in Seq(Seq(LocalFiles))
  BY <1>1 DEF Levels, Dir
<1>3. files \in Seq(LocalFiles) /\ Len(files) \in Nat
  BY <1>1, <1>2
<1>4. Counts(Levels(p, d))[k - 1] \in Int
  <2>1. k - 1 \in 0..Len(Levels(p, d))
    BY <1>1, <1>2
  <2>2. Counts(Levels(p, d))[k - 1] \in Nat
    BY <1>2, <2>1, CountsFacts
  <2> QED BY <2>2
<1>5. \A u, i : Filled(p, u, q, op, d, k, i) => u \in State
  BY DEF Filled, Grown, Plain
<1>6. \A i \in Nat : S[i] = {u \in State : Filled(p, u, q, op, d, k, i)}
  OBVIOUS
<1> HIDE DEF s, S
<1>7. s \in S[0]
  <2>1. Filled(p, s, q, op, d, k, 0)
    BY LevelStarts DEF s
  <2> QED BY <1>5, <1>6, <2>1
<1>8. \A i \in 1..Len(files) :
         \A t \in S[i - 1] : AddFile(t, d, files[i]) \in S[i]
  <2> TAKE i \in 1..Len(files)
  <2> TAKE t \in S[i - 1]
  <2> DEFINE j == i - 1
             w == AddFile(t, d, files[i])
  <2>1. /\ j \in Nat /\ j \in Int /\ j + 1 = i /\ i \in Nat
        /\ files[i] \in LocalFiles
    BY <1>3
  <2>2. Filled(p, t, q, op, d, k, j)
    BY <1>6, <2>1
  <2> HIDE DEF j
  <2>3. Filled(p, w, q, op, d, k, j + 1)
    BY <1>1, <1>4, <2>1, <2>2, FileAdded
  <2> HIDE DEF w
  <2>4. w \in S[i]
    BY <1>5, <1>6, <2>1, <2>3
  <2> QED BY <2>4 DEF w
<1>9. \A i \in Nat : S[i] \in SUBSET State
  BY <1>6
<1>10. AddFiles(s, d, files) \in S[Len(files)]
  BY <1>3, <1>7, <1>8, <1>9, FileLoop
<1> QED
  BY <1>3, <1>6, <1>10 DEF s
(* The answer is dealt with: the id of q is given up.                      *)
Closes(u, t, q, d, dir, sig) ==
    /\ t \in State /\ t.ops = u.ops /\ t.nextJobId = u.nextJobId
    /\ t.jobs = Without(u.jobs, q.id)
    /\ t.requests = u.requests
    /\ t.uploadDirs = [u.uploadDirs EXCEPT ![d] = dir]
    /\ t.signals = [u.signals EXCEPT ![d] = sig]

LEMMA ClosesIs ==
    ASSUME NEW u \in State, NEW q, NEW d \in DOMAIN u.uploadDirs,
           d \in DOMAIN u.signals, NEW dir \in Dir, NEW sig \in Results, NEW v,
           v = [u EXCEPT !.uploadDirs = [u.uploadDirs EXCEPT ![d] = dir],
                         !.signals = [u.signals EXCEPT ![d] = sig]]
    PROVE  Closes(u, Erase(v, q.id), q, d, dir, sig)
<1> DEFINE uu == [u.uploadDirs EXCEPT ![d] = dir]
           ss == [u.signals EXCEPT ![d] = sig]
           jj == Without(u.jobs, q.id)
           t == Erase(v, q.id)
<1>1. uu \in Maps(Nat, Dir) /\ ss \in Maps(Nat, Results) /\ jj \in Maps(Nat, Nat)
  <2>1. /\ u.uploadDirs \in Maps(Nat, Dir) /\ u.signals \in Maps(Nat, Results)
        /\ u.jobs \in Maps(Nat, Nat)
    BY StateType
  <2> QED BY <2>1, MapExcept, MapWithout
<1>2. v = [u EXCEPT !.uploadDirs = uu, !.signals = ss]
  OBVIOUS
<1>3. v.jobs = u.jobs
  BY <1>2 DEF State
<1>4. t = [v EXCEPT !.jobs = jj]
  BY <1>3 DEF Erase
<1> HIDE DEF uu, ss, jj, t
<1>5. /\ t \in State /\ t.ops = u.ops /\ t.nextJobId = u.nextJobId
      /\ t.jobs = jj /\ t.requests = u.requests
      /\ t.uploadDirs = uu /\ t.signals = ss
  BY <1>1, <1>2, <1>4 DEF State
<1> QED
  BY <1>5 DEF Closes, uu, ss, jj, t

LEMMA ClosesFacts ==
    ASSUME NEW p, NEW u, NEW t, NEW q, NEW op, NEW d, NEW dir, NEW sig,
           Good(p), Part(p, q, op, d), p.ops[op].type = "MakeDir",
           Grown(p, u, q, op, d), Closes(u, t, q, d, dir, sig)
    PROVE  /\ Wired(t) /\ OpsInv(t) /\ Ids(t, op) = {} /\ Sent(t, op) = {}
           /\ \A o \in DOMAIN u.ops : o # op => /\ Ids(t, o) = Ids(u, o)
                                                /\ Sent(t, o) = Sent(u, o)
           /\ t.uploadDirs[d] = dir /\ t.signals[d] = sig
           /\ DOMAIN t.uploadDirs = DOMAIN p.uploadDirs
           /\ \A i \in 1..u.nextJobId : i # d => t.signals[i] = u.signals[i]
           /\ Kids(t, d) = Kids(u, d) /\ FilesIn(t, d) = FilesIn(u, d)
           /\ DirsIn(t, d) = DirsIn(u, d)
<1>1. /\ t \in State /\ t.ops = u.ops /\ t.nextJobId = u.nextJobId
      /\ t.requests = u.requests
      /\ DOMAIN t.jobs = DOMAIN u.jobs \ {q.id}
      /\ \A i \in DOMAIN t.jobs : t.jobs[i] = u.jobs[i]
  BY DEF Closes, Without
<1>2. /\ u \in State /\ Plain(u) /\ OneEach(DOMAIN u.jobs \ {q.id}, u.requests)
      /\ DOMAIN u.uploadDirs = DOMAIN p.uploadDirs
      /\ DOMAIN p.ops \subseteq DOMAIN u.ops
      /\ u.jobs[q.id] = op /\ Ids(u, op) = Ids(p, op)
      /\ p.nextJobId \in Nat /\ p.nextJobId <= u.nextJobId
      /\ u.nextJobId \in Nat
  BY PartFacts, StateType DEF Grown, Plain
<1>3. /\ op \in DOMAIN p.ops /\ Wired(p) /\ Ids(p, op) = {q.id}
      /\ d \in DOMAIN p.uploadDirs /\ d \in 1..p.nextJobId
      /\ d \notin DOMAIN u.ops /\ d # 0 /\ p.ops[op].parent = d
  BY <1>2, PartFacts DEF Part, Alone, Plain
<1>4. d \in DOMAIN u.signals /\ DOMAIN u.signals = 1..u.nextJobId
  BY <1>2, <1>3 DEF Plain
<1>5. /\ DOMAIN t.uploadDirs = DOMAIN u.uploadDirs
      /\ DOMAIN t.signals = DOMAIN u.signals
      /\ t.uploadDirs[d] = dir /\ t.signals[d] = sig
      /\ \A i \in DOMAIN u.signals : i # d => t.signals[i] = u.signals[i]
  BY <1>2, <1>3, <1>4 DEF Closes
<1>6. Wired(t)
  <2>1. OneEach(DOMAIN t.jobs, t.requests)
    BY <1>1, <1>2
  <2>2. Plain(t)
    BY <1>1, <1>2, <1>5 DEF Plain
  <2> QED BY <2>1, <2>2 DEF Wired
<1>7. /\ Ids(t, op) = {} /\ \A o : o # op => Ids(t, o) = Ids(u, o)
  BY <1>1, <1>2, <1>3 DEF Ids
<1>8. /\ Sent(t, op) = {} /\ \A o : o # op => Sent(t, o) = Sent(u, o)
  BY <1>1, <1>7 DEF Sent
<1>9. /\ Kids(t, d) = Kids(u, d) /\ FilesIn(t, d) = FilesIn(u, d)
      /\ DirsIn(t, d) = DirsIn(u, d)
  BY <1>1 DEF Kids, FilesIn, DirsIn
<1>10. ASSUME NEW o \in DOMAIN t.ops
       PROVE  OpInv(t.ops[o], o, Ids(t, o), Sent(t, o), t.signals[o])
  <2>1. o \in DOMAIN u.ops /\ o # d /\ o \in 1..u.nextJobId
    BY <1>1, <1>2, <1>3 DEF Plain
  <2>2. t.signals[o] = u.signals[o]
    BY <1>4, <1>5, <2>1
  <2>3. CASE o = op
    <3>1. OpInv(p.ops[op], op, Ids(p, op), Sent(p, op), p.signals[op])
      BY <1>3 DEF Good, OpsInv
    <3>2. u.ops[op] = p.ops[op] /\ u.signals[op] = p.signals[op]
      BY <1>3, WiredFacts DEF Grown
    <3>3. Shape(p.ops[op]) /\ p.signals[op] = <<>>
      BY <1>3, <3>1 DEF OpInv, Reported
    <3>4. OpInv(p.ops[op], op, {}, {}, <<>>)
      <4>1. Reported(p.ops[op], {}, <<>>)
        BY <1>3 DEF Reported, Transfers
      <4> QED BY <3>3, <4>1 DEF OpInv
    <3> QED BY <1>1, <1>7, <1>8, <2>2, <2>3, <3>2, <3>3, <3>4
  <2>4. CASE o # op /\ o \in DOMAIN p.ops
    <3>1. OpInv(p.ops[o], o, Ids(p, o), Sent(p, o), p.signals[o])
      BY <2>4 DEF Good, OpsInv
    <3>2. /\ u.ops[o] = p.ops[o] /\ u.signals[o] = p.signals[o]
          /\ Ids(u, o) = Ids(p, o) /\ Sent(u, o) = Sent(p, o)
      BY <1>3, <2>4, WiredFacts DEF Grown
    <3> QED BY <1>1, <1>7, <1>8, <2>2, <2>4, <3>1, <3>2
  <2>5. CASE o \notin DOMAIN p.ops
    <3>1. /\ OpInv(u.ops[o], o, Ids(u, o), Sent(u, o), <<>>)
          /\ o \notin 1..p.nextJobId
      BY <2>1, <2>5 DEF Grown
    <3>2. u.signals[o] = <<>> /\ o # op
      BY <1>3, <2>1, <2>5, <3>1 DEF Grown
    <3> QED BY <1>1, <1>7, <1>8, <2>2, <3>1, <3>2
  <2> QED BY <2>3, <2>4, <2>5
<1> QED
  BY <1>2, <1>4, <1>5, <1>6, <1>7, <1>8, <1>9, <1>10 DEF OpsInv

(* What is left to create.                                                 *)
Left(p, d, k) ==
    IF Deeper(p, d, k) THEN With(NoMap, p.nextJobId + 1, k + 1) ELSE NoMap

LEMMA LevelAnswered ==
    ASSUME NEW p, NEW u, NEW t, NEW q, NEW op, NEW d, NEW k, NEW dir, NEW sig,
           Good(p), Part(p, q, op, d), p.ops[op].type = "MakeDir",
           LevelOf(p, op, d, k),
           Filled(p, u, q, op, d, k, Len(Levels(p, d)[k])),
           Closes(u, t, q, d, dir, sig), q.type \notin Lasting,
           ~dir.hasError, dir.levels = Levels(p, d),
           dir.uploads = u.uploadDirs[d].uploads, dir.mkdirs = Left(p, d, k),
           sig = IF dir.mkdirs = NoMap /\ dir.uploads = {} THEN <<"ok">>
                 ELSE <<>>
    PROVE  Answered(p, t, q, op)
<1>1. Grown(p, u, q, op, d)
  BY DEF Filled
<1>2. /\ Wired(t) /\ OpsInv(t) /\ Ids(t, op) = {} /\ Sent(t, op) = {}
      /\ \A o \in DOMAIN u.ops : o # op => /\ Ids(t, o) = Ids(u, o)
                                           /\ Sent(t, o) = Sent(u, o)
      /\ t.uploadDirs[d] = dir /\ t.signals[d] = sig
      /\ DOMAIN t.uploadDirs = DOMAIN p.uploadDirs
      /\ \A i \in 1..u.nextJobId : i # d => t.signals[i] = u.signals[i]
      /\ Kids(t, d) = Kids(u, d) /\ FilesIn(t, d) = FilesIn(u, d)
      /\ DirsIn(t, d) = DirsIn(u, d)
  BY <1>1, ClosesFacts
<1>3. /\ d \in 1..p.nextJobId /\ d # op /\ op \in DOMAIN p.ops
      /\ Wired(p) /\ d \in DOMAIN p.uploadDirs /\ DirInv(p, d) /\ d \in Nat
      /\ p.uploadDirs[d] \in Dir /\ op \in Kids(p, d)
      /\ p.nextJobId \in Nat /\ u.nextJobId \in Nat
      /\ p.nextJobId <= u.nextJobId
  <2>1. /\ d \in 1..p.nextJobId /\ d # op /\ op \in DOMAIN p.ops
        /\ Wired(p) /\ DirInv(p, d) /\ d \in Nat
        /\ p.uploadDirs[d] \in Dir /\ op \in Kids(p, d)
    BY PartFacts
  <2>2. d \in DOMAIN p.uploadDirs
    BY DEF Part
  <2>3. p.nextJobId \in Nat /\ p.nextJobId <= u.nextJobId /\ u \in State
    BY <1>1 DEF Grown, Plain
  <2>4. u.nextJobId \in Nat
    BY <2>3, StateType
  <2> QED BY <2>1, <2>2, <2>3, <2>4
<1>4. t.ops = u.ops /\ t.nextJobId = u.nextJobId /\ q.id \notin DOMAIN t.jobs
  BY DEF Closes, Without
<1>5. /\ k \in 1..Len(Levels(p, d)) /\ Len(Levels(p, d)) \in Nat
      /\ Levels(p, d) # <<>>
      /\ Counts(Levels(p, d))[k] =
            Counts(Levels(p, d))[k - 1] + Len(Levels(p, d)[k])
  <2>1. Levels(p, d) \in Seq(Seq(LocalFiles)) /\ Levels(p, d) # <<>>
    BY <1>3 DEF Levels, Dir, DirInv
  <2>2. k \in 1..Len(Levels(p, d))
    BY DEF LevelOf
  <2> QED BY <2>1, <2>2, CountsFacts
<1>6. /\ IsFiniteSet(FilesIn(t, d))
      /\ Cardinality(FilesIn(t, d)) = Counts(dir.levels)[k]
      /\ DirsIn(t, d) = IF Deeper(p, d, k)
                        THEN DirsIn(p, d) \union {p.nextJobId + 1}
                        ELSE DirsIn(p, d)
      /\ dir.uploads = {f \in FilesIn(u, d) : Ids(u, f) # {}}
  BY <1>2, <1>5 DEF Filled
<1>7. dir.uploads = {f \in FilesIn(t, d) : Ids(t, f) # {}}
  <2>1. op \notin FilesIn(u, d) /\ FilesIn(u, d) \subseteq DOMAIN u.ops
    <3>1. u.ops[op].type = "MakeDir"
      BY <1>3 DEF Grown, Filled
    <3> QED BY <3>1 DEF FilesIn, Kids
  <2>2. \A f \in FilesIn(u, d) : Ids(t, f) = Ids(u, f)
    BY <1>2, <2>1
  <2> QED BY <1>2, <1>6, <2>2
<1>8. \A o \in DirsIn(p, d) : Ids(t, o) = {}
  <2> TAKE o \in DirsIn(p, d)
  <2>1. o \in DOMAIN p.ops /\ o \in DOMAIN u.ops
    BY <1>1 DEF DirsIn, Kids, Grown
  <2>2. CASE o = op
    BY <1>2, <2>2
  <2>3. CASE o # op
    <3>1. Ids(t, o) = Ids(p, o)
      BY <1>1, <1>2, <2>1, <2>3 DEF Grown
    <3>2. Ids(p, o) = {}
      BY <2>3 DEF LevelOf
    <3> QED BY <3>1, <3>2
  <2> QED BY <2>2, <2>3
<1>9. d + 1 \in DirsIn(p, d) /\ d + 1 \in 1..p.nextJobId
  <2>1. d + 1 \in DirsIn(p, d)
    BY <1>3 DEF DirInv
  <2> QED BY <1>3, <2>1 DEF DirsIn, Kids, Wired, Plain
<1>10. DirInv(t, d)
  <2>1. CASE Deeper(p, d, k)
    <3> DEFINE n == p.nextJobId + 1
               j == k + 1
    <3>1. /\ DirsIn(t, d) = DirsIn(p, d) \union {n} /\ n \in DirsIn(t, d)
          /\ j \in 1..Len(dir.levels) /\ j - 1 = k /\ j # 1
          /\ dir.mkdirs = With(NoMap, n, j) /\ n # d + 1
      BY <1>3, <1>5, <1>6, <1>9, <2>1 DEF Left, Deeper
    <3> HIDE DEF n, j
    <3>2. dir.mkdirs # NoMap
      <4>1. With(NoMap, n, j) # NoMap
        BY NoMapNot
      <4> QED BY <3>1, <4>1
    <3>3. sig = <<>>
      BY <3>2
    <3>4. \A o \in DirsIn(t, d) : Ids(t, o) # {} => o = n
      BY <1>8, <3>1
    <3>5. AtLevel(t, d)
      <4>1. Cardinality(FilesIn(t, d)) = Counts(dir.levels)[j - 1]
        BY <1>6, <3>1
      <4> QED BY <1>2, <3>1, <3>3, <3>4, <4>1 DEF AtLevel
    <3> QED BY <1>2, <1>5, <1>6, <1>7, <1>9, <3>1, <3>5 DEF DirInv
  <2>2. CASE ~Deeper(p, d, k)
    <3>1. k = Len(dir.levels) /\ DirsIn(t, d) = DirsIn(p, d) /\ dir.mkdirs = NoMap
      BY <1>5, <1>6, <2>2 DEF Left, Deeper
    <3>2. sig = IF dir.uploads = {} THEN <<"ok">> ELSE <<>>
      BY <3>1
    <3>3. AllCreated(t, d)
      BY <1>2, <1>6, <1>8, <3>1, <3>2 DEF AllCreated
    <3> QED BY <1>2, <1>5, <1>6, <1>7, <1>9, <3>1, <3>3 DEF DirInv
  <2> QED BY <2>1, <2>2
<1>11. Good(t)
  <2>1. DOMAIN t.uploadDirs = {d}
    BY <1>2, <1>3 DEF Wired, Plain
  <2> QED BY <1>2, <1>10, <2>1 DEF Good, DirsInv
<1>12. \A i \in 1..p.nextJobId : i # d => t.signals[i] = p.signals[i]
  <2> TAKE i \in 1..p.nextJobId
  <2>1. i \in 1..u.nextJobId /\ u.signals[i] = p.signals[i]
    BY <1>1, <1>3 DEF Grown
  <2> QED BY <1>2, <2>1
<1>13. Ends(p, t)
  <2>1. p.signals[d] = <<>>
    BY DEF LevelOf
  <2>2. CASE sig = <<>>
    BY <1>2, <1>12, <2>1, <2>2 DEF Ends
  <2>3. CASE sig = <<"ok">>
    BY <1>2, <1>3, <1>12, <2>1, <2>3 DEF Ends
  <2> QED BY <2>2, <2>3
<1>14. \A i \in (1..t.nextJobId) \ (1..p.nextJobId) : t.signals[i] = <<>>
  <2> TAKE i \in (1..t.nextJobId) \ (1..p.nextJobId)
  <2>1. i \in 1..u.nextJobId /\ i # d /\ u.signals[i] = <<>>
    BY <1>1, <1>3, <1>4 DEF Grown
  <2> QED BY <1>2, <2>1
<1>15. /\ DOMAIN p.ops \subseteq DOMAIN t.ops
       /\ \A o \in DOMAIN p.ops : t.ops[o].parent = p.ops[o].parent
       /\ \A o \in DOMAIN t.ops \ DOMAIN p.ops : t.ops[o].parent # 0
       /\ \A o \in DOMAIN p.ops : o # op => /\ Ids(t, o) = Ids(p, o)
                                            /\ Sent(t, o) = Sent(p, o)
       /\ \A o \in DOMAIN p.ops : o # op => t.ops[o] = p.ops[o]
  <2>1. d # 0
    BY <1>3
  <2>2. /\ DOMAIN p.ops \subseteq DOMAIN u.ops
        /\ \A o \in DOMAIN p.ops : /\ u.ops[o] = p.ops[o]
                                   /\ Ids(u, o) = Ids(p, o)
                                   /\ o # op => Sent(u, o) = Sent(p, o)
        /\ \A o \in DOMAIN u.ops \ DOMAIN p.ops : u.ops[o].parent = d
    BY <1>1 DEF Grown
  <2> QED BY <1>2, <1>4, <2>1, <2>2
<1> QED
  BY <1>2, <1>3, <1>4, <1>11, <1>13, <1>14, <1>15 DEF Answered
(* handleMkdirStatus() of a part that was created, in a directory without  *)
(* an error.                                                               *)
MkdirDone(s, op, d) ==
    LET dir == s.uploadDirs[d]
        top == AddSubDirectory(s, d, dir.mkdirs[op] + 1)
        u == AddFiles(top, d, dir.levels[dir.mkdirs[op]])
        done == [u EXCEPT !.uploadDirs[d].mkdirs = Without(@, op)]
        empty == /\ done.uploadDirs[d].mkdirs = NoMap
                 /\ done.uploadDirs[d].uploads = {}
    IN  IF u.uploadDirs[d].hasError THEN u
        ELSE IF empty THEN Finished(done, d, "ok") ELSE done

LEMMA MkdirIs ==
    ASSUME NEW s, NEW id, NEW status \in {"OK", "FAILURE"},
           NEW op, op = s.jobs[id], NEW d, d = s.ops[op].parent, d # 0,
           ~s.uploadDirs[d].hasError
    PROVE  HandleMkdirStatus(s, id, status) = Erase(MkdirDone(s, op, d), id)
<1>1. HandleMkdirStatus(s, id, status) =
          Erase(MkdirDone(s, s.jobs[id], s.ops[s.jobs[id]].parent), id)
  BY DEF HandleMkdirStatus, MkdirDone
<1> QED
  BY <1>1

(* A directory of an upload was created, or exists already.                *)
LEMMA LevelCreated ==
    ASSUME FilesAreWhole, NEW p, NEW q, NEW op, NEW d, Good(p), Of(p, q, op),
           q.type = "MKDIR", p.ops[op].parent = d, d # 0,
           NEW status \in {"OK", "FAILURE"}
    PROVE  Answered(p, HandleStatus(Less(p, q), q.id, status), q, op)
<1> DEFINE job == p.ops[op]
           s == Less(p, q)
           old == p.uploadDirs[d]
           top == AddSubDirectory(s, d, old.mkdirs[op] + 1)
           u == AddFiles(top, d, old.levels[old.mkdirs[op]])
           before == u.uploadDirs[d]
           done == [u EXCEPT !.uploadDirs[d].mkdirs = Without(@, op)]
           empty == /\ done.uploadDirs[d].mkdirs = NoMap
                    /\ done.uploadDirs[d].uploads = {}
           v == IF empty THEN Finished(done, d, "ok") ELSE done
           t == Erase(v, q.id)
<1>1. /\ Alone(p, q, op) /\ job \in Op /\ q.type = InitialRequest(job.type)
  BY StageOf DEF Listing, Creating, Asking, Moving, Closing
<1>2. job.type = "MakeDir"
  BY <1>1, InitialRequestType DEF Op
<1>3. Part(p, q, op, d)
  BY <1>1 DEF Part, Of, Good, Wired, Plain
<1>4. /\ p \in State /\ old \in Dir /\ op \in Kids(p, d) /\ d # op
      /\ d \in DOMAIN p.uploadDirs /\ d \in 1..p.nextJobId
  BY <1>3, PartFacts DEF Part
<1>5. op \in DirsIn(p, d)
  BY <1>2, <1>4 DEF DirsIn, FilesIn
<1>6. PICK k : LevelOf(p, op, d, k)
  BY <1>3, <1>5, LevelIs
<1>7. /\ old.mkdirs[op] = k /\ ~old.hasError /\ k \in 1..Len(old.levels)
      /\ p.signals[d] = <<>>
  <2>1. With(NoMap, op, k)[op] = k
    BY NoMapNot
  <2> QED BY <1>6, <2>1 DEF LevelOf, Levels
<1> DEFINE n == p.nextJobId + 1
           m == Len(Levels(p, d)[k])
<1>8. Filled(p, u, q, op, d, k, m)
  BY <1>3, <1>6, <1>7, LevelFilled DEF Levels
<1>9. /\ s \in State /\ s.jobs[q.id] = op /\ s.ops = p.ops
      /\ s.uploadDirs = p.uploadDirs
  BY LessIs
<1>10. HandleStatus(s, q.id, status) =
           Erase(IF u.uploadDirs[d].hasError THEN u ELSE v, q.id)
  <2>1. HandleStatus(s, q.id, status) = HandleMkdirStatus(s, q.id, status)
    BY <1>2, <1>9 DEF HandleStatus
  <2>2. HandleMkdirStatus(s, q.id, status) =
            Erase(IF u.uploadDirs[d].hasError THEN u ELSE v, q.id)
    <3>1. HandleMkdirStatus(s, q.id, status) = Erase(MkdirDone(s, op, d), q.id)
      <4> HIDE DEF s, u, top
      <4> QED BY <1>7, <1>9, MkdirIs
    <3>2. s.uploadDirs[d] = old
      BY <1>9
    <3>3. MkdirDone(s, op, d) = IF u.uploadDirs[d].hasError THEN u ELSE v
      <4> HIDE DEF s
      <4> QED BY <3>2 DEF MkdirDone
    <3> QED BY <3>1, <3>3
  <2> QED BY <2>1, <2>2
<1> HIDE DEF u, m
<1>11. /\ ~before.hasError /\ before.levels = Levels(p, d)
       /\ before.mkdirs = Ahead(p, op, d, k)
       /\ Grown(p, u, q, op, d)
  BY <1>8 DEF Filled
<1>12. /\ u \in State /\ d \in DOMAIN u.uploadDirs /\ before \in Dir
       /\ d \in DOMAIN u.signals /\ u.signals[d] = <<>>
       /\ before.mkdirs \in Maps(Nat, Nat)
  <2>1. /\ u \in State /\ d \in DOMAIN u.uploadDirs
        /\ DOMAIN u.signals = 1..u.nextJobId
        /\ p.nextJobId \in Nat /\ p.nextJobId <= u.nextJobId
        /\ u.signals[d] = p.signals[d]
    BY <1>4, <1>11 DEF Grown, Plain
  <2>2. before \in Dir /\ u.nextJobId \in Nat
    BY <2>1, StateType
  <2>3. d \in DOMAIN u.signals
    BY <1>4, <2>1, <2>2
  <2> QED BY <1>7, <2>1, <2>2, <2>3 DEF Dir
<1> DEFINE rest == Without(before.mkdirs, op)
           dir == [before EXCEPT !.mkdirs = rest]
           sig == IF dir.mkdirs = NoMap /\ dir.uploads = {} THEN <<"ok">>
                  ELSE <<>>
<1>13. rest = Left(p, d, k)
  <2>1. op # n
    <3>1. op \in 1..p.nextJobId /\ p.nextJobId \in Nat
      BY <1>4, <1>11 DEF Good, Wired, Plain, Kids, Grown
    <3> QED BY <3>1
  <2> DEFINE j == k + 1
  <2> HIDE DEF n, j
  <2>2. CASE Deeper(p, d, k)
    <3>1. before.mkdirs = With(With(NoMap, op, k), n, j)
      BY <1>11, <2>2 DEF Ahead, n, j
    <3>2. rest = With(NoMap, n, j)
      BY <2>1, <3>1, AheadWithout
    <3> QED BY <2>2, <3>2 DEF Left, n, j
  <2>3. CASE ~Deeper(p, d, k)
    <3>1. before.mkdirs = With(NoMap, op, k)
      BY <1>11, <2>3 DEF Ahead
    <3>2. rest = NoMap
      BY <3>1, LastWithout
    <3> QED BY <2>3, <3>2 DEF Left
  <2> QED BY <2>2, <2>3
<1>14. rest \in Maps(Nat, Nat)
  BY <1>12, MapWithout
<1>15. done = [u EXCEPT !.uploadDirs = [u.uploadDirs EXCEPT ![d] = dir]]
  BY <1>12
<1> HIDE DEF before, rest, done
<1>16. /\ dir \in Dir /\ dir.uploads = before.uploads /\ dir.mkdirs = rest
       /\ dir.hasError = before.hasError /\ dir.levels = before.levels
  BY <1>12, <1>14 DEF Dir
<1> HIDE DEF dir
<1>17. done.uploadDirs[d] = dir /\ done.signals = u.signals
  BY <1>12, <1>15 DEF State
<1>18. sig \in Results
  <2>1. sig \in {<<>>, <<"ok">>} /\ <<>> \in Results
    BY DEF Results
  <2> HIDE DEF sig
  <2> QED BY <2>1, ReportOne
<1>19. v = [u EXCEPT !.uploadDirs = [u.uploadDirs EXCEPT ![d] = dir],
                     !.signals = [u.signals EXCEPT ![d] = sig]]
  <2> DEFINE uu == [u.uploadDirs EXCEPT ![d] = dir]
  <2>1. empty <=> dir.mkdirs = NoMap /\ dir.uploads = {}
    BY <1>17
  <2> HIDE DEF uu, empty
  <2>2. CASE empty
    <3>1. sig = <<"ok">>
      BY <2>1, <2>2
    <3> HIDE DEF sig
    <3>2. v = [done EXCEPT !.signals = [u.signals EXCEPT ![d] = sig]]
      BY <1>12, <1>17, <2>2, <3>1, ReportOne DEF Finished
    <3> QED BY <1>12, <1>15, <3>2 DEF State, uu
  <2>3. CASE ~empty
    <3>1. sig = <<>>
      BY <2>1, <2>3
    <3> HIDE DEF sig
    <3>2. [u.signals EXCEPT ![d] = sig] = u.signals
      BY <1>12, <3>1, StateType
    <3> QED BY <1>12, <1>15, <2>3, <3>2 DEF State, uu
  <2> QED BY <2>2, <2>3
<1> HIDE DEF sig, v, empty
<1>20. Closes(u, t, q, d, dir, sig)
  BY <1>12, <1>16, <1>18, <1>19, ClosesIs
<1>21. q.type \notin Lasting
  BY DEF Lasting, OnHandles
<1>22. sig = IF dir.mkdirs = NoMap /\ dir.uploads = {} THEN <<"ok">> ELSE <<>>
  BY DEF sig
<1>23. dir.uploads = u.uploadDirs[d].uploads /\ dir.mkdirs = Left(p, d, k)
       /\ ~dir.hasError /\ dir.levels = Levels(p, d)
  BY <1>11, <1>13, <1>16 DEF before
<1> HIDE DEF t
<1>24. Answered(p, t, q, op)
  BY <1>2, <1>3, <1>6, <1>8, <1>20, <1>21, <1>22, <1>23, LevelAnswered DEF m
<1>25. HandleStatus(s, q.id, status) = t
  BY <1>10, <1>11 DEF t, before
<1> QED
  BY <1>24, <1>25 DEF s
----------------------------------------------------------------------------
(* The upload of a directory is started.                                   *)
LEMMA DirectoriesType ==
    ASSUME NEW levels \in Directories
    PROVE  levels \in Seq(Seq(LocalFiles)) /\ levels # <<>>
<1>1. PICK depth \in 1..MaxDepth :
         levels \in [1..depth -> UNION {[1..n -> LocalFiles] :
                                           n \in 0..MaxDirFiles}]
  BY DEF Directories
<1>2. depth \in Nat /\ 1 \in 1..depth
  BY <1>1, DirectoriesAssumption
<1>3. ASSUME NEW level \in UNION {[1..n -> LocalFiles] : n \in 0..MaxDirFiles}
      PROVE  level \in Seq(LocalFiles)
  <2>1. PICK n \in 0..MaxDirFiles : level \in [1..n -> LocalFiles]
    BY <1>3
  <2>2. n \in Nat
    BY <2>1, DirectoriesAssumption
  <2> QED BY <2>1, <2>2
<1>4. levels \in [1..depth -> Seq(LocalFiles)]
  BY <1>1, <1>3
<1>5. levels \in Seq(Seq(LocalFiles)) /\ Len(levels) = depth
  BY <1>2, <1>4
<1> QED
  BY <1>2, <1>5

(* d is a new directory, whose top level is requested by a part with the   *)
(* id after d.                                                             *)
NewDir(levels, n) ==
    [hasError |-> FALSE, uploads |-> {}, levels |-> levels,
     mkdirs |-> With(NoMap, n, 1)]

Opens(p, u, d, n, job, dir) ==
    /\ u \in State /\ d = p.nextJobId + 1 /\ n = d + 1 /\ u.nextJobId = n
    /\ DOMAIN u.ops = {n} /\ u.ops[n] = job
    /\ DOMAIN u.jobs = {n} /\ u.jobs[n] = n
    /\ u.requests = {FirstRequest(job, n)}
    /\ DOMAIN u.uploadDirs = {d} /\ u.uploadDirs[d] = dir
    /\ DOMAIN u.signals = 1..n
    /\ \A i \in 1..p.nextJobId : u.signals[i] = p.signals[i]
    /\ u.signals[d] = <<>> /\ u.signals[n] = <<>>

LEMMA OpensIs ==
    ASSUME NEW p, NEW levels \in Directories, Good(p), DOMAIN p.ops = {},
           DOMAIN p.uploadDirs = {}, NEW d, d = p.nextJobId + 1,
           NEW n, n = d + 1, NEW op \in Op
    PROVE  Opens(p, [CreateJob(NewId(p), op) EXCEPT
                        !.uploadDirs = With(@, d, NewDir(levels, n))],
                 d, n, New(op), NewDir(levels, n))
<1> DEFINE s == NewId(p)
           t == CreateJob(s, op)
           dir == NewDir(levels, n)
           uu == With(t.uploadDirs, d, dir)
           u == [t EXCEPT !.uploadDirs = uu]
           job == New(op)
<1>1. /\ p \in State /\ p.nextJobId \in Nat /\ Plain(p)
      /\ p.signals \in Maps(Nat, Results) /\ DOMAIN p.signals = 1..p.nextJobId
      /\ d \in Nat /\ n \in Nat
  BY StateType DEF Good, Wired, Plain
<1>2. DOMAIN p.jobs = {} /\ p.requests = {}
  <2>1. DOMAIN p.jobs = {}
    BY <1>1 DEF Plain
  <2>2. OneEach({}, p.requests)
    BY <2>1 DEF Good, Wired
  <2> QED BY <2>1, <2>2 DEF OneEach
<1>3. /\ s \in State /\ s.jobs = p.jobs /\ s.ops = p.ops
      /\ s.uploadDirs = p.uploadDirs /\ s.requests = p.requests
      /\ s.nextJobId = d /\ s.signals = With(p.signals, d, <<>>)
  <2>1. With(p.signals, d, <<>>) \in Maps(Nat, Results)
    <3>1. <<>> \in Results
      BY DEF Results
    <3> QED BY <1>1, <3>1, WithType
  <2> QED BY <1>1, <2>1 DEF NewId, State
<1>4. dir \in Dir
  <2>1. NoMap \in Maps(Nat, Nat)
    BY NoMapType
  <2>2. With(NoMap, n, 1) \in Maps(Nat, Nat)
    BY <1>1, <2>1, WithType
  <2> QED BY <2>2, DirectoriesType DEF NewDir, Dir
<1> HIDE DEF s, dir
<1>5. Creates(s, t, job, n)
  BY <1>3, CreateIs
<1> HIDE DEF t, job
<1>6. /\ t \in State /\ t.nextJobId = n
      /\ t.ops = With(s.ops, n, job) /\ t.jobs = With(s.jobs, n, n)
      /\ t.requests = s.requests \union {FirstRequest(job, n)}
      /\ t.signals = With(s.signals, n, <<>>)
      /\ t.uploadDirs = s.uploadDirs
  BY <1>5 DEF Creates
<1>7. uu \in Maps(Nat, Dir) /\ DOMAIN uu = {d} /\ uu[d] = dir
  <2>1. t.uploadDirs \in Maps(Nat, Dir) /\ DOMAIN t.uploadDirs = {}
    BY <1>3, <1>6, StateType
  <2> DEFINE old == t.uploadDirs
  <2> HIDE DEF old
  <2>2. With(old, d, dir) \in Maps(Nat, Dir)
    BY <1>1, <1>4, <2>1, WithType DEF old
  <2>3. DOMAIN With(old, d, dir) = DOMAIN old \union {d}
    BY DEF With
  <2>4. With(old, d, dir)[d] = dir
    BY DEF With
  <2> QED BY <2>1, <2>2, <2>3, <2>4 DEF old
<1> HIDE DEF uu
<1>8. /\ u \in State /\ u.jobs = t.jobs /\ u.ops = t.ops /\ u.uploadDirs = uu
      /\ u.nextJobId = n /\ u.requests = t.requests /\ u.signals = t.signals
  BY <1>6, <1>7 DEF State
<1>9. DOMAIN t.ops = {n} /\ t.ops[n] = job
  BY <1>3, <1>6 DEF With
<1>10. DOMAIN t.jobs = {n} /\ t.jobs[n] = n
  BY <1>2, <1>3, <1>6 DEF With
<1>11. /\ DOMAIN s.signals = (1..p.nextJobId) \union {d}
       /\ s.signals[d] = <<>>
       /\ \A i \in 1..p.nextJobId : i # d => s.signals[i] = p.signals[i]
  BY <1>1, <1>3 DEF With
<1>12. /\ DOMAIN t.signals = (1..p.nextJobId) \union {d, n}
       /\ t.signals[n] = <<>>
       /\ \A i \in DOMAIN s.signals : i # n => t.signals[i] = s.signals[i]
  BY <1>6, <1>11 DEF With
<1>13. /\ 1..n = (1..p.nextJobId) \union {d, n} /\ d # n
       /\ \A i \in 1..p.nextJobId : i # d /\ i # n
  BY <1>1
<1>14. /\ t.signals[d] = <<>>
       /\ \A i \in 1..p.nextJobId : t.signals[i] = p.signals[i]
  BY <1>11, <1>12, <1>13
<1> HIDE DEF u
<1>15. Opens(p, u, d, n, job, dir)
  BY <1>2, <1>3, <1>6, <1>7, <1>8, <1>9, <1>10, <1>12, <1>13, <1>14 DEF Opens
<1> QED
  BY <1>15 DEF u, uu, t, s, dir, job

LEMMA DirStarted ==
    ASSUME NEW p, NEW u, NEW levels \in Directories, Good(p),
           DOMAIN p.ops = {}, DOMAIN p.uploadDirs = {}, NEW d, NEW n, NEW op,
           Startable(op), op.type = "MakeDir", op.parent = d,
           Opens(p, u, d, n, New(op), NewDir(levels, n))
    PROVE  Good(u)
<1> DEFINE job == New(op)
           dir == NewDir(levels, n)
<1>1. /\ u \in State /\ n = d + 1 /\ u.nextJobId = n
      /\ DOMAIN u.ops = {n} /\ u.ops[n] = job
      /\ DOMAIN u.jobs = {n} /\ u.jobs[n] = n
      /\ u.requests = {FirstRequest(job, n)}
      /\ DOMAIN u.uploadDirs = {d} /\ u.uploadDirs[d] = dir
      /\ DOMAIN u.signals = 1..n /\ u.signals[d] = <<>> /\ u.signals[n] = <<>>
      /\ d = p.nextJobId + 1
  BY DEF Opens
<1>2. d \in Nat /\ d # 0 /\ n \in Nat /\ d \in 1..n /\ n \in 1..n /\ d # n
  <2>1. p.nextJobId \in Nat
    BY StateType DEF Good, Wired, Plain
  <2> QED BY <1>1, <2>1
<1>3. op \in Op /\ job.type = "MakeDir" /\ job.parent = d
  BY NewFields DEF Startable
<1>4. OpInv(job, n, {n}, {FirstRequest(job, n)}, <<>>)
  BY NewOpInv
<1>5. FirstRequest(job, n).id = n
  BY DEF FirstRequest
<1> HIDE DEF job
<1>6. Plain(u)
  BY <1>1, <1>2, <1>3 DEF Plain
<1>7. OneEach(DOMAIN u.jobs, u.requests)
  BY <1>1, <1>5 DEF OneEach
<1>8. Ids(u, n) = {n} /\ Sent(u, n) = {FirstRequest(job, n)}
  BY <1>1, <1>5 DEF Ids, Sent
<1>9. OpsInv(u)
  BY <1>1, <1>4, <1>8 DEF OpsInv
<1>10. Kids(u, d) = {n} /\ FilesIn(u, d) = {} /\ DirsIn(u, d) = {n}
  BY <1>1, <1>3 DEF Kids, FilesIn, DirsIn
<1>11. /\ ~dir.hasError /\ dir.uploads = {} /\ dir.levels = levels
       /\ dir.mkdirs = With(NoMap, n, 1)
  BY DEF NewDir
<1>12. levels # <<>> /\ 1 \in 1..Len(levels) /\ Counts(levels)[0] = 0
  <2>1. levels \in Seq(Seq(LocalFiles)) /\ levels # <<>>
    BY DirectoriesType
  <2>2. Len(levels) \in Nat /\ Len(levels) # 0
    BY <2>1
  <2>3. Counts(levels)[0] = 0
    BY <2>1, CountsFacts
  <2> QED BY <2>1, <2>2, <2>3
<1> HIDE DEF dir
<1>13. AtLevel(u, d)
  <2>1. Cardinality(FilesIn(u, d)) = Counts(levels)[1 - 1]
    BY <1>10, <1>12, FS_EmptySet
  <2>2. /\ n \in DirsIn(u, d) /\ 1 \in 1..Len(dir.levels)
        /\ dir.mkdirs = With(NoMap, n, 1)
        /\ \A o \in DirsIn(u, d) : Ids(u, o) # {} => o = n
        /\ Cardinality(FilesIn(u, d)) = Counts(dir.levels)[1 - 1]
        /\ Kids(u, d) = {d + 1}
    BY <1>1, <1>10, <1>11, <1>12, <2>1
  <2> QED BY <1>1, <1>11, <2>2 DEF AtLevel
<1>14. DirInv(u, d)
  <2>1. IsFiniteSet(FilesIn(u, d))
    BY <1>10, FS_EmptySet
  <2> QED BY <1>1, <1>10, <1>11, <1>12, <1>13, <2>1 DEF DirInv
<1> QED
  BY <1>1, <1>6, <1>7, <1>9, <1>14 DEF Good, Wired, DirsInv
----------------------------------------------------------------------------
(* The answers of the server.                                              *)
Asks(q, job) ==
    \/ q.type = "STAT" /\ job.type = "StatFile"
    \/ q.type = "REMOVE" /\ job.type = "Rm"
    \/ q.type = "MKDIR" /\ job.type = "MakeDir"
    \/ q.type \in {"OPENDIR", "READDIR", "CLOSE"} /\ job.type = "ListDir"
    \/ q.type \in {"OPEN", "CLOSE"} /\ job.type = "CreateFile"
    \/ q.type \in {"OPEN", "FSTAT", "READ", "CLOSE"} /\ job.type = "Download"
    \/ q.type \in {"OPEN", "WRITE", "CLOSE"} /\ job.type = "UploadFile"
    \/ q.type = "FSTAT" /\ job.type = "UploadFile" /\ job.append

LEMMA AsksFor ==
    ASSUME NEW p, NEW q, NEW op, Good(p), Of(p, q, op)
    PROVE  /\ Asks(q, p.ops[op]) /\ Shape(p.ops[op])
           /\ p.ops[op] \in Op /\ op \in Nat
<1> DEFINE job == p.ops[op]
           I == Ids(p, op)
           Q == Sent(p, op)
<1>1. /\ OpInv(job, op, I, Q, p.signals[op]) /\ job \in Op /\ op \in Nat
  BY StageOf
<1>2. \/ Requesting(job, op, I, Q) /\ q.type = InitialRequest(job.type)
      \/ Listing(job, op, I, Q) /\ q.type \in {"READDIR", "CLOSE"}
      \/ Creating(job, op, I, Q) /\ q.type = "CLOSE"
      \/ Asking(job, op, I, Q) /\ q.type = "FSTAT"
      \/ Moving(job, I, Q)
            /\ q.type = IF job.type = "Download" THEN "READ" ELSE "WRITE"
      \/ Closing(job, I, Q) /\ q.type = "CLOSE"
  BY StageOf
<1>3. Asks(q, job)
  <2>1. CASE q.type = InitialRequest(job.type)
    <3>1. job.type \in Types
      BY <1>1 DEF Op
    <3> HIDE DEF job
    <3> QED BY <2>1, <3>1 DEF Asks, InitialRequest, Types
  <2>2. CASE Listing(job, op, I, Q) /\ q.type \in {"READDIR", "CLOSE"}
    BY <2>2 DEF Asks, Listing
  <2>3. CASE Creating(job, op, I, Q) /\ q.type = "CLOSE"
    BY <2>3 DEF Asks, Creating
  <2>4. CASE Asking(job, op, I, Q) /\ q.type = "FSTAT"
    BY <2>4 DEF Asks, Asking
  <2>5. CASE Moving(job, I, Q)
             /\ q.type = IF job.type = "Download" THEN "READ" ELSE "WRITE"
    BY <2>5 DEF Asks, Moving, Transfers
  <2>6. CASE Closing(job, I, Q) /\ q.type = "CLOSE"
    BY <2>6 DEF Asks, Closing, Transfers
  <2> QED BY <1>2, <2>1, <2>2, <2>3, <2>4, <2>5, <2>6
<1> QED
  BY <1>1, <1>3 DEF OpInv

(* Of a directory, only its top level is refused.                          *)
LEMMA Refusing ==
    ASSUME NEW p, NEW q, NEW op, Good(p), Of(p, q, op),
           p.ops[op].parent \in {0, op - 1}
    PROVE  Answered(p, HandleStatus(Less(p, q), q.id, Refusal(q.type)), q, op)
<1> DEFINE job == p.ops[op]
           t == HandleStatus(Less(p, q), q.id, Refusal(q.type))
<1>1. Asks(q, job) /\ Shape(job) /\ job \in Op /\ op \in Nat
  BY AsksFor
<1>2. job.parent # 0 => job.type \in {"MakeDir", "UploadFile"}
  BY <1>1 DEF Shape
<1>3. op \in DOMAIN p.ops
  BY DEF Of
<1>4. job.type = "UploadFile" => job.parent = 0
  <2>1. ASSUME job.type = "UploadFile", job.parent # 0
        PROVE  FALSE
    <3>1. op # job.parent + 1
      BY <1>3, <2>1, NoParentError
    <3> QED BY <1>1, <2>1, <3>1
  <2> QED BY <2>1
<1>5. q.type # "MKDIR" => Refusal(q.type) = "FAILURE"
  BY DEF Refusal
<1>6. CASE q.type = "MKDIR" /\ job.parent # 0
  <2>1. op = job.parent + 1 /\ Refusal(q.type) = "DENIED"
    BY <1>1, <1>6 DEF Refusal
  <2> QED BY <1>6, <2>1, TopRefused
<1> HIDE DEF t
<1>7. CASE ~(q.type = "MKDIR" /\ job.parent # 0)
  <2>0. ASSUME job.parent = 0,
               job.type \in {"StatFile", "Rm", "CreateFile", "MakeDir"},
               q.type \notin Lasting
        PROVE  Settled(p, t, q, op)
    BY <2>0, PlainStatus DEF t
  <2>1. Settled(p, t, q, op)
    <3>1. CASE q.type = "STAT" /\ job.type = "StatFile"
      BY <1>2, <2>0, <3>1 DEF Lasting, OnHandles
    <3>2. CASE q.type = "REMOVE" /\ job.type = "Rm"
      BY <1>2, <2>0, <3>2 DEF Lasting, OnHandles
    <3>3. CASE q.type = "MKDIR" /\ job.type = "MakeDir"
      BY <1>7, <2>0, <3>3 DEF Lasting, OnHandles
    <3>4. CASE job.type = "ListDir"
      BY <3>4, ListStatus DEF t
    <3>5. CASE q.type \in {"OPEN", "CLOSE"} /\ job.type = "CreateFile"
      BY <1>2, <2>0, <3>5 DEF Lasting, OnHandles
    <3>6. CASE q.type = "OPEN" /\ job.type \in Transfers
      <4>1. job.parent = 0
        BY <1>2, <1>4, <3>6 DEF Transfers
      <4> QED BY <3>6, <4>1, TransferRefused DEF t
    <3>7. CASE q.type = "FSTAT" /\ job.type = "Download"
      BY <3>7, DownloadSizeRefused DEF t
    <3>12. CASE q.type = "FSTAT" /\ job.type = "UploadFile"
      <4>1. Refusal(q.type) = "FAILURE"
        BY <1>5, <3>12
      <4> QED BY <3>12, <4>1, AppendRefused DEF t
    <3>8. CASE q.type = "READ" /\ job.type = "Download"
      <4>1. Refusal(q.type) # "EOF"
        BY <1>5, <3>8
      <4> QED BY <3>8, <4>1, ReadStatus DEF t
    <3>9. CASE q.type = "CLOSE" /\ job.type = "Download"
      BY <3>9, ClosedDownload DEF t
    <3>10. CASE q.type = "WRITE" /\ job.type = "UploadFile"
      <4>1. Refusal(q.type) # "OK"
        BY <1>5, <3>10
      <4> QED BY <1>4, <3>10, <4>1, WriteRefused DEF t
    <3>11. CASE q.type = "CLOSE" /\ job.type = "UploadFile"
      BY <1>4, <3>11, ClosedUpload DEF t
    <3> HIDE DEF job
    <3> QED BY <1>1, <3>1, <3>2, <3>3, <3>4, <3>5, <3>6, <3>7, <3>8, <3>9,
               <3>10, <3>11, <3>12 DEF Asks, Transfers, job
  <2> QED BY <2>1, SettledAnswered DEF t
<1> QED
  BY <1>6, <1>7

(* A request is carried out, and its status says so.                       *)
LEMMA Accepted ==
    ASSUME NEW p, NEW q, NEW op, Good(p), Of(p, q, op),
           q.type \in {"REMOVE", "CLOSE"}
    PROVE  Answered(p, HandleStatus(Less(p, q), q.id, "OK"), q, op)
<1> DEFINE job == p.ops[op]
           t == HandleStatus(Less(p, q), q.id, "OK")
<1>1. Asks(q, job) /\ Shape(job)
  BY AsksFor
<1>2. job.parent # 0 => job.type \in {"MakeDir", "UploadFile"}
  BY <1>1 DEF Shape
<1>3. q.type \notin Lasting
  BY DEF Lasting, OnHandles
<1>4. CASE job.type = "UploadFile" /\ job.parent # 0
  <2>1. q.type = "CLOSE"
    BY <1>1, <1>4 DEF Asks
  <2> QED BY <1>4, <2>1, ChildClosed
<1>5. CASE ~(job.type = "UploadFile" /\ job.parent # 0)
  <2> HIDE DEF t
  <2>1. CASE job.type \in {"Rm", "CreateFile"}
    <3>1. Settled(p, t, q, op)
      BY <1>2, <1>3, <2>1, PlainStatus DEF t
    <3> QED BY <3>1, SettledAnswered DEF t
  <2>2. CASE job.type = "ListDir"
    <3>1. Settled(p, t, q, op)
      BY <2>2, ListStatus DEF t
    <3> QED BY <3>1, SettledAnswered DEF t
  <2>3. CASE job.type = "Download" /\ q.type = "CLOSE"
    <3>1. Settled(p, t, q, op)
      BY <2>3, ClosedDownload DEF t
    <3> QED BY <3>1, SettledAnswered DEF t
  <2>4. CASE job.type = "UploadFile" /\ q.type = "CLOSE"
    <3>1. Settled(p, t, q, op)
      BY <1>5, <2>4, ClosedUpload DEF t
    <3> QED BY <3>1, SettledAnswered DEF t
  <2> HIDE DEF job
  <2> QED BY <1>1, <2>1, <2>2, <2>3, <2>4 DEF Asks
<1> QED
  BY <1>4, <1>5

(* A file is opened.                                                       *)
LEMMA FileOpened ==
    ASSUME NEW p, NEW q, NEW op, NEW n \in Nat, Good(p), Of(p, q, op),
           q.type = "OPEN"
    PROVE  Answered(p, HandleHandle(Opened(Less(p, q), op, n), q.id), q, op)
<1> DEFINE job == p.ops[op]
           t == HandleHandle(Opened(Less(p, q), op, n), q.id)
<1>1. Asks(q, job)
  BY AsksFor
<1> HIDE DEF t
<1>2. Settled(p, t, q, op)
  <2>1. CASE job.type = "CreateFile"
    BY <2>1, FileCreated DEF t
  <2>2. CASE job.type = "Download"
    BY <2>2, SizeAsked DEF t
  <2>3. CASE job.type = "UploadFile" /\ job.append
    BY <2>3, SizeAsked DEF t
  <2>4. CASE job.type = "UploadFile" /\ ~job.append
    BY <2>4, UploadStarts DEF t
  <2> HIDE DEF job
  <2> QED BY <1>1, <2>1, <2>2, <2>3, <2>4 DEF Asks, job
<1> QED
  BY <1>2, SettledAnswered DEF t

LEMMA NowIs ==
    /\ Now.jobs = jobs /\ Now.ops = ops /\ Now.uploadDirs = uploadDirs
    /\ Now.nextJobId = nextJobId /\ Now.requests = requests
    /\ Now.signals = signals
  BY DEF Now

(* The server refuses a part of a directory that is not its top level.     *)
Spoils(p, t, q, op) ==
    /\ p.ops[op].parent \notin {0, op - 1}
    /\ t = HandleStatus(Less(p, q), q.id, Refusal(q.type))

LEMMA Answering ==
    ASSUME FilesAreWhole, Good(Now), NEW q \in requests,
           NEW t \in Answers(Less(Now, q), q), NEW op, op = jobs[q.id]
    PROVE  /\ Of(Now, q, op)
           /\ Answered(Now, t, q, op) \/ Spoils(Now, t, q, op)
<1> DEFINE p == Now
           s == Less(Now, q)
           job == ops[op]
           status(code) == HandleStatus(s, q.id, code)
<1>1. /\ q \in p.requests /\ op = p.jobs[q.id] /\ job = p.ops[op]
      /\ Wired(p)
  BY NowIs DEF Good
<1>2. Of(p, q, op)
  BY <1>1, OfWired
<1> HIDE DEF p
<1>3. Asks(q, job) /\ Shape(job) /\ job \in Op /\ op \in Nat
  BY <1>1, <1>2, AsksFor DEF p
<1>5. ASSUME t = status(Refusal(q.type))
      PROVE  Answered(p, t, q, op) \/ Spoils(p, t, q, op)
  <2>1. CASE job.parent \in {0, op - 1}
    BY <1>1, <1>2, <1>5, <2>1, Refusing DEF p
  <2>2. CASE job.parent \notin {0, op - 1}
    BY <1>1, <1>2, <1>5, <2>2 DEF Spoils, p
  <2> QED BY <2>1, <2>2
<1>6. ASSUME NEW u, Settled(p, u, q, op)
      PROVE  Answered(p, u, q, op)
  BY <1>2, <1>6, SettledAnswered DEF p
<1>7. CASE q.type = "OPEN"
  <2>1. \/ t = status(Refusal(q.type))
        \/ \E n \in RemoteSizes(op) : t = HandleHandle(Opened(s, op, n), q.id)
    BY <1>7 DEF Answers
  <2>2. CASE \E n \in RemoteSizes(op) : t = HandleHandle(Opened(s, op, n), q.id)
    <3>1. PICK n \in RemoteSizes(op) : t = HandleHandle(Opened(s, op, n), q.id)
      BY <2>2
    <3>2. n \in Nat
      BY FileSizesAssumption DEF RemoteSizes
    <3> QED BY <1>2, <1>7, <3>1, <3>2, FileOpened DEF p
  <2> QED BY <1>2, <1>5, <2>1, <2>2 DEF p
<1>8. CASE q.type = "OPENDIR"
  <2>1. \/ t = status(Refusal(q.type))
        \/ t = HandleHandle(s, q.id)
    BY <1>8 DEF Answers
  <2>2. Settled(p, HandleHandle(s, q.id), q, op)
    BY <1>2, <1>8, DirectoryOpened DEF p
  <2> QED BY <1>2, <1>5, <1>6, <2>1, <2>2 DEF p
<1>9. CASE q.type = "FSTAT"
  <2>1. \/ t = status(Refusal(q.type))
        \/ \E n \in Sizes(op) : t = HandleAttrs(s, q.id, n)
    BY <1>9 DEF Answers
  <2>2. CASE \E n \in Sizes(op) : t = HandleAttrs(s, q.id, n)
    <3>1. PICK n \in Sizes(op) : t = HandleAttrs(s, q.id, n)
      BY <2>2
    <3>2. CASE job.type = "Download"
      <4>1. n \in {job.remote, 0, NoSize}
        BY DEF Sizes
      <4>2. Settled(p, t, q, op)
        BY <1>1, <1>2, <1>9, <3>1, <3>2, <4>1, DownloadStarts DEF p
      <4> QED BY <1>2, <1>6, <4>2 DEF p
    <3>3. CASE job.type = "UploadFile"
      <4>1. n = job.remote \/ n = NoSize
        BY <3>3 DEF Sizes
      <4>2. Settled(p, t, q, op)
        BY <1>1, <1>2, <1>9, <3>1, <3>3, <4>1, AppendStarts, SizeUnknown DEF p
      <4> QED BY <1>2, <1>6, <4>2 DEF p
    <3> HIDE DEF job
    <3> QED BY <1>3, <1>9, <3>2, <3>3 DEF Asks
  <2> QED BY <1>2, <1>5, <2>1, <2>2 DEF p
<1>10. CASE q.type = "STAT"
  <2>1. \/ t = status(Refusal(q.type))
        \/ t = HandleAttrs(s, q.id, 0)
    BY <1>10 DEF Answers
  <2>2. Settled(p, HandleAttrs(s, q.id, 0), q, op)
    BY <1>2, <1>10, StatAnswer DEF p
  <2> QED BY <1>2, <1>5, <1>6, <2>1, <2>2 DEF p
<1>11. CASE q.type = "READDIR"
  <2>1. \/ t = status(Refusal(q.type))
        \/ t = status("EOF")
    BY <1>11 DEF Answers
  <2>2. job.type = "ListDir"
    <3> HIDE DEF job
    <3> QED BY <1>3, <1>11 DEF Asks
  <2>3. Settled(p, status("EOF"), q, op)
    BY <1>1, <1>2, <2>2, ListStatus DEF p
  <2> QED BY <1>2, <1>5, <1>6, <2>1, <2>3 DEF p
<1>12. CASE q.type = "READ"
  <2>1. \/ t = status(Refusal(q.type))
        \/ q.offset >= job.remote /\ t = status("EOF")
        \/ ~(q.offset >= job.remote)
             /\ \E w \in BOOLEAN : t = HandleReadData(s, q.id, q.chunk, w)
    BY <1>12 DEF Answers
  <2>2. CASE q.offset >= job.remote /\ t = status("EOF")
    <3>1. Settled(p, t, q, op)
      BY <1>1, <1>2, <1>12, <2>2, ReadStatus DEF p
    <3> QED BY <1>2, <1>6, <3>1 DEF p
  <2>3. CASE ~(q.offset >= job.remote)
               /\ \E w \in BOOLEAN : t = HandleReadData(s, q.id, q.chunk, w)
    <3>1. PICK w \in BOOLEAN : t = HandleReadData(s, q.id, q.chunk, w)
      BY <2>3
    <3>2. q.offset < job.remote
      <4>1. q.offset \in Nat /\ job.remote \in Nat
        <5>1. q \in Request
          BY <1>2, StateType DEF Of
        <5>2. job.remote \in Nat
          BY <1>3, BaseType
        <5> QED BY <5>1, <5>2 DEF Request
      <4> QED BY <2>3, <4>1
    <3>3. Settled(p, t, q, op)
      BY <1>1, <1>2, <1>12, <3>1, <3>2, ReadAnswer DEF p
    <3> QED BY <1>2, <1>6, <3>3 DEF p
  <2> QED BY <1>2, <1>5, <2>1, <2>2, <2>3 DEF p
<1>13. CASE q.type = "WRITE"
  <2>1. \/ t = status(Refusal(q.type))
        \/ t = HandleStatus(Written(s, op, q), q.id, "OK")
    BY <1>13 DEF Answers
  <2>2. Settled(p, HandleStatus(Written(s, op, q), q.id, "OK"), q, op)
    BY <1>2, <1>13, WriteAnswer DEF p
  <2> QED BY <1>2, <1>5, <1>6, <2>1, <2>2 DEF p
<1>14. CASE q.type = "MKDIR"
  <2>1. \/ t = status(Refusal(q.type))
        \/ \E code \in {"OK", "FAILURE"} : t = status(code)
    BY <1>14 DEF Answers
  <2>2. CASE \E code \in {"OK", "FAILURE"} : t = status(code)
    <3>1. PICK code \in {"OK", "FAILURE"} : t = status(code)
      BY <2>2
    <3>2. job.type = "MakeDir"
      <4> HIDE DEF job
      <4> QED BY <1>3, <1>14 DEF Asks
    <3>3. CASE job.parent = 0
      <4>1. q.type \notin Lasting
        BY <1>14 DEF Lasting, OnHandles
      <4>2. Settled(p, t, q, op)
        BY <1>1, <1>2, <3>1, <3>2, <3>3, <4>1, PlainStatus DEF p
      <4> QED BY <1>2, <1>6, <4>2 DEF p
    <3>4. CASE job.parent # 0
      BY <1>1, <1>2, <1>14, <3>1, <3>4, LevelCreated DEF p
    <3> QED BY <3>3, <3>4
  <2> QED BY <1>2, <1>5, <2>1, <2>2 DEF p
<1>15. CASE q.type \in {"REMOVE", "CLOSE"}
  <2>1. \/ t = status(Refusal(q.type))
        \/ t = status("OK")
    BY <1>15 DEF Answers
  <2>2. Answered(p, status("OK"), q, op)
    BY <1>2, <1>15, Accepted DEF p
  <2> QED BY <1>2, <1>5, <2>1, <2>2 DEF p
<1> HIDE DEF job
<1> QED
  BY <1>3, <1>7, <1>8, <1>9, <1>10, <1>11, <1>12, <1>13, <1>14, <1>15 DEF Asks

----------------------------------------------------------------------------
(* What the functions about an operation op and a request id of it do to   *)
(* the rest, whatever the stage of op is.                                  *)
Kin(job, new) ==
    /\ new \in Op
    /\ new.type = job.type /\ new.parent = job.parent
    /\ new.append = job.append /\ new.unreadable = job.unreadable

Goes(s, t, id, op) ==
    /\ Plain(t) /\ s.nextJobId <= t.nextJobId
    /\ t.uploadDirs = s.uploadDirs /\ DOMAIN t.ops = DOMAIN s.ops
    /\ \A o \in DOMAIN s.ops : o # op => t.ops[o] = s.ops[o]
    /\ Kin(s.ops[op], t.ops[op])
    /\ \A i \in 1..s.nextJobId : t.signals[i] = s.signals[i]
    /\ \A i \in (1..t.nextJobId) \ (1..s.nextJobId) : t.signals[i] = <<>>
    /\ \A i \in DOMAIN t.jobs :
          IF i \in 1..s.nextJobId
          THEN i \in DOMAIN s.jobs /\ t.jobs[i] = s.jobs[i]
          ELSE t.jobs[i] = op
    /\ DOMAIN s.jobs \ {id} \subseteq DOMAIN t.jobs
    /\ s.requests \subseteq t.requests
    /\ \A r \in t.requests \ s.requests :
          /\ r.type \in {"WRITE", "CLOSE"}
          /\ r.id = id \/ r.id \in (1..t.nextJobId) \ (1..s.nextJobId)

LEMMA GoesOn ==
    ASSUME NEW s, NEW t, NEW u, NEW op, NEW id, NEW other, Plain(s),
           Goes(s, t, id, op), Goes(t, u, other, op),
           other = id \/ other \in (1..t.nextJobId) \ (1..s.nextJobId)
    PROVE  Goes(s, u, id, op)
<1>0. /\ s.nextJobId \in Nat /\ t.nextJobId \in Nat /\ u.nextJobId \in Nat
      /\ DOMAIN s.jobs \subseteq 1..s.nextJobId
  BY StateType DEF Goes, Plain
<1>1. /\ s.nextJobId <= t.nextJobId /\ t.nextJobId <= u.nextJobId
      /\ s.nextJobId <= u.nextJobId
  BY <1>0 DEF Goes
<1>2. /\ \A i \in 1..s.nextJobId : i \in 1..t.nextJobId
      /\ \A i \in 1..t.nextJobId : i \in 1..u.nextJobId
  BY <1>0, <1>1
<1>3. /\ Plain(u) /\ u.uploadDirs = s.uploadDirs /\ DOMAIN u.ops = DOMAIN s.ops
      /\ \A o \in DOMAIN s.ops : o # op => u.ops[o] = s.ops[o]
      /\ Kin(s.ops[op], u.ops[op])
  BY DEF Goes, Kin
<1>4. /\ \A i \in 1..s.nextJobId : u.signals[i] = s.signals[i]
      /\ \A i \in (1..u.nextJobId) \ (1..s.nextJobId) : u.signals[i] = <<>>
  BY <1>2 DEF Goes
<1>5. \A i \in DOMAIN u.jobs :
          IF i \in 1..s.nextJobId
          THEN i \in DOMAIN s.jobs /\ u.jobs[i] = s.jobs[i]
          ELSE u.jobs[i] = op
  BY <1>2 DEF Goes
<1>6. DOMAIN s.jobs \ {id} \subseteq DOMAIN u.jobs
  BY <1>0 DEF Goes
<1>7. s.requests \subseteq u.requests
  BY DEF Goes
<1>8. \A r \in u.requests \ s.requests :
          /\ r.type \in {"WRITE", "CLOSE"}
          /\ r.id = id \/ r.id \in (1..u.nextJobId) \ (1..s.nextJobId)
  BY <1>2 DEF Goes
<1> QED
  BY <1>1, <1>3, <1>4, <1>5, <1>6, <1>7, <1>8 DEF Goes

(* A change of the operation, of the requests, and of what is in flight.   *)
Turns(s, t, id, op, new, R) ==
    /\ t \in State /\ t.uploadDirs = s.uploadDirs
    /\ t.nextJobId = s.nextJobId /\ t.signals = s.signals
    /\ t.ops = [s.ops EXCEPT ![op] = new]
    /\ t.jobs = s.jobs \/ t.jobs = Without(s.jobs, id)
    /\ t.requests = s.requests \union R
    /\ \A r \in R : r.type \in {"WRITE", "CLOSE"} /\ r.id = id

LEMMA TurnsGoes ==
    ASSUME NEW s, NEW t, NEW id, NEW op \in DOMAIN s.ops, NEW new, NEW R,
           Plain(s), Turns(s, t, id, op, new, R), Kin(s.ops[op], new)
    PROVE  Goes(s, t, id, op) /\ t.ops[op] = new
<1>1. /\ s \in State /\ s.nextJobId \in Nat
      /\ s.ops \in [DOMAIN s.ops -> Op]
      /\ DOMAIN s.jobs \subseteq 1..s.nextJobId
  BY StateType DEF Plain
<1>2. /\ DOMAIN t.ops = DOMAIN s.ops /\ t.ops[op] = new
      /\ \A o \in DOMAIN s.ops : o # op => t.ops[o] = s.ops[o]
      /\ \A o \in DOMAIN s.ops : t.ops[o].parent = s.ops[o].parent
  BY <1>1 DEF Turns, Kin
<1>3. /\ DOMAIN t.jobs \subseteq DOMAIN s.jobs
      /\ DOMAIN s.jobs \ {id} \subseteq DOMAIN t.jobs
      /\ \A i \in DOMAIN t.jobs : t.jobs[i] = s.jobs[i]
  BY DEF Turns, Without
<1>4. Plain(t)
  BY <1>2, <1>3 DEF Plain, Turns
<1>5. \A i \in DOMAIN t.jobs : i \in 1..s.nextJobId
  BY <1>1, <1>3
<1> QED
  BY <1>1, <1>2, <1>3, <1>4, <1>5 DEF Goes, Turns

(* The operation is changed, and nothing else.                             *)
Puts(s, t, op, new) ==
    /\ Plain(s) /\ op \in DOMAIN s.ops /\ Kin(s.ops[op], new)
    /\ t = [s EXCEPT !.ops[op] = new]

LEMMA GoesPuts ==
    ASSUME NEW s, NEW t, NEW id, NEW op, NEW new, Puts(s, t, op, new)
    PROVE  Goes(s, t, id, op) /\ t.jobs = s.jobs /\ t.ops[op] = new
<1>0. /\ Plain(s) /\ op \in DOMAIN s.ops /\ Kin(s.ops[op], new)
      /\ t = [s EXCEPT !.ops[op] = new]
  BY DEF Puts
<1>1. s \in State /\ new \in Op
  BY <1>0 DEF Plain, Kin
<1>2. [s.ops EXCEPT ![op] = new] \in Maps(Nat, Op)
  BY <1>1, StateType, MapExcept
<1>3. /\ t \in State /\ t.jobs = s.jobs /\ t.requests = s.requests
      /\ t.uploadDirs = s.uploadDirs /\ t.nextJobId = s.nextJobId
      /\ t.ops = [s.ops EXCEPT ![op] = new] /\ t.signals = s.signals
  BY <1>0, <1>1, <1>2 DEF State
<1>4. Turns(s, t, id, op, new, {})
  BY <1>3 DEF Turns
<1> QED
  BY <1>0, <1>3, <1>4, TurnsGoes

LEMMA GoesErase ==
    ASSUME NEW s, NEW id, NEW op \in DOMAIN s.ops, Plain(s)
    PROVE  Goes(s, Erase(s, id), id, op)
<1> DEFINE t == Erase(s, id)
<1>1. s \in State /\ s.ops[op] \in Op
  BY StateType DEF Plain
<1>2. Without(s.jobs, id) \in Maps(Nat, Nat)
  BY <1>1, StateType, MapWithout
<1>3. /\ t \in State /\ t.jobs = Without(s.jobs, id) /\ t.ops = s.ops
      /\ t.requests = s.requests /\ t.uploadDirs = s.uploadDirs
      /\ t.nextJobId = s.nextJobId /\ t.signals = s.signals
  BY <1>1, <1>2 DEF Erase, State
<1>4. s.ops = [s.ops EXCEPT ![op] = s.ops[op]]
  BY <1>1, StateType
<1> HIDE DEF t
<1>5. Turns(s, t, id, op, s.ops[op], {})
  BY <1>3, <1>4 DEF Turns
<1>6. Kin(s.ops[op], s.ops[op])
  BY <1>1 DEF Kin
<1>7. Goes(s, t, id, op)
  BY <1>5, <1>6, TurnsGoes
<1> QED
  BY <1>7 DEF t

(* A handle is closed under the id.                                        *)
ToClose(t, id) == \E r \in t.requests : r.type = "CLOSE" /\ r.id = id

LEMMA GoesClose ==
    ASSUME NEW s, NEW id \in Nat, NEW op \in DOMAIN s.ops, Plain(s)
    PROVE  LET t == SendTransferCloseHandle(s, op, id)
           IN  Goes(s, t, id, op) /\ ToClose(t, id) /\ t.jobs = s.jobs
<1> DEFINE t == SendTransferCloseHandle(s, op, id)
           k == IF s.ops[op].state = "CloseRequested" THEN 1 ELSE 0
           r == [id |-> id, type |-> "CLOSE", offset |-> k, chunk |-> 0]
           new == [s.ops[op] EXCEPT !.state = "CloseRequested"]
<1>1. s \in State /\ s.ops[op] \in Op
  BY StateType DEF Plain
<1>2. r \in Request /\ Kin(s.ops[op], new)
  BY <1>1 DEF Request, RequestTypes, OnHandles, Kin, Op
<1>3. /\ s.requests \union {r} \in SUBSET Request
      /\ [s.ops EXCEPT ![op] = new] \in Maps(Nat, Op)
  <2>1. new \in Op
    BY <1>2 DEF Kin
  <2> HIDE DEF new, r
  <2> QED BY <1>1, <1>2, <2>1, StateType, MapExcept
<1>4. t = [s EXCEPT !.requests = s.requests \union {r},
                    !.ops = [s.ops EXCEPT ![op] = new]]
  <2>1. SendData(s, id, "CLOSE", k, 0) = [s EXCEPT !.requests = @ \union {r}]
    BY DEF SendData
  <2>2. t = [SendData(s, id, "CLOSE", k, 0) EXCEPT
                !.ops[op].state = "CloseRequested"]
    BY DEF SendTransferCloseHandle
  <2> HIDE DEF t, r, k
  <2> QED BY <1>1, <2>1, <2>2 DEF State
<1> HIDE DEF t, new, r
<1>5. /\ t \in State /\ t.jobs = s.jobs
      /\ t.ops = [s.ops EXCEPT ![op] = new]
      /\ t.requests = s.requests \union {r} /\ t.uploadDirs = s.uploadDirs
      /\ t.nextJobId = s.nextJobId /\ t.signals = s.signals
  BY <1>1, <1>3, <1>4 DEF State
<1>6. r.type = "CLOSE" /\ r.id = id
  BY DEF r
<1>7. Turns(s, t, id, op, new, {r})
  BY <1>5, <1>6 DEF Turns
<1>8. Goes(s, t, id, op)
  BY <1>2, <1>7, TurnsGoes
<1> QED
  BY <1>5, <1>6, <1>8 DEF ToClose, t

(* The id is in use by op.                                                 *)
Uses(s, id, op) ==
    /\ Plain(s) /\ id \in DOMAIN s.jobs /\ s.jobs[id] = op
    /\ op \in DOMAIN s.ops /\ id \in 1..s.nextJobId

LEMMA GoesFinish ==
    ASSUME NEW s, NEW id, NEW op, Uses(s, id, op)
    PROVE  Goes(s, FinishTransferRequest(s, id), id, op)
<1> USE DEF Uses
<1>1. s \in State /\ s.ops[op] \in Op /\ id \in Nat /\ s.nextJobId \in Nat
  BY StateType DEF Plain
<1>2. CASE s.ops[op].inFlightCount = 1
  BY <1>1, <1>2, GoesClose DEF FinishTransferRequest
<1>3. CASE s.ops[op].inFlightCount # 1
  <2> DEFINE new == [s.ops[op] EXCEPT !.inFlightCount = @ - 1]
             u == [s EXCEPT !.ops[op] = new]
  <2>1. FinishTransferRequest(s, id) = RemoveTransferRequest(s, id)
    BY <1>3 DEF FinishTransferRequest
  <2>2. RemoveTransferRequest(s, id) = Erase(u, id)
    BY DEF RemoveTransferRequest
  <2>3. Kin(s.ops[op], new)
    BY <1>1 DEF Kin, Op
  <2> HIDE DEF new
  <2>4. Goes(s, u, id, op)
    <3>1. Puts(s, u, op, new)
      BY <2>3 DEF Puts
    <3> QED BY <3>1, GoesPuts
  <2> HIDE DEF u
  <2>7. Plain(u) /\ op \in DOMAIN u.ops
    BY <2>4 DEF Goes
  <2>5. Goes(u, Erase(u, id), id, op)
    BY <2>7, GoesErase
  <2>6. Goes(s, Erase(u, id), id, op)
    BY <2>4, <2>5, GoesOn
  <2> QED BY <2>1, <2>2, <2>6
<1> QED
  BY <1>2, <1>3

LEMMA GoesWrite ==
    ASSUME NEW s, NEW id, NEW op, Uses(s, id, op), ~s.ops[op].unreadable
    PROVE  Goes(s, SendWriteRequest(s, id), id, op)
<1> DEFINE job == s.ops[op]
           t == SendWriteRequest(s, id)
<1> USE DEF Uses
<1>1. s \in State /\ job \in Op /\ id \in Nat
  BY StateType DEF Plain
<1>2. CASE job.position < job.readable
  <2> DEFINE r == [id |-> id, type |-> "WRITE", offset |-> job.offset,
                   chunk |-> job.position]
             new == AfterWrite(job)
  <2>1. /\ t \in State /\ t.jobs = s.jobs /\ t.signals = s.signals
        /\ t.uploadDirs = s.uploadDirs /\ t.nextJobId = s.nextJobId
        /\ t.ops = [s.ops EXCEPT ![op] = new]
        /\ t.requests = s.requests \union {r}
    BY <1>1, <1>2, WriteIs
  <2>2. Kin(job, new)
    <3>1. t.ops[op] = new /\ op \in DOMAIN t.ops
      BY <1>1, <2>1, StateType
    <3>2. new \in Op
      BY <2>1, <3>1, StateType
    <3> QED BY <1>1, <3>2, AfterWriteFields DEF Kin
  <2>3. r.type = "WRITE" /\ r.id = id
    OBVIOUS
  <2> HIDE DEF r, new, t
  <2>4. Turns(s, t, id, op, new, {r})
    BY <2>1, <2>3 DEF Turns
  <2>5. Goes(s, t, id, op)
    BY <2>2, <2>4, TurnsGoes
  <2> QED BY <2>5 DEF t
<1>3. CASE ~(job.position < job.readable)
  <2>1. t = FinishTransferRequest(s, id)
    BY <1>3 DEF SendWriteRequest
  <2> QED BY <2>1, GoesFinish
<1> QED
  BY <1>2, <1>3

(* A request under a new id, and all the requests of a transfer.           *)
LEMMA GoesNew ==
    ASSUME NEW t, NEW op \in DOMAIN t.ops, Plain(t), NEW id
    PROVE  LET n == t.nextJobId + 1
               u == Insert(NewId(t), NewId(t).nextJobId, op)
           IN  /\ NewId(t).nextJobId = n /\ n \in (1..n) \ (1..t.nextJobId)
               /\ Goes(t, u, id, op) /\ Uses(u, n, op) /\ u.ops = t.ops
               /\ u.nextJobId = n
<1> DEFINE n == t.nextJobId + 1
           u == Insert(NewId(t), NewId(t).nextJobId, op)
<1>1. /\ NewId(t).nextJobId = n /\ n \in Nat
      /\ u \in State /\ u.ops = t.ops /\ u.nextJobId = n
      /\ u.signals = With(t.signals, n, <<>>)
      /\ u.jobs = With(t.jobs, n, op) /\ u.requests = t.requests
      /\ u.uploadDirs = t.uploadDirs
      /\ n \in DOMAIN u.jobs /\ u.jobs[n] = op
  BY PreparedPlain
<1>2. /\ t.nextJobId \in Nat /\ 1..n = (1..t.nextJobId) \union {n}
      /\ n \notin 1..t.nextJobId /\ n = t.nextJobId + 1
      /\ t.nextJobId <= n /\ t.ops[op] \in Op
  <2>1. t.nextJobId \in Nat /\ t.ops[op] \in Op
    BY StateType DEF Plain
  <2> QED BY <2>1
<1> HIDE DEF n, u
<1>3. /\ DOMAIN u.jobs = DOMAIN t.jobs \union {n}
      /\ \A i \in DOMAIN t.jobs : i # n => u.jobs[i] = t.jobs[i]
      /\ DOMAIN u.signals = DOMAIN t.signals \union {n}
      /\ u.signals[n] = <<>>
      /\ \A i \in DOMAIN t.signals : i # n => u.signals[i] = t.signals[i]
  BY <1>1 DEF With
<1>4. Plain(u)
  BY <1>1, <1>2, <1>3 DEF Plain
<1>5. \A i \in DOMAIN t.jobs : i \in 1..t.nextJobId
  BY DEF Plain
<1>6. \A i \in 1..t.nextJobId : u.signals[i] = t.signals[i]
  BY <1>2, <1>3 DEF Plain
<1>7. Goes(t, u, id, op)
  BY <1>1, <1>2, <1>3, <1>4, <1>5, <1>6 DEF Goes, Kin
<1> QED
  BY <1>1, <1>2, <1>4, <1>7 DEF Uses, n, u

LEMMA GoesSpawn ==
    ASSUME NEW s, NEW id, NEW op, Uses(s, id, op), ~s.ops[op].unreadable
    PROVE  Goes(s, SpawnWriteRequests(s, id), id, op)
<1> USE DEF Uses
<1> DEFINE T == {t \in State : Goes(s, t, id, op)}
           S == [i \in Nat |-> T]
           w == CalculateInFlightCount(s, op)
           new == [s.ops[op] EXCEPT !.inFlightCount =
                      InFlight(s.ops[op].fileSize)]
<1>1. s \in State /\ s.ops[op] \in Op /\ s.nextJobId \in Nat
  BY StateType DEF Plain
<1>2. Kin(s.ops[op], new)
  BY <1>1, InFlightAssumption DEF Kin, Op, InFlight
<1>3. w = [s EXCEPT !.ops[op] = new]
  BY DEF CalculateInFlightCount, InFlight
<1>10. new.unreadable = s.ops[op].unreadable
  BY <1>1 DEF Op
<1> HIDE DEF new, w, S, T
<1>4. Goes(s, w, id, op) /\ w.jobs = s.jobs /\ w.ops[op] = new
  <2>1. Puts(s, w, op, new)
    BY <1>2, <1>3 DEF Puts
  <2> QED BY <2>1, GoesPuts
<1>5. Uses(w, id, op) /\ ~w.ops[op].unreadable
  <2>1. /\ Plain(w) /\ DOMAIN w.ops = DOMAIN s.ops
        /\ s.nextJobId <= w.nextJobId /\ w.nextJobId \in Nat
    BY <1>4, StateType DEF Goes, Plain
  <2> QED BY <1>1, <1>4, <1>10, <2>1
<1>6. Goes(s, SendWriteRequest(w, id), id, op)
  BY <1>4, <1>5, GoesWrite, GoesOn
<1>7. ASSUME NEW t, Goes(s, t, id, op)
      PROVE  t \in T
  BY <1>7 DEF Goes, Plain, T
<1>8. ASSUME NEW i \in Nat, NEW t \in T
      PROVE  WriteNext(op, t, i) \in T
  <2> DEFINE n == t.nextJobId + 1
             u == Insert(NewId(t), NewId(t).nextJobId, op)
  <2>1. /\ Goes(s, t, id, op) /\ Plain(t) /\ op \in DOMAIN t.ops
        /\ ~t.ops[op].unreadable /\ s.nextJobId <= t.nextJobId
        /\ t.nextJobId \in Nat
    BY <1>8, StateType DEF Goes, Kin, Plain, T
  <2>2. /\ NewId(t).nextJobId = n /\ n \in (1..n) \ (1..t.nextJobId)
        /\ Goes(t, u, id, op) /\ Uses(u, n, op) /\ u.ops = t.ops
        /\ u.nextJobId = n
    BY <2>1, GoesNew
  <2>3. n \in (1..n) \ (1..s.nextJobId)
    BY <1>1, <2>1, <2>2
  <2> HIDE DEF n, u
  <2>4. Goes(s, u, id, op)
    BY <2>1, <2>2, GoesOn
  <2>5. Goes(u, SendWriteRequest(u, n), n, op)
    BY <2>1, <2>2, GoesWrite
  <2>6. Goes(s, SendWriteRequest(u, n), id, op)
    BY <2>2, <2>3, <2>4, <2>5, GoesOn
  <2>7. SendWriteRequest(u, n) \in T
    BY <1>7, <2>6
  <2>8. WriteNext(op, t, i) \in {t, SendWriteRequest(u, n)}
    BY <2>2 DEF WriteNext, u
  <2> QED BY <2>7, <2>8
<1>9. SpawnWriteRequests(s, id) \in S[MaxInFlightCount - 1]
  <2>1. SendWriteRequest(w, id) \in T
    BY <1>6, <1>7
  <2>2. MaxInFlightCount - 1 \in Nat
    BY InFlightAssumption
  <2>3. \A i \in Nat : S[i] = T
    BY DEF S
  <2>4. 0 \in Nat /\ \A i \in 1..(MaxInFlightCount - 1) : i \in Nat /\ i - 1 \in Nat
    OBVIOUS
  <2>5. \A i \in Nat : S[i] \in SUBSET State
    BY <2>3 DEF T
  <2>6. SendWriteRequest(CalculateInFlightCount(s, op), id) \in S[0]
    BY <2>1, <2>3 DEF w
  <2>7. \A i \in 1..(MaxInFlightCount - 1) :
           \A t \in S[i - 1] : WriteNext(op, t, i) \in S[i]
    BY <1>8, <2>3, <2>4
  <2>8. op = s.jobs[id]
    OBVIOUS
  <2> QED BY <2>5, <2>6, <2>7, <2>8, WriteLoop
<1> QED
  <2>1. S[MaxInFlightCount - 1] = T
    BY InFlightAssumption DEF S
  <2> QED BY <1>9, <2>1 DEF T

----------------------------------------------------------------------------
(* A directory d of which a part was refused: whatever is answered now,    *)
(* nothing more is reported, and every handle is going to be closed.       *)
Child(job, d) ==
    /\ job.type \in {"MakeDir", "UploadFile"} /\ job.parent = d
    /\ job.type = "UploadFile" => ~job.append /\ ~job.unreadable

Broken(s, d) ==
    /\ Plain(s) /\ d # 0
    /\ DOMAIN s.uploadDirs = {d} /\ s.uploadDirs[d].hasError
    /\ \A op \in DOMAIN s.ops : Child(s.ops[op], d)
    /\ \A r \in s.requests :
          /\ r.id \in 1..s.nextJobId
          /\ r.type \in {"MKDIR", "OPEN", "WRITE", "CLOSE"}
          /\ r.type = "OPEN" /\ r.id \in DOMAIN s.jobs =>
                s.jobs[r.id] = r.id /\ s.ops[r.id].type = "UploadFile"
    /\ \A i \in DOMAIN s.ops \union {d} : "ok" \notin Range(s.signals[i])

Writing(s, op) ==
    /\ s.ops[op].type = "UploadFile" /\ s.ops[op].state = "Open"
    /\ Ids(s, op) # {} /\ IsFiniteSet(Ids(s, op))
    /\ s.ops[op].inFlightCount = Cardinality(Ids(s, op))
    /\ \A q, r \in Sent(s, op) : q.type = "WRITE" /\ (q.id = r.id => q = r)

Hold(s, op) ==
    /\ op \in DOMAIN s.ops
    /\ \/ ToClose(s, op) /\ (op \in DOMAIN s.jobs => s.jobs[op] = op)
       \/ Writing(s, op)
       \/ Ids(s, op) # {} /\ \A r \in Sent(s, op) : r.type = "CLOSE"

LEMMA OfBroken ==
    ASSUME NEW p, NEW d, Broken(p, d), NEW q \in p.requests, NEW op,
           q.id \in DOMAIN p.jobs, op = p.jobs[q.id]
    PROVE  /\ Of(p, q, op) /\ Plain(Less(p, q)) /\ Uses(Less(p, q), q.id, op)
           /\ Child(p.ops[op], d) /\ p.ops[op] \in Op
<1>1. /\ p \in State /\ Plain(p) /\ op \in DOMAIN p.ops /\ op \in DOMAIN p.signals
      /\ p.ops[op] \in Op
  BY StateType DEF Broken, Plain
<1>2. Of(p, q, op)
  BY <1>1 DEF Of
<1> DEFINE s == Less(p, q)
<1>3. /\ s \in State /\ s.ops = p.ops /\ s.uploadDirs = p.uploadDirs
      /\ s.signals = p.signals /\ s.nextJobId = p.nextJobId /\ s.jobs = p.jobs
  BY <1>2, LessIs
<1> HIDE DEF s
<1>4. Plain(s)
  BY <1>1, <1>3 DEF Plain
<1>5. Uses(s, q.id, op) /\ Child(p.ops[op], d)
  BY <1>1, <1>3, <1>4 DEF Uses, Broken
<1> QED
  BY <1>1, <1>2, <1>4, <1>5 DEF s

(* What such an answer leads to.                                           *)
LEMMA BrokenKept ==
    ASSUME NEW p, NEW d, Broken(p, d), NEW q \in p.requests, NEW op,
           q.id \in DOMAIN p.jobs, op = p.jobs[q.id],
           NEW t, Goes(Less(p, q), t, q.id, op)
    PROVE  Broken(t, d)
<1> DEFINE s == Less(p, q)
<1>0. Of(p, q, op) /\ Plain(s)
  BY OfBroken
<1>1. /\ Of(p, q, op) /\ Plain(s) /\ Plain(p)
      /\ p.nextJobId \in Nat /\ op \in DOMAIN p.ops
  <2>1. Plain(p) /\ p \in State /\ op \in DOMAIN p.ops
    BY <1>0 DEF Broken, Of
  <2> QED BY <1>0, <2>1, StateType
<1>2. /\ s.ops = p.ops /\ s.uploadDirs = p.uploadDirs
      /\ s.signals = p.signals /\ s.nextJobId = p.nextJobId /\ s.jobs = p.jobs
      /\ s.requests = p.requests \ {q}
  BY <1>1, LessIs
<1> HIDE DEF s
<1>3. Goes(s, t, q.id, op)
  BY DEF s
<1>4. /\ Plain(t) /\ d # 0 /\ DOMAIN t.uploadDirs = {d} /\ t.uploadDirs[d].hasError
      /\ DOMAIN t.ops = DOMAIN p.ops
  BY <1>2, <1>3 DEF Goes, Broken
<1>5. \A o \in DOMAIN p.ops : /\ t.ops[o].type = p.ops[o].type
                              /\ Child(t.ops[o], d)
  <2> TAKE o \in DOMAIN p.ops
  <2>1. Child(p.ops[o], d)
    BY DEF Broken
  <2>2. \/ t.ops[o] = p.ops[o]
        \/ Kin(p.ops[o], t.ops[o])
    BY <1>2, <1>3 DEF Goes
  <2> QED BY <2>1, <2>2 DEF Kin, Child
<1>6. t.nextJobId \in Nat /\ p.nextJobId <= t.nextJobId
  BY <1>2, <1>3, <1>4, StateType DEF Goes, Plain
<1>7. \A i \in 1..p.nextJobId : i \in 1..t.nextJobId
  BY <1>1, <1>6
<1>8. ASSUME NEW r \in t.requests
      PROVE  /\ r.id \in 1..t.nextJobId
             /\ r.type \in {"MKDIR", "OPEN", "WRITE", "CLOSE"}
             /\ r.type = "OPEN" /\ r.id \in DOMAIN t.jobs =>
                   t.jobs[r.id] = r.id /\ t.ops[r.id].type = "UploadFile"
  <2>1. CASE r \in p.requests
    <3>1. /\ r.id \in 1..p.nextJobId
          /\ r.type \in {"MKDIR", "OPEN", "WRITE", "CLOSE"}
          /\ r.type = "OPEN" /\ r.id \in DOMAIN p.jobs =>
                p.jobs[r.id] = r.id /\ p.ops[r.id].type = "UploadFile"
      BY <2>1 DEF Broken
    <3>2. ASSUME r.type = "OPEN", r.id \in DOMAIN t.jobs
          PROVE  t.jobs[r.id] = r.id /\ t.ops[r.id].type = "UploadFile"
      <4>1. r.id \in DOMAIN p.jobs /\ t.jobs[r.id] = p.jobs[r.id]
        BY <1>2, <1>3, <3>1, <3>2 DEF Goes
      <4>2. r.id \in DOMAIN p.ops
        BY <1>1, <3>1, <3>2, <4>1 DEF Plain
      <4> QED BY <1>5, <3>1, <3>2, <4>1, <4>2
    <3> QED BY <1>7, <3>1, <3>2
  <2>2. CASE r \notin p.requests
    <3>1. /\ r.type \in {"WRITE", "CLOSE"}
          /\ r.id = q.id \/ r.id \in (1..t.nextJobId) \ (1..p.nextJobId)
      BY <1>2, <1>3, <2>2 DEF Goes
    <3>2. q.id \in 1..p.nextJobId
      BY DEF Broken
    <3> QED BY <1>7, <3>1, <3>2
  <2> QED BY <2>1, <2>2
<1>9. \A i \in DOMAIN t.ops \union {d} : "ok" \notin Range(t.signals[i])
  <2>1. \A i \in DOMAIN p.ops \union {d} : i \in 1..p.nextJobId
    BY <1>1 DEF Broken, Plain
  <2>2. \A i \in DOMAIN p.ops \union {d} : t.signals[i] = p.signals[i]
    BY <1>2, <1>3, <2>1 DEF Goes
  <2> QED BY <1>4, <2>2 DEF Broken
<1> QED
  BY <1>4, <1>5, <1>8, <1>9 DEF Broken

LEMMA HoldKept ==
    ASSUME NEW p, NEW d, Broken(p, d), NEW q \in p.requests, NEW op,
           q.id \in DOMAIN p.jobs, op = p.jobs[q.id],
           NEW t, Goes(Less(p, q), t, q.id, op),
           NEW o, Hold(p, o), o = op => q.type # "CLOSE",
           Writing(p, op) => Hold(t, op)
    PROVE  Hold(t, o)
<1> DEFINE s == Less(p, q)
<1>0. Of(p, q, op) /\ Plain(s)
  BY OfBroken
<1>1. /\ Of(p, q, op) /\ Plain(s) /\ Plain(p)
      /\ p.nextJobId \in Nat /\ op \in DOMAIN p.ops
  <2>1. Plain(p) /\ p \in State /\ op \in DOMAIN p.ops
    BY <1>0 DEF Broken, Of
  <2> QED BY <1>0, <2>1, StateType
<1>2. /\ s.ops = p.ops /\ s.uploadDirs = p.uploadDirs
      /\ s.signals = p.signals /\ s.nextJobId = p.nextJobId /\ s.jobs = p.jobs
      /\ s.requests = p.requests \ {q}
  BY <1>1, LessIs
<1> HIDE DEF s
<1>3. Goes(s, t, q.id, op)
  BY DEF s
<1>4. /\ o \in DOMAIN p.ops /\ o \in 1..p.nextJobId /\ o \in DOMAIN t.ops
      /\ DOMAIN p.jobs \subseteq 1..p.nextJobId
  BY <1>1, <1>2, <1>3 DEF Hold, Plain, Goes
<1>5. CASE ToClose(p, o) /\ (o \in DOMAIN p.jobs => p.jobs[o] = o)
  <2>1. PICK r \in p.requests : r.type = "CLOSE" /\ r.id = o
    BY <1>5 DEF ToClose
  <2>2. r # q
    BY <1>5, <2>1
  <2>3. ToClose(t, o)
    BY <1>2, <1>3, <2>1, <2>2 DEF Goes, ToClose
  <2>4. o \in DOMAIN t.jobs => t.jobs[o] = o
    BY <1>2, <1>3, <1>4, <1>5 DEF Goes
  <2> QED BY <1>4, <2>3, <2>4 DEF Hold
<1>6. ASSUME o # op
      PROVE  Ids(t, o) = Ids(p, o) /\ Sent(t, o) = Sent(p, o) /\ t.ops[o] = p.ops[o]
  <2>1. q.id \notin Ids(p, o)
    BY <1>6 DEF Ids
  <2>2. Ids(t, o) \subseteq Ids(p, o)
    BY <1>2, <1>3, <1>6 DEF Goes, Ids
  <2>3. Ids(p, o) \subseteq Ids(t, o)
    BY <1>2, <1>3, <1>4, <2>1 DEF Goes, Ids
  <2>4. Ids(p, o) \subseteq 1..p.nextJobId
    BY <1>4 DEF Ids
  <2>5. \A r \in t.requests : r.id \in Ids(p, o) => r \in p.requests
    BY <1>2, <1>3, <2>1, <2>4 DEF Goes
  <2>6. \A r \in p.requests : r.id \in Ids(p, o) => r \in t.requests
    BY <1>2, <1>3, <2>1 DEF Goes
  <2>7. Ids(t, o) = Ids(p, o)
    BY <2>2, <2>3
  <2>8. Sent(t, o) = Sent(p, o)
    BY <2>5, <2>6, <2>7 DEF Sent
  <2> QED BY <1>2, <1>3, <1>4, <1>6, <2>7, <2>8 DEF Goes
<1>7. CASE Writing(p, o)
  <2>1. CASE o = op
    BY <1>7, <2>1
  <2>2. CASE o # op
    BY <1>4, <1>6, <1>7, <2>2 DEF Hold, Writing
  <2> QED BY <2>1, <2>2
<1>8. CASE Ids(p, o) # {} /\ \A r \in Sent(p, o) : r.type = "CLOSE"
  <2>1. o # op
    <3>1. q \in Sent(p, op)
      BY DEF Sent, Ids
    <3> QED BY <1>8, <3>1
  <2> QED BY <1>4, <1>6, <1>8, <2>1 DEF Hold
<1> QED
  BY <1>5, <1>7, <1>8 DEF Hold

----------------------------------------------------------------------------
(* The answers.                                                            *)
LEMMA BrokenStatusIs ==
    ASSUME NEW s, NEW id, NEW op, NEW d, NEW code, s.jobs[id] = op,
           Child(s.ops[op], d), d # 0, s.uploadDirs[d].hasError
    PROVE  HandleStatus(s, id, code) =
             IF s.ops[op].type = "UploadFile" /\ s.ops[op].state = "Open"
             THEN FinishTransferRequest(SetError(s, op), id)
             ELSE Erase(s, id)
<1>1. ParentHasError(s, op) /\ s.ops[op].parent = d
  BY DEF ParentHasError, Child
<1>2. CASE s.ops[op].type = "MakeDir"
  <2>1. HandleStatus(s, id, code) = HandleMkdirStatus(s, id, code)
    BY <1>2 DEF HandleStatus
  <2>2. HandleMkdirStatus(s, id, code) = Erase(s, id)
    BY <1>1, <1>2 DEF HandleMkdirStatus
  <2> QED BY <1>2, <2>1, <2>2
<1>3. CASE s.ops[op].type = "UploadFile"
  <2>1. HandleStatus(s, id, code) = HandlePutStatus(s, id, code)
    BY <1>3 DEF HandleStatus
  <2>2. HandlePutStatus(s, id, code) =
             IF s.ops[op].state = "Open"
             THEN FinishTransferRequest(SetError(s, op), id)
             ELSE Erase(s, id)
    BY <1>1, <1>3 DEF HandlePutStatus
  <2> QED BY <1>3, <2>1, <2>2
<1> QED
  BY <1>2, <1>3 DEF Child

LEMMA AtGoes ==
    ASSUME NEW p, NEW d, Broken(p, d), NEW q, NEW op, Of(p, q, op),
           NEW s, NEW job, At(p, s, q, op, job, p.signals[op]),
           Kin(p.ops[op], job)
    PROVE  Goes(Less(p, q), s, q.id, op) /\ Uses(s, q.id, op) /\ s.ops[op] = job
<1> DEFINE u == Less(p, q)
<1>1. /\ Plain(u) /\ Uses(u, q.id, op)
  BY OfBroken DEF Of
<1>2. /\ u.ops = p.ops /\ u.uploadDirs = p.uploadDirs
      /\ u.signals = p.signals /\ u.nextJobId = p.nextJobId /\ u.jobs = p.jobs
      /\ u.requests = p.requests \ {q}
  BY LessIs
<1>3. [p.signals EXCEPT ![op] = p.signals[op]] = p.signals
  BY StateType DEF Of
<1>4. Turns(u, s, q.id, op, job, {})
  BY <1>2, <1>3 DEF Turns, At, Same
<1> HIDE DEF u
<1>5. Goes(u, s, q.id, op) /\ s.ops[op] = job
  BY <1>1, <1>2, <1>4, TurnsGoes DEF Uses
<1>6. Uses(s, q.id, op)
  <2>1. /\ Plain(s) /\ DOMAIN s.ops = DOMAIN u.ops
    BY <1>5 DEF Goes
  <2>2. s.jobs = u.jobs /\ s.nextJobId = u.nextJobId
    BY <1>2 DEF At, Same
  <2> QED BY <1>1, <2>1, <2>2 DEF Uses
<1> QED
  BY <1>5, <1>6 DEF u

LEMMA BrokenStatus ==
    ASSUME NEW p, NEW d, Broken(p, d), NEW q, NEW op, Of(p, q, op),
           NEW s, NEW job, At(p, s, q, op, job, p.signals[op]),
           Kin(p.ops[op], job), job.state = p.ops[op].state,
           job.inFlightCount = p.ops[op].inFlightCount, NEW code
    PROVE  /\ Goes(Less(p, q), HandleStatus(s, q.id, code), q.id, op)
           /\ Writing(p, op) => Hold(HandleStatus(s, q.id, code), op)
           /\ q.id \in DOMAIN HandleStatus(s, q.id, code).jobs =>
                 ToClose(HandleStatus(s, q.id, code), q.id)
<1> DEFINE t == HandleStatus(s, q.id, code)
           e == SetError(s, op)
           bad == [job EXCEPT !.hasError = TRUE]
<1>1. Goes(Less(p, q), s, q.id, op) /\ Uses(s, q.id, op) /\ s.ops[op] = job
  BY AtGoes
<1>2. /\ Plain(Less(p, q)) /\ Child(p.ops[op], d) /\ p.ops[op] \in Op
      /\ Child(job, d) /\ s.uploadDirs[d].hasError /\ d # 0
      /\ s.jobs[q.id] = op /\ job \in Op /\ p \in State
  BY <1>1, OfBroken DEF Of, Kin, Child, Broken, At, Same, Uses
<1>3. t = IF job.type = "UploadFile" /\ job.state = "Open"
          THEN FinishTransferRequest(e, q.id) ELSE Erase(s, q.id)
  BY <1>1, <1>2, BrokenStatusIs
<1>4. /\ At(p, e, q, op, bad, p.signals[op]) /\ bad \in Op
      /\ bad.state = job.state /\ bad.inFlightCount = job.inFlightCount
      /\ bad.type = job.type /\ bad.parent = job.parent
      /\ Kin(p.ops[op], bad)
  <2>1. At(p, e, q, op, bad, p.signals[op])
    BY AtError
  <2> QED BY <1>2, <2>1 DEF Op, Kin
<1> HIDE DEF t, e, bad
<1>5. Goes(Less(p, q), Erase(s, q.id), q.id, op)
  <2>1. Goes(s, Erase(s, q.id), q.id, op)
    BY <1>1, GoesErase DEF Uses
  <2> QED BY <1>1, <1>2, <2>1, GoesOn
<1>6. Goes(Less(p, q), FinishTransferRequest(e, q.id), q.id, op)
  <2>1. Goes(Less(p, q), e, q.id, op) /\ Uses(e, q.id, op)
    BY <1>4, AtGoes
  <2>2. Goes(e, FinishTransferRequest(e, q.id), q.id, op)
    BY <2>1, GoesFinish
  <2> QED BY <1>2, <2>1, <2>2, GoesOn
<1>7. Goes(Less(p, q), t, q.id, op)
  BY <1>3, <1>5, <1>6
<1>8. ASSUME Writing(p, op)
      PROVE  Hold(t, op)
  <2> DEFINE I == Ids(p, op)
             n == bad.inFlightCount
  <2>1. /\ job.type = "UploadFile" /\ job.state = "Open"
        /\ IsFiniteSet(I) /\ n = Cardinality(I) /\ q.id \in I
        /\ \A x, r \in Sent(p, op) : x.type = "WRITE" /\ (x.id = r.id => x = r)
        /\ q \in Sent(p, op)
    BY <1>4, <1>8 DEF Writing, Kin, Of, Ids, Sent
  <2>2. t = FinishTransferRequest(e, q.id)
    BY <1>3, <2>1
  <2>3. /\ Cardinality(I) \in Nat
        /\ Cardinality(I \ {q.id}) = Cardinality(I) - 1
        /\ IsFiniteSet(I \ {q.id})
    BY <2>1, FS_RemoveElement, FS_CardinalityType
  <2>4. op \in DOMAIN t.ops /\ op \in DOMAIN p.ops
    BY <1>7, LessIs DEF Goes, Of
  <2>5. CASE n = 1
    <3> DEFINE r == [id |-> q.id, type |-> "CLOSE", offset |-> 0, chunk |-> 0]
    <3>1. Replies(p, t, q, op, [bad EXCEPT !.state = "CloseRequested"],
                  p.signals[op], r)
      <4>1. bad.state # "CloseRequested" /\ bad.inFlightCount = 1
        BY <1>4, <2>1, <2>5
      <4>2. Of(p, q, op) /\ At(p, e, q, op, bad, p.signals[op])
        BY <1>4
      <4> QED BY <2>2, <4>1, <4>2, AtFinish
    <3>2. t.jobs = p.jobs /\ t.requests = (p.requests \ {q}) \union {r}
      BY <3>1 DEF Replies
    <3>3. I \ {q.id} = {}
      BY <2>1, <2>3, <2>5, FS_EmptySet
    <3>4. Ids(t, op) = I
      BY <3>2 DEF Ids
    <3>5. \A x \in Sent(t, op) : x.type = "CLOSE"
      <4> TAKE x \in Sent(t, op)
      <4>1. x.id = q.id /\ x \in t.requests
        BY <3>3, <3>4 DEF Sent
      <4>2. ASSUME x \in p.requests \ {q}
            PROVE  FALSE
        <5>1. x \in Sent(p, op)
          BY <2>1, <4>1, <4>2 DEF Sent
        <5> QED BY <2>1, <4>1, <4>2, <5>1
      <4> QED BY <3>2, <4>1, <4>2
    <3> QED BY <2>1, <2>4, <3>4, <3>5 DEF Hold
  <2>6. CASE n # 1
    <3> DEFINE new == [bad EXCEPT !.inFlightCount = @ - 1]
    <3>1. Leaves(p, t, q, op, new, p.signals[op])
      BY <1>4, <2>1, <2>2, <2>6, AtFinish
    <3>2. /\ new.type = "UploadFile" /\ new.state = "Open"
          /\ new.inFlightCount = n - 1
      BY <1>4, <2>1 DEF Op
    <3> HIDE DEF new
    <3>3. /\ t.jobs = Without(p.jobs, q.id) /\ t.requests = p.requests \ {q}
          /\ t.ops[op] = new
      BY <1>2, <2>4, <3>1, StateType DEF Leaves, Same
    <3>4. Ids(t, op) = I \ {q.id}
      BY <3>3 DEF Ids, Without
    <3>5. Sent(t, op) \subseteq Sent(p, op)
      BY <3>3, <3>4 DEF Sent
    <3>6. I \ {q.id} # {}
      BY <2>1, <2>3, <2>6, FS_EmptySet
    <3> HIDE DEF I, n
    <3>7. Writing(t, op)
      BY <2>1, <2>3, <3>2, <3>3, <3>4, <3>5, <3>6 DEF Writing
    <3> QED BY <2>4, <3>7 DEF Hold
  <2> QED BY <2>5, <2>6
<1>9. \A u \in State : q.id \notin DOMAIN Erase(u, q.id).jobs
  BY DEF Erase, Without, State
<1>10. q.id \in DOMAIN FinishTransferRequest(e, q.id).jobs =>
          ToClose(FinishTransferRequest(e, q.id), q.id)
  <2>1. Uses(e, q.id, op)
    BY <1>4, AtGoes
  <2>2. /\ e \in State /\ op \in DOMAIN e.ops /\ e.jobs[q.id] = op
        /\ Plain(e) /\ q.id \in Nat /\ e.ops[op] \in Op
    BY <2>1, StateType DEF Uses, Plain
  <2>3. CASE e.ops[op].inFlightCount = 1
    <3>1. FinishTransferRequest(e, q.id) = SendTransferCloseHandle(e, op, q.id)
      BY <2>2, <2>3 DEF FinishTransferRequest
    <3>2. ToClose(SendTransferCloseHandle(e, op, q.id), q.id)
      BY <2>2, GoesClose
    <3> QED BY <3>1, <3>2
  <2>4. CASE e.ops[op].inFlightCount # 1
    <3> DEFINE new == [e.ops[op] EXCEPT !.inFlightCount = @ - 1]
               u == [e EXCEPT !.ops[op] = new]
    <3>1. FinishTransferRequest(e, q.id) = Erase(u, q.id)
      BY <2>2, <2>4 DEF FinishTransferRequest, RemoveTransferRequest
    <3>2. new \in Op
      BY <2>2 DEF Op
    <3>3. u \in State
      <4> HIDE DEF new
      <4>1. [e.ops EXCEPT ![op] = new] \in Maps(Nat, Op)
        BY <2>2, <3>2, StateType, MapExcept
      <4> QED BY <2>2, <4>1 DEF State
    <3> HIDE DEF u
    <3> QED BY <1>9, <3>1, <3>3
  <2> QED BY <2>3, <2>4
<1>11. q.id \in DOMAIN t.jobs => ToClose(t, q.id)
  <2>1. s \in State
    BY <1>1 DEF Uses, Plain
  <2> QED BY <1>3, <1>9, <1>10, <2>1
<1> QED
  BY <1>7, <1>8, <1>11 DEF t

(* After an answer to the opening of a file: its handle is closed under    *)
(* the id of the operation.                                                *)
LEMMA OpenedHold ==
    ASSUME NEW p, NEW d, Broken(p, d), NEW q \in p.requests, NEW op,
           q.id \in DOMAIN p.jobs, op = p.jobs[q.id], q.type = "OPEN",
           NEW t, Goes(Less(p, q), t, q.id, op), ToClose(t, q.id)
    PROVE  Hold(t, op)
<1>1. /\ Of(p, q, op) /\ Uses(Less(p, q), q.id, op)
  BY OfBroken
<1>2. op = q.id
  BY DEF Broken
<1>3. /\ Less(p, q).jobs = p.jobs /\ Less(p, q).ops = p.ops
      /\ op \in DOMAIN p.ops
  BY <1>1, LessIs DEF Of
<1>4. op \in DOMAIN t.ops
  BY <1>3 DEF Goes
<1>5. op \in DOMAIN t.jobs => t.jobs[op] = op
  BY <1>1, <1>2, <1>3 DEF Goes, Uses
<1> QED
  BY <1>2, <1>4, <1>5 DEF Hold

LEMMA BrokenOpened ==
    ASSUME NEW p, NEW d, Broken(p, d), NEW q, NEW op, Of(p, q, op),
           q.type = "OPEN", NEW n \in Nat
    PROVE  LET t == HandleHandle(Opened(Less(p, q), op, n), q.id)
           IN  Goes(Less(p, q), t, q.id, op) /\ Hold(t, op) /\ ~Writing(p, op)
<1> DEFINE u == Less(p, q)
           s == Opened(u, op, n)
           o == [s EXCEPT !.ops[op].state = "Open"]
           c == SendTransferCloseHandle(o, op, q.id)
           t == HandleHandle(s, q.id)
           new == [p.ops[op] EXCEPT !.remote = n]
           open == [new EXCEPT !.state = "Open"]
<1>1. /\ Plain(u) /\ Uses(u, q.id, op) /\ Child(p.ops[op], d)
      /\ p.ops[op] \in Op /\ d # 0 /\ q \in p.requests
  BY OfBroken DEF Of, Broken
<1>2. /\ u.ops = p.ops /\ u.uploadDirs = p.uploadDirs
      /\ u.signals = p.signals /\ u.nextJobId = p.nextJobId /\ u.jobs = p.jobs
      /\ u.requests = p.requests \ {q} /\ op \in DOMAIN p.ops
      /\ q.id \in DOMAIN p.jobs /\ p.jobs[q.id] = op
  BY LessIs DEF Of
<1>3. op = q.id /\ p.ops[op].type = "UploadFile"
  BY <1>1, <1>2 DEF Broken
<1>4. ~p.ops[op].append /\ ~p.ops[op].unreadable
  BY <1>1, <1>3 DEF Child
<1>5. /\ Kin(p.ops[op], new) /\ Kin(new, open) /\ new.unreadable = p.ops[op].unreadable
      /\ new.type = "UploadFile" /\ new.parent = d /\ ~new.append
      /\ open.type = "UploadFile" /\ open.parent = d
  BY <1>1, <1>3, <1>4 DEF Kin, Op, Child
<1>6. s = [u EXCEPT !.ops[op] = new]
  BY <1>2 DEF Opened
<1> HIDE DEF u, s, new
<1>7. Goes(u, s, q.id, op) /\ s.jobs = u.jobs /\ s.ops[op] = new
  <2>1. Puts(u, s, op, new)
    BY <1>1, <1>2, <1>5, <1>6 DEF Puts
  <2> QED BY <2>1, GoesPuts
<1>8. Plain(s) /\ op \in DOMAIN s.ops /\ s.uploadDirs = p.uploadDirs
  BY <1>2, <1>7 DEF Goes
<1>9. o = [s EXCEPT !.ops[op] = open]
  BY <1>7
<1> HIDE DEF o, open
<1>10. Goes(s, o, q.id, op) /\ o.jobs = s.jobs /\ o.ops[op] = open
  <2>1. Puts(s, o, op, open)
    BY <1>5, <1>7, <1>8, <1>9 DEF Puts
  <2> QED BY <2>1, GoesPuts
<1>11. Plain(o) /\ op \in DOMAIN o.ops /\ o.uploadDirs = p.uploadDirs /\ q.id \in Nat
  BY <1>1, <1>2, <1>8, <1>10 DEF Goes, Uses
<1> HIDE DEF c
<1>12. Goes(o, c, q.id, op) /\ ToClose(c, q.id) /\ c.jobs = o.jobs
  BY <1>11, GoesClose DEF c
<1>13. Goes(u, c, q.id, op)
  BY <1>1, <1>7, <1>10, <1>12, GoesOn
<1>14. /\ Uses(c, q.id, op) /\ ~c.ops[op].unreadable
  <2>1. /\ Plain(c) /\ DOMAIN c.ops = DOMAIN u.ops /\ Kin(u.ops[op], c.ops[op])
        /\ u.nextJobId <= c.nextJobId
    BY <1>13 DEF Goes
  <2>2. c.nextJobId \in Nat /\ u.nextJobId \in Nat
    BY <1>1, <2>1, StateType DEF Plain
  <2>3. q.id \in 1..c.nextJobId
    BY <1>1, <2>1, <2>2 DEF Uses
  <2> QED BY <1>2, <1>4, <1>7, <1>10, <1>12, <2>1, <2>3 DEF Uses, Kin
<1>15. t = SpawnWriteRequests(c, q.id)
  <2>1. ParentHasError(o, op)
    <3>1. p.uploadDirs[d].hasError
      BY DEF Broken
    <3> QED BY <1>1, <1>5, <1>10, <1>11, <3>1 DEF ParentHasError
  <2>2. s.jobs[q.id] = op /\ s.ops[op] = new /\ o = [s EXCEPT !.ops[op].state = "Open"]
    BY <1>2, <1>7 DEF o
  <2> QED BY <1>5, <2>1, <2>2 DEF HandleHandle, c
<1> HIDE DEF t
<1>16. Goes(c, t, q.id, op)
  BY <1>14, <1>15, GoesSpawn
<1>17. Goes(u, t, q.id, op)
  BY <1>1, <1>13, <1>16, GoesOn
<1>18. ToClose(t, op)
  BY <1>3, <1>12, <1>16 DEF Goes, ToClose
<1>19. op \in DOMAIN t.jobs => t.jobs[op] = op
  BY <1>1, <1>2, <1>3, <1>17 DEF Goes, Uses
<1>20. op \in DOMAIN t.ops
  BY <1>2, <1>17 DEF Goes
<1>21. ~Writing(p, op)
  <2>1. q \in Sent(p, op)
    BY <1>1, <1>2 DEF Sent, Ids
  <2> QED BY <2>1 DEF Writing
<1> QED
  BY <1>17, <1>18, <1>19, <1>20, <1>21 DEF Hold, t, s, u

----------------------------------------------------------------------------
(* The failure of a part is reported under the id x.                       *)
Spoiled(s, d, x) == Finished(Tainted(s, d), x, "failed")

FailedDirs(s, d) ==
    [s.uploadDirs EXCEPT ![d] = FailedDir(s.uploadDirs[d])]

FailedAt(s, x) == [s.signals EXCEPT ![x] = <<"failed">>]

IsSpoiled(s, t, d, x) ==
    /\ t = [s EXCEPT !.uploadDirs = FailedDirs(s, d), !.signals = FailedAt(s, x)]
    /\ t \in State /\ t.jobs = s.jobs /\ t.ops = s.ops
    /\ t.requests = s.requests /\ t.nextJobId = s.nextJobId
    /\ t.uploadDirs = FailedDirs(s, d) /\ t.signals = FailedAt(s, x)
    /\ FailedDir(s.uploadDirs[d]).hasError

CanSpoil(s, d, x) ==
    /\ s \in State /\ d \in DOMAIN s.uploadDirs
    /\ x \in DOMAIN s.signals /\ s.signals[x] = <<>>

LEMMA SpoiledIs ==
    ASSUME NEW p, NEW d, NEW x, CanSpoil(p, d, x)
    PROVE  IsSpoiled(p, Spoiled(p, d, x), d, x)
<1> DEFINE t == Spoiled(p, d, x)
           dir == FailedDir(p.uploadDirs[d])
           uu == [p.uploadDirs EXCEPT ![d] = dir]
           sig == <<"failed">>
           ss == [p.signals EXCEPT ![x] = sig]
           v == Tainted(p, d)
<1>0. /\ p \in State /\ d \in DOMAIN p.uploadDirs
      /\ x \in DOMAIN p.signals /\ p.signals[x] = <<>>
  BY DEF CanSpoil
<1>1. /\ p.uploadDirs[d] \in Dir /\ p.uploadDirs \in Maps(Nat, Dir)
      /\ p.signals \in Maps(Nat, Results)
  BY <1>0, StateType
<1>2. dir \in Dir /\ dir.hasError
  BY <1>1, NoMapType DEF FailedDir, Dir
<1>3. sig \in Results /\ Append(p.signals[x], "failed") = sig
  BY <1>0, ReportOne
<1>4. uu \in Maps(Nat, Dir) /\ ss \in Maps(Nat, Results)
  <2> HIDE DEF dir, sig
  <2> QED BY <1>0, <1>1, <1>2, <1>3, MapExcept
<1>5. v = [p EXCEPT !.uploadDirs = uu]
  BY DEF Tainted
<1>6. t = [v EXCEPT !.signals[x] = Append(v.signals[x], "failed")]
  BY DEF Spoiled, Finished
<1> HIDE DEF dir, sig, uu, v, t
<1>7. v.signals = p.signals
  BY <1>0, <1>5 DEF State
<1>8. t = [v EXCEPT !.signals = ss]
  BY <1>3, <1>6, <1>7
<1> HIDE DEF ss
<1>9. t = [p EXCEPT !.uploadDirs = uu, !.signals = ss]
  BY <1>0, <1>5, <1>8 DEF State
<1>10. /\ t \in State /\ t.jobs = p.jobs /\ t.ops = p.ops
       /\ t.requests = p.requests /\ t.nextJobId = p.nextJobId
       /\ t.uploadDirs = uu /\ t.signals = ss
  BY <1>0, <1>4, <1>9 DEF State
<1> QED
  BY <1>2, <1>9, <1>10 DEF IsSpoiled, FailedDirs, FailedAt, t, uu, ss, dir, sig

LEMMA SpoiledLess ==
    ASSUME NEW p, NEW q, NEW op, Of(p, q, op), NEW d, NEW x, CanSpoil(p, d, x)
    PROVE  /\ Spoiled(Less(p, q), d, x) = Less(Spoiled(p, d, x), q)
           /\ Of(Spoiled(p, d, x), q, op)
<1> DEFINE s == Less(p, q)
           t == Spoiled(p, d, x)
           uu == FailedDirs(p, d)
           ss == FailedAt(p, x)
           rr == p.requests \ {q}
           z == Spoiled(s, d, x)
<1>1. p \in State
  BY DEF Of
<1>2. /\ s \in State /\ s.uploadDirs = p.uploadDirs /\ s.signals = p.signals
  BY LessIs
<1>3. s = [p EXCEPT !.requests = rr]
  BY DEF Less
<1> HIDE DEF s, t, rr, z
<1>4. /\ t = [p EXCEPT !.uploadDirs = uu, !.signals = ss]
      /\ t \in State /\ t.jobs = p.jobs /\ t.ops = p.ops
      /\ t.requests = p.requests /\ t.signals = ss
  <2>1. IsSpoiled(p, t, d, x)
    BY SpoiledIs DEF t
  <2> QED BY <2>1 DEF IsSpoiled
<1>5. z = [s EXCEPT !.uploadDirs = uu, !.signals = ss]
  <2>1. CanSpoil(s, d, x)
    BY <1>2 DEF CanSpoil
  <2>2. FailedDirs(s, d) = uu /\ FailedAt(s, x) = ss
    BY <1>2 DEF FailedDirs, FailedAt
  <2>3. IsSpoiled(s, z, d, x)
    BY <2>1, SpoiledIs DEF z
  <2> QED BY <2>2, <2>3 DEF IsSpoiled
<1>6. DOMAIN ss = DOMAIN p.signals
  BY DEF FailedAt
<1> HIDE DEF uu, ss
<1>7. Less(t, q) = [t EXCEPT !.requests = rr]
  BY <1>4 DEF Less, rr
<1>8. z = Less(t, q)
  BY <1>1, <1>3, <1>4, <1>5, <1>7 DEF State
<1>9. Of(t, q, op)
  BY <1>4, <1>6 DEF Of
<1> QED
  BY <1>8, <1>9 DEF z, s, t

----------------------------------------------------------------------------
(* What of a channel in use is spoiled: all that runs is the upload of one *)
(* directory, and a part of it that is not its top level is refused.       *)
Spoiling(p, q, op, d) ==
    /\ Good(p) /\ Of(p, q, op)
    /\ \A o \in DOMAIN p.ops : p.ops[o].parent # 0
    /\ d = p.ops[op].parent /\ d # op - 1

LEMMA SpoilingFacts ==
    ASSUME NEW p, NEW q, NEW op, NEW d, Spoiling(p, q, op, d)
    PROVE  /\ p \in State /\ Plain(p) /\ Wired(p)
           /\ d # 0 /\ DOMAIN p.uploadDirs = {d} /\ ~p.uploadDirs[d].hasError
           /\ d \in DOMAIN p.signals /\ p.signals[d] = <<>>
           /\ d \notin DOMAIN p.ops
           /\ \A o \in DOMAIN p.ops : /\ Child(p.ops[o], d) /\ ~p.ops[o].hasError
                                      /\ o \in DOMAIN p.signals
                                      /\ p.signals[o] = <<>>
<1>1. /\ p \in State /\ Plain(p) /\ Wired(p) /\ op \in DOMAIN p.ops
      /\ Ids(p, op) # {} /\ d = p.ops[op].parent /\ d # 0 /\ d # op - 1
      /\ p.ops[op] \in Op /\ op \in Nat
  BY StateType DEF Spoiling, Good, Wired, Plain, Of, Ids
<1>2. DOMAIN p.uploadDirs = {d}
  BY <1>1 DEF Plain
<1>3. d \in DOMAIN p.signals /\ d \notin DOMAIN p.ops /\ d \in Nat
  BY <1>1, <1>2, StateType DEF Plain
<1>4. ASSUME NEW o \in DOMAIN p.ops
      PROVE  /\ Child(p.ops[o], d) /\ ~p.ops[o].hasError
             /\ o \in DOMAIN p.signals /\ p.signals[o] = <<>>
  <2>1. p.ops[o].parent = d
    <3>1. p.ops[o].parent # 0 /\ p.ops[o].parent \in {0} \union DOMAIN p.uploadDirs
      BY <1>1 DEF Spoiling, Plain
    <3> QED BY <1>2, <3>1
  <2>2. OpInv(p.ops[o], o, Ids(p, o), Sent(p, o), p.signals[o])
    BY DEF Spoiling, Good, OpsInv
  <2>3. o \in DOMAIN p.signals
    BY <1>1, WiredFacts
  <2> QED BY <1>1, <2>1, <2>2, <2>3 DEF OpInv, Shape, Reported, Child
<1>5. DirInv(p, d)
  BY <1>2 DEF Spoiling, Good, DirsInv
<1>6. op \in Kids(p, d) /\ op # d + 1
  BY <1>1, <1>3 DEF Kids
<1>7. ~Refused(p, d)
  BY <1>6 DEF Refused
<1>8. ~p.uploadDirs[d].hasError
  BY <1>5, <1>7 DEF DirInv, AtLevel, AllCreated
<1>9. p.signals[d] = <<>>
  <2>1. CASE AtLevel(p, d)
    BY <2>1 DEF AtLevel
  <2>2. CASE AllCreated(p, d)
    <3>1. op \notin DirsIn(p, d)
      BY <1>1, <2>2 DEF AllCreated
    <3>2. op \in p.uploadDirs[d].uploads
      BY <1>1, <1>5, <1>6, <3>1 DEF DirInv, DirsIn
    <3> QED BY <2>2, <3>2 DEF AllCreated
  <2> QED BY <1>5, <1>7, <2>1, <2>2 DEF DirInv
<1> QED
  BY <1>1, <1>2, <1>3, <1>4, <1>8, <1>9

(* Where it is reported: under the id of the directory, or of the part.    *)
Blamed(p, q, op, d) ==
    IF p.ops[op].type = "MakeDir" \/ q.type = "CLOSE" THEN d ELSE op

LEMMA SpoilIs ==
    ASSUME NEW p, NEW q, NEW op, NEW d, Spoiling(p, q, op, d),
           NEW v, v = Spoiled(p, d, Blamed(p, q, op, d))
    PROVE  HandleStatus(Less(p, q), q.id, Refusal(q.type)) =
              HandleStatus(Less(v, q), q.id, Refusal(q.type))
<1> DEFINE x == Blamed(p, q, op, d)
           s == Less(p, q)
           w == Less(v, q)
           id == q.id
           code == Refusal(q.type)
           job == p.ops[op]
           e == SetParentError(s, op)
<1>1. /\ p \in State /\ Plain(p) /\ Of(p, q, op) /\ d # 0
      /\ DOMAIN p.uploadDirs = {d} /\ ~p.uploadDirs[d].hasError
      /\ d \in DOMAIN p.signals /\ p.signals[d] = <<>>
      /\ Child(job, d) /\ ~job.hasError
      /\ op \in DOMAIN p.signals /\ p.signals[op] = <<>>
      /\ Good(p) /\ op \in DOMAIN p.ops
  BY SpoilingFacts DEF Spoiling, Of
<1>2. CanSpoil(p, d, x)
  BY <1>1 DEF Blamed, CanSpoil
<1>3. Spoiled(s, d, x) = w /\ Of(v, q, op)
  BY <1>1, <1>2, SpoiledLess
<1>4. /\ s \in State /\ s.jobs[id] = op /\ s.ops[op] = job
      /\ s.uploadDirs = p.uploadDirs /\ s.signals = p.signals
  BY <1>1, LessIs
<1>5. e = Tainted(s, d)
  BY <1>1, <1>4, ParentErrorIs DEF Child
<1>6. Finished(e, x, "failed") = w
  BY <1>3, <1>5 DEF Spoiled
<1>7. v.ops = p.ops /\ v.uploadDirs[d].hasError
  <2>1. IsSpoiled(p, v, d, x)
    BY <1>2, SpoiledIs
  <2>2. v.uploadDirs[d] = FailedDir(p.uploadDirs[d])
    BY <1>1, <2>1 DEF IsSpoiled, FailedDirs
  <2> QED BY <2>1, <2>2 DEF IsSpoiled
<1>8. w.jobs[id] = op /\ w.ops[op] = job /\ w.uploadDirs[d].hasError
  <2>1. w.jobs[id] = op /\ w.ops = v.ops /\ w.uploadDirs = v.uploadDirs
    BY <1>3, LessIs
  <2> QED BY <1>7, <2>1
<1>9. ~ParentHasError(s, op) /\ job.parent = d
  BY <1>1, <1>4 DEF ParentHasError, Child
<1>10. HandleStatus(w, id, code) =
             IF job.type = "UploadFile" /\ job.state = "Open"
             THEN FinishTransferRequest(SetError(w, op), id)
             ELSE Erase(w, id)
  <2>1. Child(w.ops[op], d) /\ d # 0
    BY <1>1, <1>8
  <2> HIDE DEF s, w, id, code, job, e, x
  <2>2. HandleStatus(w, id, code) =
             IF w.ops[op].type = "UploadFile" /\ w.ops[op].state = "Open"
             THEN FinishTransferRequest(SetError(w, op), id)
             ELSE Erase(w, id)
    BY <1>8, <2>1, BrokenStatusIs
  <2> QED BY <1>8, <2>2
<1>11. Asks(q, job)
  BY <1>1, AsksFor
<1> HIDE DEF x, s, w, id, code, job, e
<1>12. CASE job.type = "MakeDir"
  <2>1. q.type = "MKDIR" /\ code = "DENIED"
    BY <1>11, <1>12 DEF Asks, code, Refusal
  <2>2. HandleStatus(s, id, code) = HandleMkdirStatus(s, id, code)
    BY <1>4, <1>12 DEF HandleStatus
  <2>3. HandleMkdirStatus(s, id, code) = Erase(Finished(e, d, "failed"), id)
    BY <1>1, <1>4, <1>9, <2>1 DEF HandleMkdirStatus, e
  <2>4. x = d
    BY <1>12 DEF x, Blamed, job
  <2> QED BY <1>6, <1>10, <1>12, <2>2, <2>3, <2>4 DEF s, w, id, code
<1>13. CASE job.type = "UploadFile"
  <2>1. HandleStatus(s, id, code) = HandlePutStatus(s, id, code)
    BY <1>4, <1>13 DEF HandleStatus
  <2>2. code = "FAILURE" /\ code # "OK"
    BY <1>11, <1>13 DEF Asks, code, Refusal
  <2>3. \/ Requesting(job, op, Ids(p, op), Sent(p, op)) /\ q.type = "OPEN"
        \/ Moving(job, Ids(p, op), Sent(p, op)) /\ q.type = "WRITE"
        \/ Closing(job, Ids(p, op), Sent(p, op)) /\ q.type = "CLOSE"
    <3>1. ~job.append
      BY <1>1, <1>13 DEF Child
    <3>2. InitialRequest("UploadFile") = "OPEN"
      BY DEF InitialRequest
    <3> QED BY <1>1, <1>13, <3>1, <3>2, StageOf
            DEF Listing, Creating, Asking, job
  <2>4. CASE Requesting(job, op, Ids(p, op), Sent(p, op)) /\ q.type = "OPEN"
    <3>1. job.state = "OpenRequested"
      BY <1>13, <2>4 DEF Requesting, WithHandle
    <3>2. HandlePutStatus(s, id, code) = Erase(Finished(e, op, "failed"), id)
      BY <1>4, <1>9, <3>1 DEF HandlePutStatus, e
    <3>3. x = op
      BY <1>13, <2>4 DEF x, Blamed, job
    <3> QED BY <1>6, <1>10, <2>1, <3>1, <3>2, <3>3 DEF s, w, id, code
  <2>5. CASE Moving(job, Ids(p, op), Sent(p, op)) /\ q.type = "WRITE"
    <3>1. job.state = "Open"
      BY <2>5 DEF Moving
    <3>2. HandlePutStatus(s, id, code) =
             FinishTransferRequest(ReportRequestError(e, op), id)
      BY <1>1, <1>4, <1>9, <2>2, <3>1 DEF HandlePutStatus, e
    <3>3. x = op
      BY <1>13, <2>5 DEF x, Blamed, job
    <3>4. ReportRequestError(e, op) = SetError(w, op)
      BY <1>6, <3>3 DEF ReportRequestError
    <3> QED BY <1>10, <1>13, <2>1, <3>1, <3>2, <3>4 DEF s, w, id, code
  <2>6. CASE Closing(job, Ids(p, op), Sent(p, op)) /\ q.type = "CLOSE"
    <3>1. job.state = "CloseRequested"
      BY <2>6 DEF Closing
    <3>2. HandlePutStatus(s, id, code) = Erase(UploadClosed(s, op, code), id)
      BY <1>1, <1>4, <1>9, <3>1 DEF HandlePutStatus
    <3>3. UploadClosed(s, op, code) = Finished(e, d, "failed")
      BY <1>1, <1>4, <1>9, <2>2 DEF UploadClosed, e
    <3>4. x = d
      BY <2>6 DEF x, Blamed
    <3> QED BY <1>6, <1>10, <2>1, <3>1, <3>2, <3>3, <3>4 DEF s, w, id, code
  <2> QED BY <2>3, <2>4, <2>5, <2>6
<1> QED
  BY <1>1, <1>12, <1>13 DEF Child

LEMMA SpoiledIsBroken ==
    ASSUME NEW p, NEW q, NEW op, NEW d, Spoiling(p, q, op, d),
           NEW v, v = Spoiled(p, d, Blamed(p, q, op, d))
    PROVE  /\ IsSpoiled(p, v, d, Blamed(p, q, op, d)) /\ Of(v, q, op)
           /\ Broken(v, d) /\ v.signals[op] \in Results
<1> DEFINE x == Blamed(p, q, op, d)
<1>1. /\ p \in State /\ Plain(p) /\ Wired(p)
      /\ d # 0 /\ DOMAIN p.uploadDirs = {d}
      /\ d \in DOMAIN p.signals /\ p.signals[d] = <<>>
      /\ \A o \in DOMAIN p.ops : /\ Child(p.ops[o], d)
                                 /\ o \in DOMAIN p.signals
                                 /\ p.signals[o] = <<>>
      /\ Good(p) /\ Of(p, q, op) /\ op \in DOMAIN p.ops
  BY SpoilingFacts DEF Spoiling, Of
<1>2. CanSpoil(p, d, x)
  BY <1>1 DEF CanSpoil, Blamed
<1> HIDE DEF x
<1>3. IsSpoiled(p, v, d, x)
  BY <1>2, SpoiledIs DEF x
<1>4. Of(v, q, op)
  BY <1>1, <1>2, SpoiledLess DEF x
<1>5. /\ v \in State /\ v.jobs = p.jobs /\ v.ops = p.ops
      /\ v.requests = p.requests /\ v.nextJobId = p.nextJobId
      /\ DOMAIN v.uploadDirs = {d} /\ v.uploadDirs[d].hasError
      /\ DOMAIN v.signals = DOMAIN p.signals
      /\ \A i \in DOMAIN p.signals :
            v.signals[i] = IF i = x THEN <<"failed">> ELSE p.signals[i]
  BY <1>1, <1>3 DEF IsSpoiled, FailedDirs, FailedAt
<1>6. Plain(v)
  BY <1>1, <1>5 DEF Plain
<1>7. \A o \in DOMAIN v.ops : Child(v.ops[o], d)
  BY <1>1, <1>5
<1>8. ASSUME NEW r \in p.requests
      PROVE  /\ r.id \in 1..p.nextJobId
             /\ r.type \in {"MKDIR", "OPEN", "WRITE", "CLOSE"}
             /\ r.type = "OPEN" =>
                   p.jobs[r.id] = r.id /\ p.ops[r.id].type = "UploadFile"
  <2> DEFINE o == p.jobs[r.id]
             job == p.ops[o]
  <2>1. Of(p, r, o) /\ o \in DOMAIN p.ops
    BY <1>1, <1>8, OfWired
  <2>2. r.id \in 1..p.nextJobId
    BY <1>1, <2>1 DEF Of, Plain
  <2>3. Child(job, d)
    BY <1>1, <2>1
  <2> HIDE DEF o
  <2>4. Asks(r, job)
    BY <1>1, <2>1, AsksFor
  <2>5. r.type = "OPEN" => r.id = o
    BY <1>1, <2>1, StageOf DEF Moving
  <2> HIDE DEF job
  <2>6. /\ r.type \in {"MKDIR", "OPEN", "WRITE", "CLOSE"}
        /\ r.type = "OPEN" => job.type = "UploadFile"
    BY <2>3, <2>4 DEF Asks, Child
  <2> QED BY <2>2, <2>5, <2>6 DEF o, job
<1>9. \A i \in DOMAIN v.ops \union {d} : "ok" \notin Range(v.signals[i])
  <2>1. "ok" \notin Range(<<>>) /\ "ok" \notin Range(<<"failed">>)
    BY DEF Range
  <2>2. \A i \in DOMAIN p.ops \union {d} : v.signals[i] \in {<<>>, <<"failed">>}
    BY <1>1, <1>5
  <2> QED BY <1>5, <2>1, <2>2
<1>10. Broken(v, d)
  BY <1>1, <1>5, <1>6, <1>7, <1>8, <1>9 DEF Broken
<1>11. v.signals[op] \in Results
  BY <1>1, <1>5, StateType
<1> QED
  BY <1>3, <1>4, <1>10, <1>11 DEF x

LEMMA SpoiledHolds ==
    ASSUME NEW p, NEW q, NEW op, NEW d, Spoiling(p, q, op, d),
           NEW v, v.jobs = p.jobs, v.ops = p.ops, v.requests = p.requests,
           NEW o \in DOMAIN p.ops, Ids(p, o) # {},
           \A r \in Sent(p, o) : r.type \in OnHandles
    PROVE  Hold(v, o)
<1> DEFINE job == p.ops[o]
           I == Ids(p, o)
           Q == Sent(p, o)
<1>1. Good(p) /\ Wired(p) /\ Child(job, d)
  BY SpoilingFacts DEF Spoiling
<1>2. PICK r \in p.requests : r.id \in I
  BY <1>1 DEF Wired, OneEach, Ids
<1>3. Of(p, r, o) /\ r \in Q
  <2>1. p.jobs[r.id] = o
    BY <1>2 DEF Ids
  <2> QED BY <1>1, <2>1, OfWired
<1>4. OneEach(I, Q)
  BY <1>1 DEF Wired, OneEach, Ids, Sent
<1>5. Ids(v, o) = I /\ Sent(v, o) = Q
  BY DEF Ids, Sent
<1>6. job \in Op /\ r.type \in OnHandles
  BY <1>1, <1>3, WiredFacts
<1>7. \/ Requesting(job, o, I, Q) /\ r.type = InitialRequest(job.type)
      \/ Listing(job, o, I, Q)
      \/ Creating(job, o, I, Q)
      \/ Asking(job, o, I, Q)
      \/ Moving(job, I, Q) /\ job.inFlightCount = Cardinality(I)
      \/ Closing(job, I, Q)
  BY <1>1, <1>3, StageOf
<1>8. r.type # InitialRequest(job.type)
  <2>1. job.type \in {"MakeDir", "UploadFile"}
    BY <1>1 DEF Child
  <2> HIDE DEF job
  <2> QED BY <1>6, <2>1 DEF InitialRequest, OnHandles
<1> HIDE DEF I, Q
<1>9. CASE Moving(job, I, Q) /\ job.inFlightCount = Cardinality(I)
  <2>1. /\ job.type = "UploadFile" /\ job.state = "Open" /\ I # {}
        /\ IsFiniteSet(I) /\ \A x \in Q : x.type = "WRITE"
    BY <1>1, <1>9 DEF Moving, Child, Transfers
  <2>2. Writing(v, o)
    BY <1>4, <1>5, <1>9, <2>1 DEF Writing, OneEach
  <2> QED BY <2>2 DEF Hold
<1>10. CASE Closing(job, I, Q)
  <2>1. I # {} /\ \A x \in Q : x.type = "CLOSE"
    BY <1>10 DEF Closing, Only
  <2> QED BY <1>5, <2>1 DEF Hold
<1> QED
  BY <1>1, <1>7, <1>8, <1>9, <1>10 DEF Listing, Creating, Asking, Child

(* What such a refusal leads to.                                           *)
LEMMA SpoilingStep ==
    ASSUME NEW p, NEW q, NEW op, NEW d, Spoiling(p, q, op, d),
           NEW t, t = HandleStatus(Less(p, q), q.id, Refusal(q.type))
    PROVE  LET x == Blamed(p, q, op, d)
           IN  /\ Broken(t, d) /\ DOMAIN t.ops = DOMAIN p.ops
               /\ p.nextJobId <= t.nextJobId
               /\ q.type = "OPEN" /\ q.id \in DOMAIN t.jobs => Hold(t, op)
               /\ \A i \in 1..p.nextJobId :
                     t.signals[i] = IF i = x THEN <<"failed">>
                                    ELSE p.signals[i]
               /\ \A i \in (1..t.nextJobId) \ (1..p.nextJobId) :
                     t.signals[i] = <<>>
               /\ \A o \in DOMAIN p.ops :
                     Ids(p, o) # {}
                        /\ (\A r \in Sent(p, o) : r.type \in OnHandles)
                        /\ (o = op => q.type # "CLOSE")
                        => Hold(t, o)
<1> DEFINE x == Blamed(p, q, op, d)
           v == Spoiled(p, d, x)
           code == Refusal(q.type)
<1>1. /\ IsSpoiled(p, v, d, x) /\ Of(v, q, op) /\ Broken(v, d)
      /\ v.signals[op] \in Results
  BY SpoiledIsBroken
<1>2. t = HandleStatus(Less(v, q), q.id, code)
  BY SpoilIs
<1> HIDE DEF x, v, code
<1>3. /\ v \in State /\ v.jobs = p.jobs /\ v.ops = p.ops
      /\ v.requests = p.requests /\ v.nextJobId = p.nextJobId
      /\ v.signals = FailedAt(p, x)
  BY <1>1 DEF IsSpoiled
<1>4. At(v, Less(v, q), q, op, v.ops[op], v.signals[op])
  BY <1>1, LessAt
<1>5. v.ops[op] \in Op
  BY <1>1, <1>3, StateType DEF Of
<1>6. Kin(v.ops[op], v.ops[op])
  BY <1>5 DEF Kin
<1>7. /\ Goes(Less(v, q), t, q.id, op)
      /\ Writing(v, op) => Hold(t, op)
      /\ q.id \in DOMAIN t.jobs => ToClose(t, q.id)
  BY <1>1, <1>2, <1>4, <1>6, BrokenStatus
<1>8. q \in v.requests /\ q.id \in DOMAIN v.jobs /\ op = v.jobs[q.id]
  BY <1>1 DEF Of
<1>9. Broken(t, d)
  BY <1>1, <1>7, <1>8, BrokenKept
<1>10. /\ Less(v, q).nextJobId = p.nextJobId /\ Less(v, q).signals = v.signals
       /\ Less(v, q).ops = p.ops
  BY <1>1, <1>3, LessIs
<1>11. /\ DOMAIN t.ops = DOMAIN p.ops /\ p.nextJobId <= t.nextJobId
       /\ \A i \in 1..p.nextJobId : t.signals[i] = v.signals[i]
       /\ \A i \in (1..t.nextJobId) \ (1..p.nextJobId) : t.signals[i] = <<>>
  BY <1>7, <1>10 DEF Goes
<1>12. \A i \in 1..p.nextJobId :
          v.signals[i] = IF i = x THEN <<"failed">> ELSE p.signals[i]
  <2>1. DOMAIN p.signals = 1..p.nextJobId
    BY SpoilingFacts DEF Plain
  <2> QED BY <1>3, <2>1 DEF FailedAt
<1>13. ASSUME NEW o \in DOMAIN p.ops, Ids(p, o) # {},
              \A r \in Sent(p, o) : r.type \in OnHandles,
              o = op => q.type # "CLOSE"
       PROVE  Hold(t, o)
  <2>1. Hold(v, o)
    BY <1>3, <1>13, SpoiledHolds
  <2> QED BY <1>1, <1>7, <1>8, <1>13, <2>1, HoldKept
<1>14. ASSUME q.type = "OPEN", q.id \in DOMAIN t.jobs
       PROVE  Hold(t, op)
  BY <1>1, <1>7, <1>8, <1>9, <1>14, OpenedHold
<1> QED
  BY <1>9, <1>11, <1>12, <1>13, <1>14 DEF x

----------------------------------------------------------------------------
(* The invariant.                                                          *)

(* The ids the user was given are those of operations of his own, beside   *)
(* which no directory is uploaded.                                         *)
Given(s) ==
    /\ issued \subseteq 1..s.nextJobId
    /\ \A op \in DOMAIN s.ops : s.ops[op].parent = 0 => op \in issued
    /\ DOMAIN s.uploadDirs \subseteq issued
    /\ DOMAIN s.uploadDirs # {} => \A op \in DOMAIN s.ops : s.ops[op].parent # 0

(* Who has a handle has requests that need it, or lost it.                 *)
Holding(s, held) ==
    \A op \in held : /\ op \in DOMAIN s.ops
                     /\ Ids(s, op) = {} => Unsized(s.ops[op])
                     /\ \A r \in Sent(s, op) : r.type \in OnHandles

(* The phases of the channel.                                              *)
Beginning ==
    /\ Now = [jobs |-> NoMap, ops |-> NoMap, uploadDirs |-> NoMap,
              nextJobId |-> 0, requests |-> requests, signals |-> NoMap]
    /\ issued = {} /\ handles = {}
    /\ sftpState \in {"Inactive", "SubsystemRequested", "InitSent"}
    /\ \/ channelState = "Inactive" /\ requests = {}
       \/ /\ channelState = "SessionRequested"
          /\ requests \subseteq {Requested("SESSION")}
       \/ /\ channelState = "SessionEstablished"
          /\ requests \in {{Requested("SUBSYSTEM")}, {Requested("INIT")}}

Working == Initialized /\ Good(Now) /\ Given(Now) /\ Holding(Now, handles)

(* A part of a directory was refused, and what is left of it is answered.  *)
Spoilt ==
    /\ Initialized
    /\ \E d \in issued : Broken(Now, d)
    /\ \A op \in handles : Hold(Now, op)

Over ==
    /\ \/ channelState \in {"CloseRequested", "Closed"}
       \/ channelState = "Accused" /\ DirectoryFailed
    /\ requests = {}

Phase == Beginning \/ Working \/ Spoilt \/ Over

IInv == Phase /\ TransfersAreComplete

----
(* Steps.                                                                  *)
LEMMA BecomesNow ==
    ASSUME NEW t \in State, Becomes(t)
    PROVE  Now' = t
  BY DEF Becomes, Now, State

LEMMA EndsOutcome ==
    ASSUME NEW p, NEW t, Plain(p), Plain(t), p.nextJobId <= t.nextJobId,
           Ends(p, t),
           \A i \in (1..t.nextJobId) \ (1..p.nextJobId) : t.signals[i] = <<>>
    PROVE  \/ Emitted(t.signals) = Emitted(p.signals)
           \/ \E x \in 1..p.nextJobId, end \in {"ok", "failed"} :
                 /\ OneMoreEnd(Emitted(t.signals), Emitted(p.signals), x, end)
                 /\ \/ x \in DOMAIN p.uploadDirs
                    \/ x \in DOMAIN p.ops /\ p.ops[x].parent = 0
<1> DEFINE f == p.signals
           g == t.signals
           m == p.nextJobId
           n == t.nextJobId
<1>1. m \in Nat /\ n \in Nat /\ DOMAIN f = 1..m /\ DOMAIN g = 1..n
  BY StateType DEF Plain
<1>2. CASE \A i \in 1..m : g[i] = f[i]
  <2>1. m <= n /\ \A i \in (1..n) \ (1..m) : g[i] = <<>>
    OBVIOUS
  <2> HIDE DEF f, g, m, n
  <2>2. Emitted(g) = Emitted(f)
    BY <1>1, <1>2, <2>1, OutcomeKept
  <2> QED BY <2>2 DEF f, g
<1>3. CASE \E x \in 1..m, end \in {"ok", "failed"} :
              /\ \/ x \in DOMAIN p.uploadDirs
                 \/ x \in DOMAIN p.ops /\ p.ops[x].parent = 0
              /\ f[x] = <<>> /\ g[x] = <<end>>
              /\ \A i \in 1..m : i # x => g[i] = f[i]
  <2>1. m <= n /\ \A i \in (1..n) \ (1..m) : g[i] = <<>>
    OBVIOUS
  <2>2. PICK x \in 1..m, end \in {"ok", "failed"} :
              /\ \/ x \in DOMAIN p.uploadDirs
                 \/ x \in DOMAIN p.ops /\ p.ops[x].parent = 0
              /\ f[x] = <<>> /\ g[x] = <<end>>
              /\ \A i \in 1..m : i # x => g[i] = f[i]
    BY <1>3
  <2>3. OneEnd(f, g, m, n, x, end)
    BY <1>1, <2>1, <2>2 DEF OneEnd
  <2>4. OneMoreEnd(Emitted(g), Emitted(f), x, end)
    <3> HIDE DEF f, g, m, n
    <3> QED BY <2>3, OutcomeAdded
  <2> QED BY <2>2, <2>4
<1> QED
  BY <1>2, <1>3 DEF Ends

ContractStep == Contract!Next \/ UNCHANGED <<PublicState, issued, Outcomes>>

LEMMA WorkingOutcomes == Working => Outcomes = Emitted(signals)
<1> SUFFICES ASSUME Working
             PROVE  Outcomes = Emitted(signals)
  OBVIOUS
<1>1. Good(Now) /\ Now.ops = ops /\ Now.signals = signals
  BY NowIs DEF Working
<1>2. ASSUME NEW op, OfFailedDirectory(op)
      PROVE  signals[op] = <<>>
  <2>1. op \in DOMAIN ops /\ ops[op].parent # 0
    BY <1>1, <1>2 DEF OfFailedDirectory, ParentHasError
  <2>2. Reported(ops[op], Ids(Now, op), signals[op])
    BY <1>1, <2>1 DEF Good, OpsInv, OpInv
  <2> QED BY <2>1, <2>2 DEF Reported
<1>3. \A i : signals[i] # <<>> /\ ~OfFailedDirectory(i) <=> signals[i] # <<>>
  BY <1>2
<1> QED
  BY <1>3 DEF Outcomes, Emitted

LEMMA OutcomesNext == Working' => Outcomes' = Emitted(signals')
<1>1. Working' => (Outcomes = Emitted(signals))'
  BY WorkingOutcomes, PTL
<1>2. Emitted(signals)' = Emitted(signals')
  BY DEF Emitted
<1> QED
  BY <1>1, <1>2

LEMMA SpoiltOutcomes == Spoilt => Outcomes = Emitted(Masked(signals, DOMAIN ops))
<1> SUFFICES ASSUME Spoilt
             PROVE  Outcomes = Emitted(Masked(signals, DOMAIN ops))
  OBVIOUS
<1>1. PICK d \in issued : Broken(Now, d)
  BY DEF Spoilt
<1>2. /\ d # 0 /\ Now.ops = ops /\ Now.uploadDirs[d].hasError
      /\ \A op \in DOMAIN ops : ops[op].parent = d
  BY <1>1, NowIs DEF Broken, Child
<1>3. \A i : OfFailedDirectory(i) <=> i \in DOMAIN ops
  BY <1>2 DEF OfFailedDirectory, ParentHasError
<1>4. Outcomes = {<<i, signals[i]>> :
                     i \in {j \in DOMAIN signals :
                               signals[j] # <<>> /\ j \notin DOMAIN ops}}
  BY <1>3 DEF Outcomes
<1> QED
  BY <1>4, MaskedEnds

LEMMA SpoiltOutcomesNext ==
    Spoilt' => Outcomes' = Emitted(Masked(signals', DOMAIN ops'))
<1>1. Spoilt' => (Outcomes = Emitted(Masked(signals, DOMAIN ops)))'
  BY SpoiltOutcomes, PTL
<1>2. Emitted(Masked(signals, DOMAIN ops))' = Emitted(Masked(signals', DOMAIN ops'))
  BY DEF Emitted, Masked
<1> QED
  BY <1>1, <1>2

LEMMA NoOutcomes == DOMAIN signals = {} => Outcomes = {}
  BY DEF Outcomes

LEMMA OutcomesKept ==
    ASSUME UNCHANGED <<ops, uploadDirs, signals>>
    PROVE  Outcomes' = Outcomes /\ DirectoryFailed' = DirectoryFailed
<1>1. ops' = ops /\ uploadDirs' = uploadDirs /\ signals' = signals
  OBVIOUS
<1>2. Now.ops = ops /\ Now.uploadDirs = uploadDirs
  BY NowIs
<1>3. Now'.ops = ops' /\ Now'.uploadDirs = uploadDirs'
  BY DEF Now
<1>4. \A i : OfFailedDirectory(i)' <=> OfFailedDirectory(i)
  BY <1>1, <1>2, <1>3 DEF OfFailedDirectory, ParentHasError
<1> QED
  BY <1>1, <1>4 DEF Outcomes, DirectoryFailed

(* After an answer.                                                        *)
LEMMA AfterAnswer ==
    ASSUME Working, NEW q, NEW op, op = jobs[q.id], NEW t,
           Of(Now, q, op), Answered(Now, t, q, op), Becomes(t),
           handles' = HandlesAfter(q, t),
           UNCHANGED <<channelState, sftpState, issued>>
    PROVE  Working' /\ ContractStep
<1> DEFINE p == Now
<1>1. /\ Initialized /\ Good(Now) /\ Wired(Now) /\ Given(Now)
      /\ Holding(Now, handles)
  BY DEF Working, Good
<1>3. q \in p.requests /\ q.id \in DOMAIN p.jobs /\ p.jobs[q.id] = op
  BY DEF Of
<1>4. Becomes(t) /\ handles' = HandlesAfter(q, t)
  OBVIOUS
<1>5. Of(p, q, op) /\ Answered(p, t, q, op)
  OBVIOUS
<1>6. /\ Good(t) /\ Wired(t) /\ Plain(t) /\ t \in State
      /\ Plain(p) /\ p \in State
  BY <1>1, <1>5 DEF Answered, Good, Wired, Plain
<1>7. Now' = t
  BY <1>4, <1>6, BecomesNow
<1>8. /\ channelState' = channelState /\ sftpState' = sftpState
      /\ issued' = issued
  OBVIOUS
<1>9. Initialized'
  BY <1>1, <1>8 DEF Initialized
<1> HIDE DEF p
<1>10. /\ DOMAIN p.ops \subseteq DOMAIN t.ops
       /\ DOMAIN t.uploadDirs = DOMAIN p.uploadDirs
       /\ p.nextJobId <= t.nextJobId
       /\ \A o \in DOMAIN p.ops : t.ops[o].parent = p.ops[o].parent
       /\ \A o \in DOMAIN t.ops \ DOMAIN p.ops : t.ops[o].parent # 0
  BY <1>5 DEF Answered
<1>11. /\ issued \subseteq 1..t.nextJobId
       /\ \A o \in DOMAIN t.ops : t.ops[o].parent = 0 => o \in issued
       /\ DOMAIN t.uploadDirs \subseteq issued
       /\ DOMAIN t.uploadDirs # {} => \A o \in DOMAIN t.ops : t.ops[o].parent # 0
  <2>1. /\ issued \subseteq 1..p.nextJobId
        /\ \A o \in DOMAIN p.ops : p.ops[o].parent = 0 => o \in issued
        /\ DOMAIN p.uploadDirs \subseteq issued
        /\ DOMAIN p.uploadDirs # {} =>
              \A o \in DOMAIN p.ops : p.ops[o].parent # 0
    BY <1>1 DEF Given, p
  <2>2. p.nextJobId \in Nat /\ t.nextJobId \in Nat
    BY <1>6, StateType
  <2> QED BY <1>10, <2>1, <2>2
<1>12. Holding(t, HandlesAfter(q, t))
  <2> SUFFICES ASSUME NEW o \in HandlesAfter(q, t)
               PROVE  /\ o \in DOMAIN t.ops
                      /\ Ids(t, o) = {} => Unsized(t.ops[o])
                      /\ \A r \in Sent(t, o) : r.type \in OnHandles
    BY DEF Holding
  <2>1. \/ o \in handles /\ (o = op => q.type # "CLOSE")
        \/ /\ o = op /\ q.id \in DOMAIN t.jobs
    BY DEF HandlesAfter
  <2>2. ASSUME o \in handles
        PROVE  /\ o \in DOMAIN p.ops /\ (Ids(p, o) = {} => Unsized(p.ops[o]))
               /\ \A r \in Sent(p, o) : r.type \in OnHandles
    BY <1>1, <2>2 DEF Holding, p
  <2>3. CASE o # op
    <3>1. /\ Ids(t, o) = Ids(p, o) /\ Sent(t, o) = Sent(p, o)
          /\ t.ops[o] = p.ops[o] /\ o \in DOMAIN t.ops
      BY <1>5, <1>10, <2>1, <2>2, <2>3 DEF Answered
    <3> QED BY <2>1, <2>2, <2>3, <3>1
  <2>4. CASE o = op
    <3>1. o \in DOMAIN t.ops /\ \A r \in Sent(t, o) : r.type \in OnHandles
      BY <1>5, <1>10, <2>4 DEF Answered, Of
    <3>2. CASE q.id \in DOMAIN t.jobs
      BY <1>5, <2>4, <3>1, <3>2 DEF Answered, Ids
    <3>3. CASE o \in handles /\ q.type # "CLOSE"
      <4>1. q \in Sent(p, op)
        BY <1>3, <1>5 DEF Of, Sent, Ids
      <4>2. q.type \in Lasting
        BY <2>2, <2>4, <3>3, <4>1 DEF Lasting
      <4> QED BY <1>5, <2>4, <3>1, <4>2 DEF Answered
    <3> QED BY <2>1, <2>4, <3>2, <3>3
  <2> QED BY <2>3, <2>4
<1>13. Working'
  BY <1>4, <1>6, <1>7, <1>8, <1>9, <1>11, <1>12 DEF Working, Given
<1>14. PublicState' = PublicState /\ PublicState = "open"
  BY <1>1, <1>9 DEF PublicState, Initialized
<1>15. signals = p.signals /\ signals' = t.signals
  BY <1>4, NowIs DEF Becomes, p
<1>16. ContractStep
  <2>1. \/ Emitted(t.signals) = Emitted(p.signals)
        \/ \E x \in 1..p.nextJobId, end \in {"ok", "failed"} :
              /\ OneMoreEnd(Emitted(t.signals), Emitted(p.signals), x, end)
              /\ \/ x \in DOMAIN p.uploadDirs
                 \/ x \in DOMAIN p.ops /\ p.ops[x].parent = 0
    BY <1>5, <1>6, EndsOutcome DEF Answered
  <2>2. Outcomes = Emitted(p.signals) /\ Outcomes' = Emitted(t.signals)
    BY <1>13, <1>15, WorkingOutcomes, OutcomesNext
  <2>3. CASE Outcomes' = Outcomes
    BY <1>8, <1>14, <2>3 DEF ContractStep
  <2>4. CASE Outcomes' # Outcomes
    <3>1. PICK x \in 1..p.nextJobId, end \in {"ok", "failed"} :
              /\ OneMoreEnd(Outcomes', Outcomes, x, end)
              /\ \/ x \in DOMAIN p.uploadDirs
                 \/ x \in DOMAIN p.ops /\ p.ops[x].parent = 0
      BY <2>1, <2>2, <2>4
    <3>2. x \in issued
      BY <1>1, <3>1 DEF Given, p
    <3>3. Contract!Finish
      BY <1>8, <1>14, <3>1, <3>2 DEF Contract!Finish, Contract!Reported,
                                             OneMoreEnd
    <3> QED BY <3>3 DEF ContractStep, Contract!Next
  <2> QED BY <2>3, <2>4
<1> QED
  BY <1>13, <1>16

(* After the refusal of a part of a directory.                             *)
LEMMA AfterSpoiling ==
    ASSUME Working, NEW q, NEW op, op = jobs[q.id], NEW t,
           Of(Now, q, op), Spoils(Now, t, q, op), Becomes(t),
           handles' = HandlesAfter(q, t),
           UNCHANGED <<channelState, sftpState, issued>>
    PROVE  Spoilt' /\ ContractStep
<1> DEFINE p == Now
           d == p.ops[op].parent
           x == Blamed(p, q, op, d)
<1>1. /\ Initialized /\ Good(p) /\ Wired(p) /\ Plain(p) /\ Given(p)
      /\ Holding(p, handles) /\ p.signals = signals
      /\ p.nextJobId = nextJobId /\ nextJobId \in Nat
  BY NowIs, StateType DEF Working, Good, Wired, Plain
<1>2. /\ Of(p, q, op) /\ d # 0 /\ d # op - 1
      /\ t = HandleStatus(Less(p, q), q.id, Refusal(q.type))
      /\ Becomes(t) /\ handles' = HandlesAfter(q, t)
      /\ channelState' = channelState /\ sftpState' = sftpState
      /\ issued' = issued
  BY DEF Spoils
<1> HIDE DEF p
<1>3. d \in DOMAIN p.uploadDirs /\ op \in DOMAIN p.ops
  BY <1>1, <1>2 DEF Of, Plain
<1>4. /\ \A o \in DOMAIN p.ops : p.ops[o].parent # 0
      /\ d \in issued
  BY <1>1, <1>3 DEF Given
<1>5. Spoiling(p, q, op, d)
  BY <1>1, <1>2, <1>4 DEF Spoiling
<1>6. /\ Broken(t, d) /\ DOMAIN t.ops = DOMAIN p.ops
      /\ p.nextJobId <= t.nextJobId
      /\ q.type = "OPEN" /\ q.id \in DOMAIN t.jobs => Hold(t, op)
      /\ \A i \in 1..p.nextJobId :
            t.signals[i] = IF i = x THEN <<"failed">> ELSE p.signals[i]
      /\ \A i \in (1..t.nextJobId) \ (1..p.nextJobId) : t.signals[i] = <<>>
      /\ \A o \in DOMAIN p.ops :
            Ids(p, o) # {}
               /\ (\A r \in Sent(p, o) : r.type \in OnHandles)
               /\ (o = op => q.type # "CLOSE")
               => Hold(t, o)
  BY <1>2, <1>5, SpoilingStep
<1>7. /\ DOMAIN p.uploadDirs = {d} /\ d \notin DOMAIN p.ops
      /\ d \in DOMAIN p.signals /\ p.signals[d] = <<>>
      /\ \A o \in DOMAIN p.ops : Child(p.ops[o], d) /\ p.signals[o] = <<>>
  BY <1>5, SpoilingFacts
<1>8. x \in {d, op} /\ d # op
  BY <1>3, <1>7 DEF Blamed
<1> HIDE DEF d, x
<1>9. /\ t \in State /\ Plain(t) /\ t.nextJobId \in Nat
  BY <1>6, StateType DEF Broken, Plain
<1>10. Now' = t /\ signals' = t.signals /\ ops' = t.ops
  BY <1>2, <1>9, BecomesNow DEF Becomes
<1>11. Initialized'
  BY <1>1, <1>2 DEF Initialized
<1>12. ASSUME NEW o \in HandlesAfter(q, t)
       PROVE  Hold(t, o)
  <2>1. \/ o \in handles /\ (o = op => q.type # "CLOSE")
        \/ o = op /\ q.id \in DOMAIN t.jobs /\ q.type \in {"OPEN", "OPENDIR"}
    BY <1>2, <1>12 DEF HandlesAfter, Of, p
  <2>2. CASE o \in handles /\ (o = op => q.type # "CLOSE")
    <3>1. /\ o \in DOMAIN p.ops /\ (Ids(p, o) = {} => Unsized(p.ops[o]))
          /\ \A r \in Sent(p, o) : r.type \in OnHandles
      BY <1>1, <2>2 DEF Holding
    <3>2. ~p.ops[o].append
      <4>1. OpInv(p.ops[o], o, Ids(p, o), Sent(p, o), p.signals[o])
        BY <1>1, <3>1 DEF Good, OpsInv
      <4> QED BY <1>4, <3>1, <4>1 DEF OpInv, Shape
    <3>3. Ids(p, o) # {}
      BY <3>1, <3>2 DEF Unsized
    <3> QED BY <1>6, <2>2, <3>1, <3>3
  <2>3. CASE o = op /\ q.id \in DOMAIN t.jobs /\ q.type \in {"OPEN", "OPENDIR"}
    <3>1. q.type # "OPENDIR"
      <4> DEFINE job == p.ops[op]
      <4>1. Asks(q, job) /\ Child(job, d)
        BY <1>1, <1>2, <1>3, <1>7, AsksFor
      <4> HIDE DEF job
      <4> QED BY <4>1 DEF Asks, Child
    <3> QED BY <1>6, <2>3, <3>1
  <2> QED BY <2>1, <2>2, <2>3
<1>13. Spoilt'
  BY <1>2, <1>4, <1>6, <1>10, <1>11, <1>12 DEF Spoilt
<1>14. PublicState' = PublicState /\ PublicState = "open"
  BY <1>1, <1>11 DEF PublicState, Initialized
<1> DEFINE f == p.signals
           g == Masked(t.signals, DOMAIN t.ops)
           m == p.nextJobId
           n == t.nextJobId
<1>15. /\ m \in Nat /\ n \in Nat /\ m <= n
       /\ DOMAIN f = 1..m /\ DOMAIN g = 1..n
       /\ \A i \in 1..n : g[i] = IF i \in DOMAIN p.ops THEN <<>> ELSE t.signals[i]
       /\ DOMAIN p.ops \subseteq 1..m
  BY <1>1, <1>6, <1>9 DEF Plain, Masked
<1>16. Outcomes = Emitted(f) /\ Outcomes' = Emitted(g)
  BY <1>1, <1>10, <1>13, WorkingOutcomes, SpoiltOutcomesNext
<1>17. \A i \in (1..n) \ (1..m) : g[i] = <<>>
  BY <1>6, <1>15
<1>18. \A i \in 1..m : i \in 1..n
  BY <1>15
<1>19. CASE x = op
  <2>1. \A i \in 1..m : g[i] = f[i]
    BY <1>3, <1>6, <1>7, <1>15, <1>18, <1>19
  <2>2. Emitted(g) = Emitted(f)
    <3> HIDE DEF f, g, m, n
    <3> QED BY <1>15, <1>17, <2>1, OutcomeKept
  <2> QED BY <1>2, <1>13, <1>14, <1>16, <2>2 DEF ContractStep
<1>20. CASE x = d
  <2>1. \A i \in 1..m : g[i] = IF i = d THEN <<"failed">> ELSE f[i]
    BY <1>6, <1>7, <1>15, <1>18, <1>20
  <2>2. d \in 1..m /\ f[d] = <<>> /\ g[d] = <<"failed">>
    BY <1>7, <1>15, <2>1
  <2>3. OneEnd(f, g, m, n, d, "failed")
    <3> HIDE DEF f, g, m, n
    <3> QED BY <1>15, <1>17, <2>1, <2>2 DEF OneEnd
  <2>4. OneMoreEnd(Emitted(g), Emitted(f), d, "failed")
    <3> HIDE DEF f, g, m, n
    <3> QED BY <2>3, OutcomeAdded
  <2>5. OneMoreEnd(Outcomes', Outcomes, d, "failed")
    BY <1>16, <2>4
  <2>6. Contract!Finish
    BY <1>2, <1>4, <1>14, <2>5 DEF Contract!Finish, Contract!Reported, OneMoreEnd
  <2> QED BY <1>13, <2>6 DEF ContractStep, Contract!Next
<1> QED
  BY <1>8, <1>19, <1>20

(* An answer of the server.                                                *)
LEMMA WorkingAnswers ==
    ASSUME FilesAreWhole, Working, ServerAnswers
    PROVE  (Working' \/ Spoilt') /\ ContractStep
<1>1. Good(Now) /\ Wired(Now)
  BY DEF Working, Good
<1>2. PICK q \in requests :
         IF q.id \in DOMAIN jobs
         THEN /\ \E s \in Answers([Now EXCEPT !.requests = @ \ {q}], q) :
                    Becomes(s) /\ handles' = HandlesAfter(q, s)
              /\ UNCHANGED <<channelState, sftpState, issued, names>>
         ELSE CloseHook("Accused")
  BY DEF ServerAnswers
<1>3. q.id \in DOMAIN jobs
  <2>1. q \in Now.requests /\ Now.jobs = jobs
    BY NowIs
  <2> QED BY <1>1, <2>1 DEF Wired, OneEach
<1>4. PICK t \in Answers(Less(Now, q), q) :
         Becomes(t) /\ handles' = HandlesAfter(q, t)
  BY <1>2, <1>3 DEF Less
<1>5. /\ Of(Now, q, jobs[q.id])
      /\ Answered(Now, t, q, jobs[q.id]) \/ Spoils(Now, t, q, jobs[q.id])
  BY <1>1, <1>4, Answering
<1>6. UNCHANGED <<channelState, sftpState, issued>>
  BY <1>2, <1>3
<1> QED
  BY <1>4, <1>5, <1>6, AfterAnswer, AfterSpoiling

(* Names.                                                                  *)
LEMMA WorkingNames ==
    ASSUME Working, HandleName
    PROVE  Working' /\ ContractStep
<1>1. Good(Now) /\ Wired(Now)
  BY DEF Working, Good
<1> DEFINE t(q) == Send(Less(Now, q), q.id, "READDIR")
<1>2. PICK q \in requests : q.type = "READDIR" /\ Becomes(t(q))
  BY DEF HandleName, Less
<1> DEFINE op == jobs[q.id]
<1>3. Of(Now, q, op)
  <2>1. q \in Now.requests /\ Now.jobs = jobs
    BY NowIs
  <2> QED BY <1>1, <2>1, OfWired
<1>4. Answered(Now, t(q), q, op)
  <2>1. Settled(Now, t(q), q, op)
    BY <1>1, <1>2, <1>3, NamesAnswer
  <2> QED BY <1>1, <1>3, <2>1, SettledAnswered
<1>5. /\ handles' = HandlesAfter(q, t(q))
      /\ UNCHANGED <<channelState, sftpState, issued>>
  BY <1>2 DEF HandleName, HandlesAfter
<1> HIDE DEF t
<1> QED
  BY <1>2, <1>3, <1>4, <1>5, AfterAnswer

(* The user starts an operation, or the upload of a directory.             *)
LEMMA StartStep ==
    ASSUME Working, Working', UNCHANGED <<channelState, sftpState>>,
           Plain(Now), NEW t, Plain(t), Becomes(t),
           nextJobId <= t.nextJobId,
           \A i \in 1..nextJobId : t.signals[i] = signals[i],
           \A i \in (1..t.nextJobId) \ (1..nextJobId) : t.signals[i] = <<>>,
           NEW id, id \notin issued, issued' = issued \union {id}
    PROVE  ContractStep
<1>1. PublicState' = PublicState /\ PublicState = "open"
  BY DEF Working, PublicState, Initialized
<1>2. Outcomes' = Outcomes
  <2> DEFINE f == signals
             g == t.signals
             m == nextJobId
             n == t.nextJobId
  <2>1. /\ m \in Nat /\ n \in Nat /\ m <= n /\ DOMAIN f = 1..m
        /\ DOMAIN g = 1..n
    BY NowIs, StateType DEF Plain
  <2>2. /\ \A i \in 1..m : g[i] = f[i]
        /\ \A i \in (1..n) \ (1..m) : g[i] = <<>>
    OBVIOUS
  <2>3. signals' = t.signals
    BY DEF Becomes
  <2>4. Emitted(g) = Emitted(f)
    <3> HIDE DEF f, g, m, n
    <3> QED BY <2>1, <2>2, OutcomeKept
  <2> QED BY <2>3, <2>4, WorkingOutcomes, OutcomesNext
<1>3. id \in issued' \ issued
  OBVIOUS
<1>4. \E x \in issued' \ issued : issued' = issued \union {x}
  BY <1>3
<1>5. Contract!Start
  BY <1>1, <1>2, <1>4 DEF Contract!Start
<1> QED
  BY <1>5 DEF ContractStep, Contract!Next

LEMMA WorkingStarts ==
    ASSUME FilesAreWhole, Working, StartOperation
    PROVE  Working' /\ ContractStep
<1> DEFINE p == Now
<1>1. /\ Initialized /\ Good(p) /\ Given(p) /\ Holding(p, handles)
      /\ Plain(p) /\ p \in State
  BY DEF Working, Good, Wired, Plain
<1>2. PICK type \in Operations \ {"UploadDir"} :
         \E op \in NewOperations(type) : Becomes(CreateJob(p, op))
  BY DEF StartOperation
<1>20. PICK op \in NewOperations(type) : Becomes(CreateJob(p, op))
  BY <1>2
<1>3. /\ issued' = issued \union {nextJobId'}
      /\ UNCHANGED <<channelState, sftpState, handles>>
  BY DEF StartOperation
<1>4. type \in Types
  BY OperationsAssumption DEF Types
<1>5. Startable(op) /\ op.parent = 0
  <2>1. CASE type = "UploadFile"
    <3>1. PICK f \in LocalFiles, a \in BOOLEAN : op = UploadOf(f, a, 0)
      BY <1>20, <2>1 DEF NewOperations
    <3> QED BY <3>1, UploadType
  <2>2. CASE type # "UploadFile"
    <3>1. op = Operation(type)
      BY <1>20, <2>2 DEF NewOperations
    <3> QED BY <1>4, <3>1, OperationType
  <2> QED BY <2>1, <2>2
<1> DEFINE t == CreateJob(p, op)
           n == p.nextJobId + 1
<1> HIDE DEF p
<1>6. Good(t) /\ Created(p, t, New(op), n, {})
  BY <1>1, <1>5, Started
<1>7. /\ Plain(t) /\ t \in State /\ Plain(p) /\ p \in State
      /\ p.nextJobId \in Nat
  BY <1>1, <1>6, StateType DEF Good, Wired, Plain
<1>8. Becomes(t) /\ Now' = t
  BY <1>20, <1>7, BecomesNow DEF t
<1>9. /\ t.nextJobId = n /\ n \in Nat /\ p.nextJobId <= n
      /\ n \notin 1..p.nextJobId /\ 1..n = (1..p.nextJobId) \union {n}
      /\ t.uploadDirs = p.uploadDirs
      /\ DOMAIN t.ops = DOMAIN p.ops \union {n}
      /\ \A o \in DOMAIN p.ops : t.ops[o] = p.ops[o]
      /\ \A o \in DOMAIN p.ops : Ids(t, o) = Ids(p, o) /\ Sent(t, o) = Sent(p, o)
      /\ \A i \in 1..p.nextJobId : t.signals[i] = p.signals[i]
      /\ t.signals[n] = <<>>
  BY <1>6 DEF Created
<1> HIDE DEF t
<1>10. issued' = issued \union {n}
  BY <1>3, <1>8, <1>9 DEF Becomes
<1>11. /\ issued \subseteq 1..p.nextJobId
       /\ \A o \in DOMAIN p.ops : p.ops[o].parent = 0 => o \in issued
       /\ DOMAIN p.uploadDirs = {}
  <2>1. p.uploadDirs = NoMap /\ DOMAIN NoMap = {}
    BY NowIs DEF StartOperation, NoMap, p
  <2> QED BY <1>1, <2>1 DEF Given
<1>12. /\ issued' \subseteq 1..t.nextJobId
       /\ \A o \in DOMAIN t.ops : t.ops[o].parent = 0 => o \in issued'
       /\ DOMAIN t.uploadDirs = {}
  BY <1>9, <1>10, <1>11
<1>13. Holding(t, handles)
  BY <1>1, <1>9 DEF Holding
<1>14. Initialized'
  BY <1>1, <1>3 DEF Initialized
<1>15. Working'
  BY <1>3, <1>6, <1>8, <1>12, <1>13, <1>14 DEF Working, Given
<1>16. n \notin issued
  BY <1>9, <1>11
<1>17. ContractStep
  <2>1. /\ \A i \in 1..nextJobId : t.signals[i] = signals[i]
        /\ \A i \in (1..t.nextJobId) \ (1..nextJobId) : t.signals[i] = <<>>
        /\ nextJobId <= t.nextJobId
    BY <1>9, NowIs DEF p
  <2> QED BY <1>1, <1>3, <1>7, <1>8, <1>10, <1>15, <1>16, <2>1, StartStep DEF p
<1> QED
  BY <1>15, <1>17

LEMMA WorkingUploads ==
    ASSUME Working, UploadDir
    PROVE  Working' /\ ContractStep
<1> DEFINE p == Now
           d == p.nextJobId + 1
           n == d + 1
           op == [Operation("MakeDir") EXCEPT !.parent = d]
           u(levels) == [CreateJob(NewId(p), op) EXCEPT
                            !.uploadDirs = With(@, d, NewDir(levels, n))]
<1>1. /\ Initialized /\ Good(p) /\ Given(p) /\ Holding(p, handles)
      /\ Plain(p) /\ p \in State /\ p.nextJobId \in Nat
  BY StateType DEF Working, Good, Wired, Plain
<1>2. /\ issued = {} /\ issued' = issued \union {d}
      /\ UNCHANGED <<channelState, sftpState, handles>>
  BY DEF UploadDir, NewId
<1>3. Startable(op) /\ op.type = "MakeDir" /\ op.parent = d /\ op \in Op
  <2>1. d \in Nat /\ "MakeDir" \in Types
    BY <1>1 DEF Types
  <2> QED BY <2>1, OperationType DEF Startable
<1>4. PICK levels \in Directories : Becomes(u(levels))
  <2>1. PICK levels \in Directories :
          LET dir == NewId(Now)
              id == dir.nextJobId
              t == CreateJob(dir, [Operation("MakeDir") EXCEPT !.parent = id])
              new == [hasError |-> FALSE, uploads |-> {}, levels |-> levels,
                      mkdirs |-> With(NoMap, t.nextJobId, 1)]
          IN  Becomes([t EXCEPT !.uploadDirs = With(@, id, new)])
    BY DEF UploadDir
  <2>2. NewId(Now).nextJobId = d
    BY <1>1 DEF NewId, State
  <2>3. CreateJob(NewId(Now), op).nextJobId = n
    <3>1. NewId(Now) \in State
      <4>1. <<>> \in Results /\ d \in Nat /\ Now.signals \in Maps(Nat, Results)
        BY <1>1, StateType DEF Results
      <4>2. With(Now.signals, Now.nextJobId + 1, <<>>) \in Maps(Nat, Results)
        BY <4>1, WithType
      <4> QED BY <1>1, <4>1, <4>2 DEF NewId, State
    <3> HIDE DEF op
    <3>2. Creates(NewId(Now), CreateJob(NewId(Now), op), New(op), n)
      BY <1>3, <2>2, <3>1, CreateIs
    <3> QED BY <3>2 DEF Creates
  <2> HIDE DEF d, n
  <2> QED BY <2>1, <2>2, <2>3 DEF NewDir
<1> DEFINE t == u(levels)
<1>5. DOMAIN p.uploadDirs = {} /\ DOMAIN p.ops = {}
  <2>1. DOMAIN p.uploadDirs = {}
    BY <1>1, <1>2 DEF Given
  <2>2. \A o \in DOMAIN p.ops : p.ops[o].parent = 0 => o \in issued
    BY <1>1 DEF Given
  <2>3. \A o \in DOMAIN p.ops : p.ops[o].parent \in {0}
    BY <1>1, <2>1 DEF Plain
  <2> QED BY <1>2, <2>1, <2>2, <2>3
<1> DEFINE job == New(op)
           dir == NewDir(levels, n)
<1> HIDE DEF p, op
<1>6. Opens(p, t, d, n, job, dir)
  BY <1>1, <1>3, <1>5, OpensIs
<1> HIDE DEF t
<1>7. Good(t)
  BY <1>1, <1>3, <1>5, <1>6, DirStarted
<1>8. /\ t \in State /\ t.nextJobId = n /\ DOMAIN t.ops = {n} /\ t.ops[n] = job
      /\ DOMAIN t.uploadDirs = {d}
      /\ \A i \in 1..p.nextJobId : t.signals[i] = p.signals[i]
      /\ t.signals[d] = <<>> /\ t.signals[n] = <<>>
  BY <1>6 DEF Opens
<1>9. Becomes(t) /\ Now' = t
  BY <1>4, <1>8, BecomesNow DEF t
<1>10. job.parent = d /\ d # 0 /\ d \in 1..n
  BY <1>1, <1>3, NewFields
<1>11. Initialized'
  BY <1>1, <1>2 DEF Initialized
<1>12. handles = {}
  BY <1>1, <1>5 DEF Holding
<1>13. Working'
  <2>1. /\ issued' \subseteq 1..t.nextJobId
        /\ \A o \in DOMAIN t.ops : t.ops[o].parent = 0 => o \in issued'
        /\ DOMAIN t.uploadDirs \subseteq issued'
        /\ \A o \in DOMAIN t.ops : t.ops[o].parent # 0
    BY <1>2, <1>8, <1>10
  <2>2. Holding(t, {})
    BY DEF Holding
  <2> QED BY <1>2, <1>7, <1>9, <1>11, <1>12, <2>1, <2>2 DEF Working, Given
<1>14. ContractStep
  <2>1. /\ \A i \in 1..nextJobId : t.signals[i] = signals[i]
        /\ p.nextJobId = nextJobId
    BY <1>8, NowIs DEF p
  <2>2. \A i \in (1..t.nextJobId) \ (1..nextJobId) : t.signals[i] = <<>>
    BY <1>1, <1>8, <2>1
  <2>3. nextJobId <= t.nextJobId
    BY <1>1, <1>8, <2>1
  <2>4. Plain(t)
    BY <1>7 DEF Good, Wired
  <2>5. d \notin issued
    BY <1>2
  <2>6. Plain(Now)
    BY <1>1 DEF p
  <2> HIDE DEF d
  <2> QED BY <1>1, <1>2, <1>9, <1>13, <2>1, <2>2, <2>3, <2>4, <2>5, <2>6, StartStep
<1> QED
  BY <1>13, <1>14
----------------------------------------------------------------------------
(* The phases.                                                             *)
(* A transfer that was reported as a success is complete.                  *)
LEMMA WorkingIsComplete == Working => TransfersAreComplete
<1> SUFFICES ASSUME Working
             PROVE  TransfersAreComplete
  OBVIOUS
<1> DEFINE p == Now
<1>1. /\ Good(p) /\ Plain(p) /\ p \in State /\ Wired(p)
      /\ p.ops = ops /\ p.uploadDirs = uploadDirs /\ p.signals = signals
  BY NowIs DEF Working, Good, Wired, Plain
<1> HIDE DEF p
<1>2. ASSUME NEW op \in DOMAIN ops, CompleteJob(ops[op]),
             ops[op].type \in Transfers
      PROVE  Complete(op)
  <2>1. ops[op].type = "UploadFile" => ops[op].readable = ops[op].fileSize
    BY <1>1, <1>2 DEF Good, OpsInv, OpInv, Shape
  <2> QED BY <1>2, <2>1 DEF CompleteJob, Complete, Base, Transfers
<1>3. ASSUME NEW op \in DOMAIN ops
      PROVE  Reported(ops[op], Ids(p, op), signals[op])
  BY <1>1, <1>3 DEF Good, OpsInv, OpInv
<1>4. ASSUME NEW op \in DOMAIN ops, ops[op].type \in Transfers, Succeeded(op)
      PROVE  Complete(op)
  BY <1>2, <1>3, <1>4 DEF Reported, Succeeded
<1>5. ASSUME NEW d \in DOMAIN uploadDirs, Succeeded(d)
      PROVE  /\ Cardinality(Files(d)) = FilesOf(uploadDirs[d].levels)
             /\ \A op \in Files(d) : Complete(op)
  <2> DEFINE levels == uploadDirs[d].levels
  <2>1. /\ DirInv(p, d) /\ d \in 1..p.nextJobId /\ p.nextJobId \in Nat
        /\ p.uploadDirs[d] \in Dir
    BY <1>1, StateType DEF Good, DirsInv, Plain
  <2>2. "ok" \in Range(signals[d])
    BY <1>5 DEF Succeeded
  <2>3. Range(<<>>) = {} /\ Range(<<"failed">>) = {"failed"}
    BY DEF Range
  <2>4. AllCreated(p, d)
    <3>1. signals[d] # <<>> /\ signals[d] # <<"failed">>
      BY <2>2, <2>3
    <3> QED BY <1>1, <2>1, <3>1 DEF DirInv, Refused, AtLevel
  <2>5. p.uploadDirs[d].uploads = {}
    <3>1. signals[d] # <<>>
      BY <2>2, <2>3
    <3> QED BY <1>1, <2>4, <3>1 DEF AllCreated
  <2>6. Files(d) = FilesIn(p, d)
    BY <1>1 DEF Files, FilesIn, Kids
  <2>7. Cardinality(FilesIn(p, d)) = Counts(levels)[Len(levels)]
    BY <1>1, <2>4 DEF AllCreated
  <2>8. Counts(levels)[Len(levels)] = FilesOf(levels)
    <3>1. levels \in Seq(Seq(LocalFiles))
      BY <1>1, <2>1 DEF Dir
    <3> HIDE DEF levels
    <3> QED BY <3>1, CountsFacts
  <2>9. ASSUME NEW op \in Files(d)
        PROVE  Complete(op)
    <3>1. /\ op \in DOMAIN ops /\ ops[op].type = "UploadFile"
          /\ ops[op].parent = d /\ d # 0
      BY <2>1 DEF Files
    <3>2. Ids(p, op) = {}
      BY <1>1, <2>1, <2>5, <2>6 DEF DirInv
    <3>3. CompleteJob(ops[op])
      BY <1>3, <3>1, <3>2 DEF Reported
    <3> QED BY <1>2, <3>1, <3>3 DEF Transfers
  <2> QED BY <2>6, <2>7, <2>8, <2>9
<1> QED
  BY <1>4, <1>5 DEF TransfersAreComplete

(* Nothing of a directory of which a part was refused is.                  *)
LEMMA SpoiltIsComplete == Spoilt => TransfersAreComplete
<1> SUFFICES ASSUME Spoilt
             PROVE  TransfersAreComplete
  OBVIOUS
<1>1. PICK d \in issued : Broken(Now, d)
  BY DEF Spoilt
<1>2. /\ DOMAIN uploadDirs = {d}
      /\ \A i \in DOMAIN ops \union {d} : "ok" \notin Range(signals[i])
  BY <1>1, NowIs DEF Broken
<1> QED
  BY <1>2 DEF TransfersAreComplete, Succeeded

LEMMA SameComplete ==
    ASSUME TransfersAreComplete,
           UNCHANGED <<ops, uploadDirs, signals>>
    PROVE  TransfersAreComplete'
<1>1. /\ ops' = ops /\ uploadDirs' = uploadDirs /\ signals' = signals
  OBVIOUS
<1>2. \A id : Succeeded(id)' <=> Succeeded(id)
  BY <1>1 DEF Succeeded
<1>3. \A op : Complete(op)' <=> Complete(op)
  BY <1>1 DEF Complete
<1>4. \A d : Files(d)' = Files(d)
  BY <1>1 DEF Files
<1>5. \A d : FilesOf(uploadDirs[d].levels)' = FilesOf(uploadDirs[d].levels)
  BY <1>1 DEF FilesOf
<1> QED
  BY <1>1, <1>2, <1>3, <1>4, <1>5 DEF TransfersAreComplete

(* The channel is closed.                                                  *)
LEMMA ClosingStep ==
    ASSUME CloseChannel \/ ChannelCloses
    PROVE  /\ Over' /\ ContractStep
           /\ UNCHANGED <<ops, uploadDirs, signals>>
<1>1. /\ channelState' \in {"Closed", "CloseRequested"}
      /\ channelState' = "Closed" \/ channelState # "CloseRequested"
      /\ channelState \in {"Inactive", "SessionRequested",
                           "SessionEstablished", "CloseRequested"}
      /\ requests' = {} /\ sftpState' = sftpState /\ issued' = issued
      /\ UNCHANGED <<ops, uploadDirs, signals>>
  BY DEF CloseChannel, ChannelCloses, CloseHook, RequestClose, Becomes, Now,
         NotOperations
<1>2. Over'
  BY <1>1 DEF Over
<1>3. Outcomes' = Outcomes
  BY <1>1, OutcomesKept
<1>4. /\ PublicState' \in {"closed", "closing"}
      /\ PublicState' = "closed" \/ channelState # "CloseRequested"
  BY <1>1 DEF PublicState, Initialized
<1>5. IF channelState = "CloseRequested" THEN PublicState = "closing"
      ELSE PublicState \in {"new", "open"}
  BY <1>1 DEF PublicState, Initialized
<1>6. Contract!Close
  BY <1>1, <1>3, <1>4, <1>5 DEF Contract!Close
<1> QED
  BY <1>1, <1>2, <1>6 DEF ContractStep, Contract!Next

(* The server is accused of answering twice under one id.                  *)
LEMMA AccusedStep ==
    ASSUME Initialized, DirectoryFailed, CloseHook("Accused")
    PROVE  /\ Over' /\ ContractStep
           /\ UNCHANGED <<ops, uploadDirs, signals>>
<1>1. /\ channelState' = "Accused" /\ requests' = {} /\ issued' = issued
      /\ UNCHANGED <<ops, uploadDirs, signals>>
  BY DEF CloseHook, Becomes, Now, NotOperations
<1>2. Outcomes' = Outcomes /\ DirectoryFailed'
  BY <1>1, OutcomesKept
<1>3. Over'
  BY <1>1, <1>2 DEF Over
<1>4. PublicState' = "closed" /\ PublicState = "open"
  BY <1>1, <1>2 DEF PublicState, Initialized
<1>5. Contract!Close
  BY <1>1, <1>2, <1>4 DEF Contract!Close
<1> QED
  BY <1>1, <1>3, <1>5 DEF ContractStep, Contract!Next

(* The answers to what is left of a directory of which a part was refused. *)
LEMMA BrokenAnswers ==
    ASSUME NEW d, Broken(Now, d), NEW q \in requests, q.id \in DOMAIN jobs,
           NEW op, op = jobs[q.id], NEW t \in Answers(Less(Now, q), q)
    PROVE  /\ Goes(Less(Now, q), t, q.id, op)
           /\ Writing(Now, op) => Hold(t, op)
           /\ q.type = "OPEN" /\ q.id \in DOMAIN t.jobs => Hold(t, op)
<1> DEFINE p == Now
           s == Less(p, q)
           status(u, code) == HandleStatus(u, q.id, code)
           Does == /\ Goes(s, t, q.id, op)
                   /\ Writing(p, op) => Hold(t, op)
                   /\ q.type = "OPEN" /\ q.id \in DOMAIN t.jobs => Hold(t, op)
<1>1. /\ q \in p.requests /\ q.id \in DOMAIN p.jobs /\ op = p.jobs[q.id]
      /\ Broken(p, d)
  BY NowIs
<1>2. Of(p, q, op) /\ p.ops[op] \in Op
  BY <1>1, OfBroken
<1>3. q.type \in {"MKDIR", "OPEN", "WRITE", "CLOSE"}
  BY <1>1 DEF Broken
<1>4. q \in Request
  BY <1>2, StateType DEF Of
<1>5. \/ \E code : t = status(s, code)
      \/ q.type = "OPEN" /\ \E n \in RemoteSizes(op) :
                              t = HandleHandle(Opened(s, op, n), q.id)
      \/ q.type = "WRITE" /\ t = status(Written(s, op, q), "OK")
  <2>1. CASE q.type = "OPEN"
    BY <2>1 DEF Answers
  <2>2. CASE q.type = "WRITE"
    BY <2>2 DEF Answers
  <2>3. CASE q.type = "MKDIR"
    BY <2>3 DEF Answers
  <2>4. CASE q.type = "CLOSE"
    BY <2>4 DEF Answers
  <2> QED BY <1>3, <2>1, <2>2, <2>3, <2>4
<1> HIDE DEF p
<1>6. ASSUME Goes(s, t, q.id, op), Writing(p, op) => Hold(t, op),
             q.id \in DOMAIN t.jobs => ToClose(t, q.id)
      PROVE  Does
  BY <1>1, <1>6, OpenedHold
<1>7. CASE \E code : t = status(s, code)
  <2>1. PICK code : t = status(s, code)
    BY <1>7
  <2>2. At(p, s, q, op, p.ops[op], p.signals[op]) /\ Kin(p.ops[op], p.ops[op])
    BY <1>2, LessAt DEF Kin
  <2>3. /\ Goes(s, t, q.id, op) /\ (Writing(p, op) => Hold(t, op))
        /\ q.id \in DOMAIN t.jobs => ToClose(t, q.id)
    BY <1>1, <1>2, <2>1, <2>2, BrokenStatus
  <2> QED BY <1>6, <2>3 DEF p
<1>8. CASE q.type = "OPEN" /\ \E n \in RemoteSizes(op) :
                                t = HandleHandle(Opened(s, op, n), q.id)
  <2>1. PICK n \in RemoteSizes(op) : t = HandleHandle(Opened(s, op, n), q.id)
    BY <1>8
  <2>2. n \in Nat
    BY FileSizesAssumption DEF RemoteSizes
  <2>3. Goes(s, t, q.id, op) /\ Hold(t, op) /\ ~Writing(p, op)
    BY <1>1, <1>2, <1>8, <2>1, <2>2, BrokenOpened
  <2> QED BY <2>3 DEF p
<1>9. CASE q.type = "WRITE" /\ t = status(Written(s, op, q), "OK")
  <2> DEFINE x == <<q.offset, q.chunk>>
             u == Written(s, op, q)
             job == Storing(p.ops[op], x)
  <2>1. x \in Nat \X Nat
    BY <1>4 DEF Request
  <2>2. At(p, s, q, op, p.ops[op], p.signals[op])
    BY <1>2, LessAt
  <2>3. u = [s EXCEPT !.ops[op].contents = @ \union {x}]
    BY DEF Written
  <2>4. At(p, u, q, op, job, p.signals[op])
    <3> HIDE DEF x, u
    <3> QED BY <1>2, <2>1, <2>2, <2>3, AtStored
  <2>5. /\ Kin(p.ops[op], job) /\ job.state = p.ops[op].state
        /\ job.inFlightCount = p.ops[op].inFlightCount
    BY <1>2, <2>1 DEF Kin, Storing, Op
  <2>6. /\ Goes(s, t, q.id, op) /\ (Writing(p, op) => Hold(t, op))
        /\ q.id \in DOMAIN t.jobs => ToClose(t, q.id)
    <3> HIDE DEF u, job
    <3> QED BY <1>1, <1>2, <1>9, <2>4, <2>5, BrokenStatus DEF u
  <2> QED BY <1>6, <2>6 DEF p
<1> QED
  BY <1>5, <1>7, <1>8, <1>9 DEF p

LEMMA SpoiltAnswers ==
    ASSUME Spoilt, ServerAnswers
    PROVE  /\ Phase' /\ ContractStep
           /\ Spoilt' \/ UNCHANGED <<ops, uploadDirs, signals>>
<1> DEFINE p == Now
<1>1. PICK d \in issued : Broken(p, d)
  BY DEF Spoilt
<1>2. PICK q \in requests :
         IF q.id \in DOMAIN jobs
         THEN /\ \E s \in Answers([Now EXCEPT !.requests = @ \ {q}], q) :
                    Becomes(s) /\ handles' = HandlesAfter(q, s)
              /\ UNCHANGED <<channelState, sftpState, issued, names>>
         ELSE CloseHook("Accused")
  BY DEF ServerAnswers
<1>3. Initialized /\ DirectoryFailed
  BY <1>1, NowIs DEF Spoilt, Broken, DirectoryFailed
<1>4. CASE q.id \notin DOMAIN jobs
  BY <1>2, <1>3, <1>4, AccusedStep DEF Phase
<1>5. CASE q.id \in DOMAIN jobs
  <2> DEFINE op == jobs[q.id]
  <2>1. PICK t \in Answers(Less(p, q), q) :
           Becomes(t) /\ handles' = HandlesAfter(q, t)
    BY <1>2, <1>5 DEF Less
  <2>2. /\ channelState' = channelState /\ sftpState' = sftpState
        /\ issued' = issued
    BY <1>2, <1>5
  <2>3. /\ q \in p.requests /\ q.id \in DOMAIN p.jobs /\ op = p.jobs[q.id]
        /\ p.signals = signals /\ p.ops = ops /\ p.nextJobId = nextJobId
    BY <1>5, NowIs
  <2>4. /\ Goes(Less(p, q), t, q.id, op)
        /\ Writing(p, op) => Hold(t, op)
        /\ q.type = "OPEN" /\ q.id \in DOMAIN t.jobs => Hold(t, op)
    BY <1>1, <1>5, <2>1, BrokenAnswers
  <2> HIDE DEF p
  <2>5. Broken(t, d)
    <3> HIDE DEF op
    <3> QED BY <1>1, <2>3, <2>4, BrokenKept
  <2>6. /\ t \in State /\ Plain(t) /\ t.nextJobId \in Nat
        /\ Plain(p) /\ p.nextJobId \in Nat
    BY <1>1, <2>5, StateType DEF Broken, Plain
  <2>7. Now' = t /\ signals' = t.signals /\ ops' = t.ops
    BY <2>1, <2>6, BecomesNow DEF Becomes
  <2>8. ASSUME NEW o \in HandlesAfter(q, t)
        PROVE  Hold(t, o)
    <3>1. \/ o \in handles /\ (o = op => q.type # "CLOSE")
          \/ /\ o = op /\ q.id \in DOMAIN t.jobs
             /\ q.type \in {"OPEN", "OPENDIR"}
      BY <2>8 DEF HandlesAfter
    <3>2. q.type # "OPENDIR"
      BY <1>1, <2>3 DEF Broken
    <3>3. ASSUME o \in handles, o = op => q.type # "CLOSE"
          PROVE  Hold(t, o)
      <4>1. Hold(p, o)
        BY <3>3 DEF Spoilt, p
      <4> HIDE DEF op
      <4> QED BY <1>1, <2>3, <2>4, <3>3, <4>1, HoldKept
    <3> QED BY <2>4, <3>1, <3>2, <3>3
  <2>9. Initialized'
    BY <1>3, <2>2 DEF Initialized
  <2>10. Spoilt'
    BY <2>1, <2>2, <2>5, <2>7, <2>8, <2>9 DEF Spoilt
  <2>11. PublicState' = PublicState
    BY <1>3, <2>9 DEF PublicState, Initialized
  <2> DEFINE f == Masked(p.signals, DOMAIN p.ops)
             g == Masked(t.signals, DOMAIN t.ops)
             m == p.nextJobId
             n == t.nextJobId
  <2>12. Outcomes = Emitted(f) /\ Outcomes' = Emitted(g)
    BY <2>3, <2>7, <2>10, SpoiltOutcomes, SpoiltOutcomesNext
  <2>13. /\ DOMAIN t.ops = DOMAIN p.ops /\ m <= n
         /\ \A i \in 1..m : t.signals[i] = p.signals[i]
         /\ \A i \in (1..n) \ (1..m) : t.signals[i] = <<>>
    <3>1. /\ Less(p, q).nextJobId = p.nextJobId /\ Less(p, q).ops = p.ops
          /\ Less(p, q).signals = p.signals
      <4> HIDE DEF op
      <4>1. Of(p, q, op)
        BY <1>1, <2>3, OfBroken
      <4> QED BY <4>1, LessIs
    <3> QED BY <2>4, <3>1 DEF Goes
  <2>14. /\ DOMAIN f = 1..m /\ DOMAIN g = 1..n
         /\ \A i \in 1..m : i \in 1..n
    BY <2>6, <2>13 DEF Plain, Masked
  <2>15. /\ \A i \in 1..m : g[i] = f[i]
         /\ \A i \in (1..n) \ (1..m) : g[i] = <<>>
    BY <2>6, <2>13, <2>14 DEF Plain, Masked
  <2>16. Emitted(g) = Emitted(f)
    <3> HIDE DEF f, g, m, n
    <3> QED BY <2>6, <2>13, <2>14, <2>15, OutcomeKept DEF m, n
  <2> QED BY <2>2, <2>10, <2>11, <2>12, <2>16 DEF Phase, ContractStep
<1> QED
  BY <1>4, <1>5

(* An empty channel.                                                       *)
LEMMA EmptyIsGood ==
    Good([jobs |-> NoMap, ops |-> NoMap, uploadDirs |-> NoMap,
          nextJobId |-> 0, requests |-> {}, signals |-> NoMap])
<1> DEFINE s == [jobs |-> NoMap, ops |-> NoMap, uploadDirs |-> NoMap,
                 nextJobId |-> 0, requests |-> {}, signals |-> NoMap]
<1>1. /\ NoMap \in Maps(Nat, Nat) /\ NoMap \in Maps(Nat, Op)
      /\ NoMap \in Maps(Nat, Dir) /\ NoMap \in Maps(Nat, Results)
      /\ DOMAIN NoMap = {}
  BY NoMapType
<1>2. /\ s.jobs = NoMap /\ s.ops = NoMap /\ s.uploadDirs = NoMap
      /\ s.nextJobId = 0 /\ s.requests = {} /\ s.signals = NoMap
  OBVIOUS
<1>3. s \in State
  BY <1>1, StateIs DEF State
<1> HIDE DEF s
<1>4. Plain(s)
  BY <1>1, <1>2, <1>3 DEF Plain
<1>5. OneEach(DOMAIN s.jobs, s.requests)
  BY <1>1, <1>2 DEF OneEach
<1>6. OpsInv(s) /\ DirsInv(s)
  BY <1>1, <1>2 DEF OpsInv, DirsInv
<1> QED
  BY <1>4, <1>5, <1>6 DEF Good, Wired, s

LEMMA NoneReported ==
    ASSUME signals = NoMap, signals' = NoMap
    PROVE  Outcomes' = Outcomes
<1>1. DOMAIN signals = {} /\ DOMAIN signals' = {}
  BY DEF NoMap
<1>2. DOMAIN signals' = {} => Outcomes' = {}
  BY DEF Outcomes
<1> QED
  BY <1>1, <1>2, NoOutcomes

LEMMA BeginningKept ==
    ASSUME Beginning, Next
    PROVE  /\ Phase' /\ ContractStep
           /\ UNCHANGED <<ops, uploadDirs, signals>>
<1>1. /\ jobs = NoMap /\ ops = NoMap /\ uploadDirs = NoMap /\ nextJobId = 0
      /\ signals = NoMap /\ issued = {} /\ handles = {}
      /\ sftpState \in {"Inactive", "SubsystemRequested", "InitSent"}
  BY NowIs DEF Beginning
<1>2. \/ channelState = "Inactive" /\ requests = {}
      \/ /\ channelState = "SessionRequested"
         /\ requests \subseteq {Requested("SESSION")}
      \/ /\ channelState = "SessionEstablished"
         /\ requests \in {{Requested("SUBSYSTEM")}, {Requested("INIT")}}
  BY DEF Beginning
<1>3. ~Initialized /\ PublicState = "new"
  BY <1>1, <1>2 DEF Initialized, PublicState
<1>4. /\ Requested("SESSION") # Requested("SUBSYSTEM")
      /\ Requested("SESSION") # Requested("INIT")
      /\ Requested("SUBSYSTEM") # Requested("INIT")
  <2>1. \A type : Requested(type).type = type
    BY DEF Requested
  <2> QED BY <2>1
<1>5. ASSUME NEW type, NEW state, NEW next, Setup(type, state, next)
      PROVE  /\ jobs' = NoMap /\ ops' = NoMap /\ uploadDirs' = NoMap
             /\ nextJobId' = 0 /\ signals' = NoMap /\ issued' = {}
             /\ handles' = {} /\ requests' = next /\ sftpState' = state
             /\ Requested(type) \in requests
             /\ UNCHANGED <<ops, uploadDirs, signals>>
  BY <1>1, <1>5 DEF Setup, NotOperations
<1>6. ASSUME /\ jobs' = NoMap /\ ops' = NoMap /\ uploadDirs' = NoMap
             /\ nextJobId' = 0 /\ signals' = NoMap /\ issued' = {}
             /\ handles' = {},
             sftpState' \in {"Inactive", "SubsystemRequested", "InitSent"},
             \/ /\ channelState' = "SessionRequested"
                /\ requests' \subseteq {Requested("SESSION")}
             \/ /\ channelState' = "SessionEstablished"
                /\ requests' \in {{Requested("SUBSYSTEM")},
                                  {Requested("INIT")}}
      PROVE  Phase' /\ ContractStep
  <2>1. Now' = [jobs |-> NoMap, ops |-> NoMap, uploadDirs |-> NoMap,
                nextJobId |-> 0, requests |-> requests', signals |-> NoMap]
    BY <1>6 DEF Now
  <2>2. Beginning'
    BY <1>6, <2>1 DEF Beginning
  <2>3. PublicState' = "new"
    BY <1>6 DEF PublicState, Initialized
  <2>4. Outcomes' = Outcomes /\ issued' = issued
    BY <1>1, <1>6, NoneReported
  <2> QED BY <1>3, <2>2, <2>3, <2>4 DEF Phase, ContractStep
<1>7. ASSUME Outcomes' = Outcomes, issued' = issued, requests' = {},
             channelState' = "CloseRequested"
      PROVE  Phase' /\ ContractStep
  <2>1. Over'
    BY <1>7 DEF Over
  <2>2. PublicState' = "closing"
    BY <1>7 DEF PublicState, Initialized
  <2>3. Contract!Close
    BY <1>3, <1>7, <2>2 DEF Contract!Close
  <2> QED BY <2>1, <2>3 DEF Phase, ContractStep, Contract!Next
<1>8. CASE HandleOpenSuccess
  <2>1. /\ Setup("SESSION", "SubsystemRequested", {Requested("SUBSYSTEM")})
        /\ channelState' = "SessionEstablished"
    BY <1>8 DEF HandleOpenSuccess
  <2> QED BY <1>5, <1>6, <2>1
<1>9. CASE HandleOpenFailure
  <2>1. Setup("SESSION", sftpState, {}) /\ channelState' = channelState
    BY <1>9 DEF HandleOpenFailure
  <2>2. channelState = "SessionRequested"
    BY <1>2, <1>4, <1>5, <2>1
  <2> QED BY <1>1, <1>5, <1>6, <2>1, <2>2
<1>10. CASE HandleChannelSuccess
  <2>1. /\ Setup("SUBSYSTEM", "InitSent", {Requested("INIT")})
        /\ channelState' = channelState
    BY <1>10 DEF HandleChannelSuccess
  <2>2. channelState = "SessionEstablished"
    BY <1>2, <1>4, <1>5, <2>1
  <2> QED BY <1>5, <1>6, <2>1, <2>2
<1>11. CASE HandleChannelFailure
  <2>1. Setup("SUBSYSTEM", sftpState, {}) /\ channelState' = "CloseRequested"
    BY <1>11 DEF HandleChannelFailure
  <2>2. Outcomes' = Outcomes
    BY <1>1, <1>5, <2>1, NoneReported
  <2> QED BY <1>1, <1>5, <1>7, <2>1, <2>2
<1>12. CASE HandleServerVersion
  <2>1. CASE Setup("INIT", "Initialized", {}) /\ channelState' = channelState
    <3>1. channelState = "SessionEstablished"
      BY <1>2, <1>4, <1>5, <2>1
    <3>2. /\ jobs' = NoMap /\ ops' = NoMap /\ uploadDirs' = NoMap
          /\ nextJobId' = 0 /\ signals' = NoMap /\ issued' = {}
          /\ handles' = {} /\ requests' = {}
          /\ sftpState' = "Initialized"
      BY <1>5, <2>1
    <3>3. Now' = [jobs |-> NoMap, ops |-> NoMap, uploadDirs |-> NoMap,
                  nextJobId |-> 0, requests |-> {}, signals |-> NoMap]
      BY <3>2 DEF Now
    <3>4. Initialized'
      BY <2>1, <3>1, <3>2 DEF Initialized
    <3>5. Good(Now')
      BY <3>3, EmptyIsGood
    <3>6. /\ issued' \subseteq 1..nextJobId' /\ DOMAIN ops' = {}
          /\ DOMAIN uploadDirs' = {}
      BY <3>2 DEF NoMap
    <3>7. Now.nextJobId' = nextJobId' /\ Now.ops' = ops'
          /\ Now.uploadDirs' = uploadDirs'
      BY <3>2, <3>3
    <3>8. Given(Now)'
      BY <3>6, <3>7 DEF Given
    <3>9. Holding(Now, handles)'
      BY <3>2 DEF Holding
    <3>10. Working'
      BY <3>4, <3>5, <3>8, <3>9 DEF Working
    <3>11. PublicState' = "open"
      BY <3>4 DEF PublicState, Initialized
    <3>12. Outcomes' = Outcomes /\ issued' = issued
      BY <1>1, <3>2, NoneReported
    <3>13. Contract!Open
      BY <1>3, <3>11, <3>12 DEF Contract!Open
    <3> QED BY <1>5, <2>1, <3>10, <3>13 DEF Phase, ContractStep, Contract!Next
  <2>2. CASE Setup("INIT", sftpState, {}) /\ channelState' = "CloseRequested"
    <3>1. Outcomes' = Outcomes
      BY <1>1, <1>5, <2>2, NoneReported
    <3> QED BY <1>1, <1>5, <1>7, <2>2, <3>1
  <2> QED BY <1>12, <2>1, <2>2 DEF HandleServerVersion
<1>13. CASE CloseChannel \/ ChannelCloses
  BY <1>1, <1>2, <1>13, ClosingStep DEF Phase
<1>14. CASE Initialize
  <2>1. /\ channelState' = "SessionRequested"
        /\ sftpState' = "SubsystemRequested"
        /\ requests' = {Requested("SESSION")}
        /\ UNCHANGED <<jobs, ops, uploadDirs, nextJobId, signals, issued,
                       handles>>
    BY <1>14 DEF Initialize, NotOperations
  <2> QED BY <1>1, <1>6, <2>1
<1> QED
  BY <1>3, <1>8, <1>9, <1>10, <1>11, <1>12, <1>13, <1>14
     DEF Next, Server, User, SetupAnswers, ServerAnswers, HandleName,
         StartOperation, UploadDir

LEMMA WorkingKept ==
    ASSUME FilesAreWhole, Working, Next
    PROVE  /\ Phase' /\ ContractStep
           /\ Working' \/ Spoilt' \/ UNCHANGED <<ops, uploadDirs, signals>>
<1>1. /\ Initialized /\ \A r \in requests : r.type \in RequestTypes
  <2>1. Now \in State /\ Now.requests = requests
    BY NowIs DEF Working, Good, Wired, Plain
  <2> QED BY <2>1, StateType DEF Working, Request
<1>2. ~SetupAnswers
  <2>1. \A type \in {"SESSION", "SUBSYSTEM", "INIT"} :
           Requested(type) \notin requests
    BY <1>1 DEF Requested, RequestTypes, OnHandles
  <2> QED BY <2>1 DEF SetupAnswers, HandleOpenSuccess, HandleOpenFailure,
             HandleChannelSuccess, HandleChannelFailure, HandleServerVersion,
             Setup
<1>3. ~Initialize
  BY <1>1 DEF Initialized, Initialize
<1>4. CASE ServerAnswers
  BY <1>4, WorkingAnswers DEF Phase
<1>5. CASE HandleName
  BY <1>5, WorkingNames DEF Phase
<1>6. CASE StartOperation
  BY <1>6, WorkingStarts DEF Phase
<1>7. CASE UploadDir
  BY <1>7, WorkingUploads DEF Phase
<1>8. CASE CloseChannel \/ ChannelCloses
  BY <1>8, ClosingStep DEF Phase
<1> QED
  BY <1>2, <1>3, <1>4, <1>5, <1>6, <1>7, <1>8 DEF Next, Server, User

LEMMA SpoiltKept ==
    ASSUME Spoilt, Next
    PROVE  /\ Phase' /\ ContractStep
           /\ Spoilt' \/ UNCHANGED <<ops, uploadDirs, signals>>
<1>1. PICK d \in issued : Broken(Now, d)
  BY DEF Spoilt
<1>2. /\ Initialized /\ DOMAIN uploadDirs = {d}
      /\ \A r \in requests : r.type \in {"MKDIR", "OPEN", "WRITE", "CLOSE"}
  BY <1>1, NowIs DEF Spoilt, Broken
<1>3. ~SetupAnswers
  <2>1. \A type \in {"SESSION", "SUBSYSTEM", "INIT"} :
           Requested(type) \notin requests
    BY <1>2 DEF Requested
  <2> QED BY <2>1 DEF SetupAnswers, HandleOpenSuccess, HandleOpenFailure,
             HandleChannelSuccess, HandleChannelFailure, HandleServerVersion,
             Setup
<1>4. ~Initialize /\ ~HandleName
  BY <1>2 DEF Initialized, Initialize, HandleName
<1>5. ~StartOperation
  <2>1. uploadDirs # NoMap
    BY <1>2 DEF NoMap
  <2> QED BY <2>1 DEF StartOperation
<1>6. ~UploadDir
  BY <1>1 DEF UploadDir
<1>7. CASE CloseChannel \/ ChannelCloses
  BY <1>7, ClosingStep DEF Phase
<1> QED
  BY <1>3, <1>4, <1>5, <1>6, <1>7, SpoiltAnswers DEF Next, Server, User

LEMMA OverKept ==
    ASSUME Over, Next
    PROVE  /\ Phase' /\ ContractStep
           /\ UNCHANGED <<ops, uploadDirs, signals>>
<1>1. CASE CloseChannel \/ ChannelCloses
  BY <1>1, ClosingStep DEF Phase
<1>2. /\ channelState \in {"CloseRequested", "Closed", "Accused"}
      /\ requests = {}
  BY DEF Over
<1> QED
  BY <1>1, <1>2
     DEF Next, Server, User, SetupAnswers, HandleOpenSuccess,
         HandleOpenFailure, HandleChannelSuccess, HandleChannelFailure,
         HandleServerVersion, Setup, ServerAnswers, HandleName, Initialize,
         StartOperation, UploadDir, Initialized

LEMMA StepKept ==
    ASSUME FilesAreWhole, IInv, [Next]_vars
    PROVE  /\ Phase'
           /\ Working' \/ Spoilt' \/ UNCHANGED <<ops, uploadDirs, signals>>
           /\ ContractStep
<1>1. CASE Next
  BY <1>1, BeginningKept, WorkingKept, SpoiltKept, OverKept DEF IInv, Phase
<1>2. CASE UNCHANGED vars
  <2>1. /\ UNCHANGED <<channelState, sftpState, issued, handles, requests>>
        /\ UNCHANGED <<ops, uploadDirs, signals, jobs, nextJobId>>
    BY <1>2 DEF vars, channelVars
  <2>2. Now' = Now /\ Initialized' = Initialized
    BY <2>1 DEF Now, Initialized
  <2>3. Beginning => Beginning'
    BY <2>1, <2>2 DEF Beginning
  <2>4. Working => Working'
    <3>1. Given(Now) => Given(Now)'
      BY <2>1, <2>2 DEF Given
    <3> QED BY <2>1, <2>2, <3>1 DEF Working
  <2>5. Spoilt => Spoilt'
    BY <2>1, <2>2 DEF Spoilt
  <2>6. Outcomes' = Outcomes /\ DirectoryFailed' = DirectoryFailed
    BY <2>1, OutcomesKept
  <2>7. Over => Over'
    BY <2>1, <2>6 DEF Over
  <2>8. PublicState' = PublicState
    BY <2>1, <2>2, <2>6 DEF PublicState
  <2> QED BY <2>1, <2>3, <2>4, <2>5, <2>6, <2>7, <2>8
          DEF IInv, Phase, ContractStep
<1> QED
  BY <1>1, <1>2

----------------------------------------------------------------------------
(* The results.                                                            *)

(* The inductive invariant: of every operation, what it asked, what it has *)
(* moved and what was reported of it fit together at every moment.         *)
THEOREM Invariance ==
    ASSUME FilesAreWhole
    PROVE  Spec => []IInv
<1>1. Init => IInv
  <2> SUFFICES ASSUME Init
               PROVE  IInv
    OBVIOUS
  <2>1. /\ channelState = "Inactive" /\ sftpState = "Inactive"
        /\ jobs = NoMap /\ ops = NoMap /\ uploadDirs = NoMap
        /\ nextJobId = 0 /\ requests = {} /\ signals = NoMap
        /\ issued = {} /\ handles = {}
    BY DEF Init
  <2>2. Beginning
    BY <2>1 DEF Beginning, Now
  <2>3. TransfersAreComplete
    <3>1. DOMAIN ops = {} /\ DOMAIN uploadDirs = {}
      BY <2>1 DEF NoMap
    <3> QED BY <3>1 DEF TransfersAreComplete
  <2> QED BY <2>2, <2>3 DEF IInv, Phase
<1>2. Working' \/ Spoilt' => TransfersAreComplete'
  BY WorkingIsComplete, SpoiltIsComplete, PTL
<1>3. IInv /\ [Next]_vars => IInv'
  <2> SUFFICES ASSUME IInv, [Next]_vars
               PROVE  IInv'
    OBVIOUS
  <2>1. Phase' /\ (Working' \/ Spoilt' \/ UNCHANGED <<ops, uploadDirs, signals>>)
    BY StepKept
  <2>2. TransfersAreComplete'
    BY <1>2, <2>1, SameComplete DEF IInv
  <2> QED BY <2>1, <2>2 DEF IInv
<1> QED
  BY <1>1, <1>3, PTL DEF Spec

(* A handle that the server holds while the channel is open is going to be *)
(* closed: the operation it belongs to has a request in flight or asks for *)
(* its closing, whatever the server refuses, but for the one case in which *)
(* the code loses it: the size of a file to append to was refused.         *)
THEOREM HandlesAreNotLost ==
    ASSUME FilesAreWhole
    PROVE  Spec => []HandlesAreClosed
<1> DEFINE Saved(op) == \/ op \in Range(jobs) \/ IsClosing(op)
                       \/ SizeRefused(op)
<1>1. ASSUME NEW op, Ids(Now, op) # {}
      PROVE  Saved(op)
  <2>1. Now.jobs = jobs
    BY NowIs
  <2> QED BY <1>1, <2>1 DEF Ids, Range
<1>2. ASSUME Working, NEW op \in handles
      PROVE  Saved(op)
  <2>1. Ids(Now, op) = {} => Unsized(ops[op])
    BY <1>2, NowIs DEF Working, Holding
  <2> QED BY <1>1, <2>1 DEF Unsized, SizeRefused
<1>3. ASSUME Spoilt, NEW op \in handles
      PROVE  Saved(op)
  <2>1. Hold(Now, op)
    BY <1>3 DEF Spoilt
  <2>2. ToClose(Now, op) => IsClosing(op)
    BY NowIs DEF ToClose, IsClosing
  <2> QED BY <1>1, <2>1, <2>2 DEF Hold, Writing
<1>4. IInv => HandlesAreClosed
  <2> SUFFICES ASSUME IInv, Initialized, NEW op \in handles
               PROVE  Saved(op)
    BY DEF HandlesAreClosed
  <2>1. Working \/ Spoilt
    <3>1. ~Beginning /\ ~Over
      BY DEF Beginning, Over, Initialized
    <3> QED BY <3>1 DEF IInv, Phase
  <2> HIDE DEF Saved
  <2> QED BY <1>2, <1>3, <2>1
<1> QED
  BY <1>4, Invariance, PTL

(* A transfer that is reported as a success has moved every chunk to its   *)
(* place, an uploaded directory every file, for all sizes, all numbers of  *)
(* parallel requests and all orders of answers.                            *)
THEOREM SuccessMeansComplete ==
    ASSUME FilesAreWhole
    PROVE  Spec => []TransfersAreComplete
<1>1. IInv => TransfersAreComplete
  BY DEF IInv
<1> QED
  BY <1>1, Invariance, PTL

(* The channel implements its contract: of what was started at most one    *)
(* end is reported, under the id that the user was given, and none after   *)
(* the channel was closed; the server is never accused.                    *)
THEOREM Refinement ==
    ASSUME FilesAreWhole
    PROVE  Spec => ContractSpec
<1>1. Init => Contract!Init
  <2> SUFFICES ASSUME Init
               PROVE  Contract!Init
    OBVIOUS
  <2>1. channelState = "Inactive" /\ issued = {} /\ signals = NoMap
    BY DEF Init
  <2>2. PublicState = "new"
    BY <2>1 DEF PublicState, Initialized
  <2>3. Outcomes = {}
    BY <2>1 DEF Outcomes, NoMap
  <2> QED BY <2>1, <2>2, <2>3 DEF Contract!Init
<1>2. IInv /\ [Next]_vars
         => [Contract!Next]_<<PublicState, issued, Outcomes>>
  BY StepKept DEF ContractStep
<1> QED
  BY <1>1, <1>2, Invariance, PTL DEF Spec, ContractSpec, Contract!Spec

(* What is reported is always about an id that the user was given, or that *)
(* of a part of a directory that failed.                                   *)
THEOREM RespectiveJobs ==
    ASSUME FilesAreWhole
    PROVE  Spec => [](\A id \in DOMAIN signals :
                         signals[id] # <<>> =>
                            id \in issued \/ OfFailedDirectory(id))
<1> DEFINE Known == \A r \in Outcomes : r[1] \in issued
<1>1. Init => Known
  <2> SUFFICES ASSUME Init
               PROVE  Known
    OBVIOUS
  <2>1. DOMAIN signals = {}
    BY DEF Init, NoMap
  <2> QED BY <2>1 DEF Outcomes
<1>2. Known /\ IInv /\ [Next]_vars => Known'
  <2> SUFFICES ASSUME Known, IInv, [Next]_vars
               PROVE  Known'
    OBVIOUS
  <2>1. CASE UNCHANGED <<PublicState, issued, Outcomes>>
    BY <2>1
  <2>2. CASE Contract!Next
    <3>1. CASE Contract!Open \/ Contract!Close
      BY <3>1 DEF Contract!Open, Contract!Close
    <3>2. CASE Contract!Start
      BY <3>2 DEF Contract!Start
    <3>3. CASE Contract!Finish
      BY <3>3 DEF Contract!Finish
    <3> QED BY <2>2, <3>1, <3>2, <3>3 DEF Contract!Next
  <2> QED BY <2>1, <2>2, StepKept DEF ContractStep
<1> DEFINE Respective == \A id \in DOMAIN signals :
                            signals[id] # <<>> =>
                               id \in issued \/ OfFailedDirectory(id)
<1>3. Known => Respective
  <2> SUFFICES ASSUME Known, NEW id \in DOMAIN signals, signals[id] # <<>>,
                      ~OfFailedDirectory(id)
               PROVE  id \in issued
    OBVIOUS
  <2>1. <<id, signals[id]>> \in Outcomes
    BY DEF Outcomes
  <2>2. <<id, signals[id]>>[1] \in issued
    BY <2>1
  <2> QED BY <2>2
<1> HIDE DEF Known
<1> QED
  BY <1>1, <1>2, <1>3, Invariance, PTL DEF Spec
==============================================================================
