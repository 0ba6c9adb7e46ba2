------------------------------ MODULE DecryptPath -------------------------------
(***************************************************************************)
(* The path of one decryption in time: the HTTP handler, the blocking      *)
(* thread that talks to an enclave, the frames on the stream between them, *)
(* the enclave's handler, and the timeouts of all of these                 *)
(* (parent/src/routes.rs, enclaves.rs, application.rs;                     *)
(* vault-protocol/src/lib.rs; enclave/src/main.rs).                        *)
(*                                                                         *)
(* A frame is a header and the pieces of its body.  The stream holds       *)
(* Window pieces each way.  A read or a write of a piece has the timeout   *)
(* of its socket to itself, as each read and write call of read_exact and  *)
(* write_all has.  Threads that can run do so before time passes; IMDS,    *)
(* KMS and the computation take as long as they like.                      *)
(***************************************************************************)
EXTENDS Naturals, Sequences

CONSTANTS
  Enclaves,        \* enclaves that may run
  None,
  ParentIo,        \* parent's VSOCK_IO_TIMEOUT
  EnclaveIo,       \* enclave's VSOCK_IO_TIMEOUT
  KmsWait,         \* KMS_REQUEST_TIMEOUT
  HttpWait,        \* REQUEST_TIMEOUT
  Window           \* what the stream buffers each way

ASSUME PathAssumption ==
  /\ None \notin Enclaves \cup {"parent", "other"}
  /\ {ParentIo, EnclaveIo, KmsWait, HttpWait, Window} \subseteq Nat \ {0}

VARIABLES
  proc,      \* the parent's process: "up", "stopping", "down"
  http,      \* the handler: "idle", "credentials", "waiting" or "answered"
  status,    \* what it answered
  httpLeft,  \* what is left of REQUEST_TIMEOUT
  list,      \* the handler's copy of the routing list
  routed,    \* the routing list
  running,   \* the enclaves that run
  thread,    \* the blocking thread: "none", "connect", "send", "header", "body"
  peer,      \* whose the parent's end of the stream is
  target,    \* the enclave at the other end
  age,       \* how long the blocking thread has lived, counted to ParentIo + 1
  ioLeft,    \* what is left of the timeout of its read or write
  toSend,    \* what the parent's end has yet to write
  want,      \* the length of the body it reads
  got,       \* what it read of the body, or what it ended with
  up, down,  \* the stream, to and from the enclave
  open,      \* the ends of the stream that are open
  handler,   \* the enclave's thread
  left,      \* what is left of its timeout
  reply      \* what it has yet to write

parentVars == <<proc, http, status, httpLeft, list>>
poolVars == <<routed, running>>
threadVars == <<thread, peer, target, age, ioLeft, toSend, want, got>>
streamVars == <<up, down, open>>
handlerVars == <<handler, left, reply>>
vars == <<parentVars, poolVars, threadVars, streamVars, handlerVars>>

-----------------------------------------------------------------------------
(* Frames.                                                                 *)

WIRE_VERSION == 1
Request == 1
Response == 2
MAX_FRAME_BODY_SIZE == 2    \* in pieces

Header(version, type, len) == [v |-> version, t |-> type, len |-> len]
Frame(type, body) == <<Header(WIRE_VERSION, type, Len(body))>> \o body

RequestBody == <<"request">>
ResponseBody == <<"fields", "errors">>
ErrorBody == <<"error">>
OversizeBody == <<"fields", "fields", "errors">>

\* What read_frame requires of a header.
HeaderOk(h, expected) ==
  /\ h.v = WIRE_VERSION
  /\ h.t = expected
  /\ h.len <= MAX_FRAME_BODY_SIZE

\* What other processes on the host may write: nothing, the wrong header.
OtherFrames ==
  {<<>>, <<Header(0, Request, 1)>>, <<Header(WIRE_VERSION, Response, 1)>>,
   <<Header(WIRE_VERSION, Request, MAX_FRAME_BODY_SIZE + 1)>>, <<Header(WIRE_VERSION, Request, 1)>>}

Init ==
  /\ proc = "up" /\ http = "idle" /\ status = 0 /\ httpLeft = 0 /\ list = {}
  /\ routed = {} /\ running = Enclaves
  /\ thread = "none" /\ peer = None /\ target = None /\ age = 0 /\ ioLeft = 0
  /\ toSend = <<>> /\ want = 0 /\ got = <<>>
  /\ up = <<>> /\ down = <<>> /\ open = {}
  /\ handler = "none" /\ left = 0 /\ reply = <<>>

-----------------------------------------------------------------------------
(* The parent's HTTP handler and process.                                  *)

Answer(code) == http' = "answered" /\ status' = code /\ httpLeft' = 0 /\ list' = {}

\* A valid request arrives; the routing list is copied.
Arrive ==
  /\ proc = "up" /\ http = "idle" /\ thread = "none" /\ open = {}
  /\ IF routed = {}
       THEN Answer(404)
       ELSE http' = "credentials" /\ httpLeft' = HttpWait /\ list' = routed /\ UNCHANGED status
  /\ UNCHANGED <<proc, poolVars, threadVars, streamVars, handlerVars>>

NoCredentials ==
  /\ http = "credentials"
  /\ Answer(500)
  /\ UNCHANGED <<proc, poolVars, threadVars, streamVars, handlerVars>>

\* The credentials are there: any enclave of the copy is picked, and the call
\* goes to a blocking thread.
Dispatch ==
  /\ http = "credentials"
  /\ \E e \in list : target' = e
  /\ http' = "waiting" /\ list' = {}
  /\ thread' = "connect" /\ age' = 0 /\ got' = <<>>
  /\ UNCHANGED <<proc, status, httpLeft, poolVars, peer, ioLeft, toSend, want, streamVars, handlerVars>>

\* The TimeoutLayer drops the handler; the blocking thread cannot be stopped.
HttpTimeout ==
  /\ http \in {"credentials", "waiting"} /\ httpLeft = 0
  /\ Answer(408)
  /\ UNCHANGED <<proc, poolVars, threadVars, streamVars, handlerVars>>

\* The answer was sent to the client.
Close ==
  /\ http = "answered"
  /\ http' = "idle" /\ status' = 0
  /\ UNCHANGED <<proc, httpLeft, list, poolVars, threadVars, streamVars, handlerVars>>

\* SIGTERM or SIGINT: no more requests are taken.
Stop ==
  /\ proc = "up"
  /\ proc' = "stopping"
  /\ UNCHANGED <<http, status, httpLeft, list, poolVars, threadVars, streamVars, handlerVars>>

\* Handlers are done, main returns, and the runtime waits for its threads.
Exit ==
  /\ proc = "stopping" /\ http = "idle" /\ thread = "none"
  /\ proc' = "down"
  /\ UNCHANGED <<http, status, httpLeft, list, poolVars, threadVars, streamVars, handlerVars>>

\* The process dies: its end of the stream is closed, the client hears nothing.
ParentCrash ==
  /\ proc # "down"
  /\ proc' = "down"
  /\ http' = "idle" /\ status' = 0 /\ httpLeft' = 0 /\ list' = {}
  /\ thread' = "none" /\ age' = 0 /\ ioLeft' = 0 /\ toSend' = <<>> /\ want' = 0 /\ got' = <<>>
  /\ IF peer = "other"
       THEN UNCHANGED <<peer, target, streamVars>>
       ELSE /\ peer' = None /\ target' = None
            /\ open' = open \ {"parent"} /\ down' = <<>> /\ UNCHANGED up
  /\ UNCHANGED <<poolVars, handlerVars>>

\* systemd restarts it, with an empty routing list.
Restart ==
  /\ proc = "down"
  /\ proc' = "up" /\ routed' = {}
  /\ UNCHANGED <<http, status, httpLeft, list, running, threadVars, streamVars, handlerVars>>

-----------------------------------------------------------------------------
(* The pool and the host.                                                  *)

\* A refresh stores the enclaves that run.
Refresh ==
  /\ proc # "down"
  /\ routed' = running
  /\ UNCHANGED <<parentVars, running, threadVars, streamVars, handlerVars>>

Launch(e) ==
  /\ e \notin running
  /\ running' = running \cup {e}
  /\ UNCHANGED <<parentVars, routed, threadVars, streamVars, handlerVars>>

\* An enclave dies, and its end of the stream with it.
Crash(e) ==
  /\ e \in running
  /\ running' = running \ {e}
  /\ IF e = target
       THEN /\ open' = open \ {"enclave"} /\ up' = <<>>
            /\ handler' = "none" /\ left' = 0 /\ reply' = <<>>
            /\ UNCHANGED down
       ELSE UNCHANGED <<streamVars, handlerVars>>
  /\ UNCHANGED <<parentVars, routed, threadVars>>

-----------------------------------------------------------------------------
(* The blocking thread: Enclaves::decrypt.                                 *)

\* The thread returns, its end of the stream is closed, and a handler that
\* still waits answers.
Return(r, code) ==
  /\ thread' = "none" /\ target' = None /\ peer' = None /\ age' = 0 /\ ioLeft' = 0
  /\ toSend' = <<>> /\ want' = 0 /\ got' = r
  /\ open' = open \ {"parent"} /\ down' = <<>> /\ UNCHANGED up
  /\ IF http = "waiting" THEN Answer(code) ELSE UNCHANGED <<http, status, httpLeft, list>>
  /\ UNCHANGED <<proc, poolVars, handlerVars>>

IoError == Return(<<"io error">>, 500)

\* The enclave picked may be gone by now.
ConnectFails == thread = "connect" /\ target \notin running /\ IoError

\* Connect and set both timeouts; the kernel accepts.
Connect ==
  /\ thread = "connect" /\ target \in running
  /\ thread' = "send" /\ peer' = "parent" /\ ioLeft' = ParentIo
  /\ toSend' = Frame(Request, RequestBody)
  /\ open' = {"parent", "enclave"} /\ up' = <<>> /\ down' = <<>>
  /\ handler' = "backlog"
  /\ UNCHANGED <<parentVars, poolVars, target, age, want, got, left, reply>>

\* write_all: another piece.
WritePiece ==
  /\ thread = "send" /\ "enclave" \in open /\ Len(up) < Window
  /\ up' = Append(up, Head(toSend)) /\ toSend' = Tail(toSend)
  /\ thread' = IF Tail(toSend) = <<>> THEN "header" ELSE "send"
  /\ ioLeft' = ParentIo
  /\ UNCHANGED <<parentVars, poolVars, peer, target, age, want, got, down, open, handlerVars>>

CallFailsAtEnd == "enclave" \notin open

\* A read or write call fails: the stream is at its end, or the timeout elapsed.
CallFails == "enclave" \notin open \/ ioLeft = 0

WriteFails == thread = "send" /\ CallFails /\ IoError

\* read_exact of the header, and its checks.
ReadHeader ==
  /\ thread = "header" /\ down # <<>>
  /\ IF HeaderOk(Head(down), Response)
       THEN /\ thread' = "body" /\ down' = Tail(down) /\ ioLeft' = ParentIo
            /\ want' = Head(down).len
            /\ UNCHANGED <<parentVars, poolVars, peer, target, age, toSend, got, up, open, handlerVars>>
       ELSE IoError

\* read_exact of the body.
ReadPiece ==
  /\ thread = "body" /\ down # <<>> /\ Len(got) < want
  /\ got' = Append(got, Head(down))
  /\ down' = Tail(down) /\ ioLeft' = ParentIo
  /\ UNCHANGED <<parentVars, poolVars, thread, peer, target, age, toSend, want, up, open, handlerVars>>

WholeOrEnded == Len(got) = want \/ (got # <<>> /\ down = <<>> /\ "enclave" \notin open)
Whole == Len(got) = want

\* The body is there: a response with fields is a 200, one without a 500.
Decode ==
  /\ thread = "body" /\ Whole
  /\ Return(got, IF got = ErrorBody THEN 500 ELSE 200)

\* The stream ends, or its timeout elapses, before the frame is whole.
ReadFails ==
  /\ thread = "header" \/ (thread = "body" /\ ~Whole)
  /\ down = <<>> /\ CallFails
  /\ Return(IF ioLeft = 0 THEN <<"timeout">> ELSE <<"io error">>, 500)

-----------------------------------------------------------------------------
(* Other processes on the host may connect, write something that is no     *)
(* request or nothing, never read, and close or not.                       *)

OtherConnects(e) ==
  /\ http = "idle" /\ thread = "none" /\ open = {} /\ e \in running
  /\ peer' = "other" /\ target' = e
  /\ open' = {"parent", "enclave"} /\ up' \in OtherFrames /\ down' = <<>>
  /\ handler' = "backlog"
  /\ UNCHANGED <<parentVars, poolVars, thread, age, ioLeft, toSend, want, got, left, reply>>

OtherCloses ==
  /\ peer = "other"
  /\ peer' = None /\ target' = None
  /\ open' = open \ {"parent"} /\ down' = <<>>
  /\ UNCHANGED <<parentVars, poolVars, thread, age, ioLeft, toSend, want, got, up, handlerVars>>

-----------------------------------------------------------------------------
(* The enclave: the accept loop and handle_client.                         *)

Hang(s, time) == handler' = s /\ left' = time /\ UNCHANGED reply
enclaveFrame == <<parentVars, poolVars, threadVars>>

\* The stream is dropped.
HangUp ==
  /\ handler' = "none" /\ left' = 0 /\ reply' = <<>>
  /\ open' = open \ {"enclave"} /\ up' = <<>> /\ UNCHANGED down

Accept ==
  /\ handler = "backlog"
  /\ Hang("header", EnclaveIo)
  /\ UNCHANGED <<enclaveFrame, streamVars>>

\* The connection limit is reached, or a timeout cannot be set.
Reject == handler = "backlog" /\ HangUp /\ UNCHANGED enclaveFrame

ClientFailsAtEnd == "parent" \notin open

\* The same of the enclave's calls.
ClientFails == "parent" \notin open \/ left = 0

StartReplyUnchecked(body) ==
  handler' = "reply" /\ reply' = Frame(Response, body) /\ left' = EnclaveIo

\* write_frame checks the size before it writes anything.
StartReply(body) ==
  IF Len(body) <= MAX_FRAME_BODY_SIZE
    THEN handler' = "reply" /\ reply' = Frame(Response, body) /\ left' = EnclaveIo
    ELSE handler' = "error" /\ reply' = Frame(Response, ErrorBody) /\ left' = EnclaveIo

\* send_sanitized_error
StartError ==
  handler' = "error" /\ reply' = Frame(Response, ErrorBody) /\ left' = EnclaveIo

RecvHeader ==
  /\ handler = "header" /\ up # <<>>
  /\ up' = Tail(up)
  /\ IF HeaderOk(Head(up), Request)
       THEN Hang("body", EnclaveIo)
       ELSE StartError
  /\ UNCHANGED <<enclaveFrame, down, open>>

\* The body is whole: the private key is asked for.  The channel to the KMS
\* worker may be full.
RecvBody ==
  /\ handler = "body" /\ up # <<>>
  /\ up' = Tail(up)
  /\ handler' = "queue" /\ left' = 0
  /\ UNCHANGED <<enclaveFrame, reply, down, open>>

\* The stream ends, or its timeout elapses, before the frame is whole.
RecvFails ==
  /\ handler \in {"header", "body"} /\ up = <<>> /\ ClientFails
  /\ StartError
  /\ UNCHANGED <<enclaveFrame, streamVars>>

\* The request is too large for its checks, or invalid.
Refuse ==
  /\ handler = "queue"
  /\ StartError
  /\ UNCHANGED <<enclaveFrame, streamVars>>

Enqueue ==
  /\ handler = "queue"
  /\ Hang("kms", KmsWait)
  /\ UNCHANGED <<enclaveFrame, streamVars>>

\* KMS answered in time: the fields are decrypted and transformed.
KmsAnswers ==
  /\ handler = "kms"
  /\ Hang("compute", 0)
  /\ UNCHANGED <<enclaveFrame, streamVars>>

KmsFails ==
  /\ handler = "kms"
  /\ StartError
  /\ UNCHANGED <<enclaveFrame, streamVars>>

\* recv_timeout elapses.
KmsTimeout ==
  /\ handler = "kms" /\ left = 0
  /\ StartError
  /\ UNCHANGED <<enclaveFrame, streamVars>>

Compute ==
  /\ handler = "compute"
  /\ \E body \in {ResponseBody, OversizeBody} : StartReply(body)
  /\ UNCHANGED <<enclaveFrame, streamVars>>

SendPiece ==
  /\ handler \in {"reply", "error"} /\ reply # <<>>
  /\ "parent" \in open /\ Len(down) < Window
  /\ down' = Append(down, Head(reply)) /\ reply' = Tail(reply) /\ left' = EnclaveIo
  /\ UNCHANGED <<enclaveFrame, handler, up, open>>

\* A response that cannot be written is followed by an error frame on the
\* same stream, whatever was written of it.
SendFails ==
  /\ handler = "reply" /\ reply # <<>> /\ ClientFails
  /\ StartError
  /\ UNCHANGED <<enclaveFrame, streamVars>>

Finish ==
  /\ \/ handler \in {"reply", "error"} /\ reply = <<>>
     \/ handler = "error" /\ reply # <<>> /\ ClientFails
  /\ HangUp
  /\ UNCHANGED enclaveFrame

-----------------------------------------------------------------------------
(* Time.                                                                   *)

\* Steps that threads take as soon as they can.
ParentIoStep ==
  \/ Connect \/ ConnectFails \/ WritePiece \/ WriteFails
  \/ ReadHeader \/ ReadPiece \/ Decode \/ ReadFails

EnclaveIoStep ==
  \/ Accept \/ Reject \/ RecvHeader \/ RecvBody \/ RecvFails \/ KmsTimeout
  \/ SendPiece \/ SendFails \/ Finish

Prompt == HttpTimeout \/ ParentIoStep \/ EnclaveIoStep

Minus1(n) == IF n = 0 THEN 0 ELSE n - 1

\* When there is such a step.
ParentCanRun ==
  \/ thread = "connect"
  \/ thread = "send" /\ (CallFails \/ Len(up) < Window)
  \/ thread = "header" /\ (CallFails \/ down # <<>>)
  \/ thread = "body" /\ (Whole \/ IF down = <<>> THEN CallFails ELSE Len(got) < want)

EnclaveCanRun ==
  \/ handler = "backlog"
  \/ handler \in {"header", "body"} /\ (ClientFails \/ up # <<>>)
  \/ handler = "kms" /\ left = 0
  \/ handler \in {"reply", "error"} /\ (ClientFails \/ reply = <<>> \/ Len(down) < Window)

CanRun ==
  \/ http \in {"credentials", "waiting"} /\ httpLeft = 0
  \/ ParentCanRun
  \/ EnclaveCanRun

\* Time passes when no thread can run.
Tick ==
  /\ ~CanRun
  /\ httpLeft' = Minus1(httpLeft)
  /\ ioLeft' = Minus1(ioLeft)
  /\ left' = Minus1(left)
  /\ age' = IF thread = "none" THEN 0 ELSE IF age > ParentIo THEN age ELSE age + 1
  /\ UNCHANGED <<proc, http, status, list, poolVars, thread, peer, target, toSend, want, got,
                 streamVars, handler, reply>>

Next ==
  \/ Prompt \/ Tick
  \/ Arrive \/ NoCredentials \/ Dispatch \/ Close
  \/ Stop \/ Exit \/ ParentCrash \/ Restart \/ Refresh
  \/ \E e \in Enclaves : Launch(e) \/ Crash(e) \/ OtherConnects(e)
  \/ OtherCloses
  \/ Refuse \/ Enqueue \/ KmsAnswers \/ KmsFails \/ Compute

Spec == Init /\ [][Next]_vars

(***************************************************************************)
(* Threads run, time passes, a client takes its answer, a computation      *)
(* ends.  IMDS and KMS may never answer, and the channel to the KMS worker *)
(* may never have room.                                                    *)
(***************************************************************************)
FairSpec ==
  /\ Spec
  /\ WF_vars(Prompt) /\ WF_vars(Tick)
  /\ WF_vars(Close) /\ WF_vars(Exit) /\ WF_vars(Compute)

\* The channel lets the handler in (EnclaveServer!NeverStaysFull).
ChannelMoves == WF_vars(Refuse \/ Enqueue)

-----------------------------------------------------------------------------
(***************************************************************************)
(* Type correctness of the path; the stream never holds more than it       *)
(* buffers, and what the enclave starts to write is a frame that its       *)
(* reader accepts (lib.rs:274-311).                                        *)
(***************************************************************************)
TypeOK ==
  /\ proc \in {"up", "stopping", "down"}
  /\ http \in {"idle", "credentials", "waiting", "answered"}
  /\ status \in {0, 200, 404, 408, 500}
  /\ httpLeft \in 0..HttpWait
  /\ list \subseteq Enclaves /\ routed \subseteq Enclaves /\ running \subseteq Enclaves
  /\ thread \in {"none", "connect", "send", "header", "body"}
  /\ peer \in {None, "parent", "other"}
  /\ target \in Enclaves \cup {None}
  /\ ioLeft \in 0..ParentIo
  /\ want \in 0..MAX_FRAME_BODY_SIZE
  /\ Len(up) <= Window /\ Len(down) <= Window
  /\ open \subseteq {"parent", "enclave"}
  /\ handler \in {"none", "backlog", "header", "body", "queue", "kms", "compute", "reply", "error"}
  /\ left \in 0..(EnclaveIo + KmsWait)
  /\ Len(reply) <= MAX_FRAME_BODY_SIZE + 1

(***************************************************************************)
(* What the parent takes for a message is one, whole: not the beginning of *)
(* one whose writer died, nor the beginning of a response followed by an   *)
(* error frame (main.rs:111, lib.rs:330-378).  Only a whole response is    *)
(* answered with a 200.                                                    *)
(***************************************************************************)
WholeMessages ==
  /\ thread = "none" =>
       got \in {<<>>, ResponseBody, ErrorBody, <<"io error">>, <<"timeout">>}
  /\ status = 200 => got = ResponseBody

(***************************************************************************)
(* A blocking thread, and with it the credential it sent, is in use no     *)
(* longer than one vsock timeout (constants.rs:74-76): each read has the   *)
(* timeout to itself, but only the first one waits.                        *)
(***************************************************************************)
ThreadWithinIoTimeout == age <= ParentIo

(***************************************************************************)
(* A graceful shutdown ends, though the runtime waits for blocking threads *)
(* whose handler is long gone and KMS or the enclave may be stuck for ever *)
(* (application.rs:96-98, enclaves.rs:64-71).                              *)
(***************************************************************************)
StopEnds == proc = "stopping" ~> proc # "stopping"

(***************************************************************************)
(* Whatever the other end does, dies, falls silent or gives up, a handler  *)
(* of the enclave ends once the channel to the KMS worker lets it in       *)
(* (main.rs:148-165).                                                      *)
(***************************************************************************)
SlotIsFreed == ChannelMoves => (handler # "none" ~> handler = "none")

(***************************************************************************)
(* mod.rs:88-91: KMS_REQUEST_TIMEOUT is "bounded shorter than the parent's *)
(* VSOCK_IO_TIMEOUT (30s) so a stuck KMS call surfaces as an enclave error *)
(* before the parent's connection timeout fires".                          *)
(***************************************************************************)
KmsErrorComesFirst == [][thread # "none" /\ got' = <<"timeout">> => handler # "kms"]_vars
=============================================================================
