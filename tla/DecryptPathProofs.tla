-------------------------- MODULE DecryptPathProofs ---------------------------
(***************************************************************************)
(* Proofs about DecryptPath, for any enclaves, any timeouts and a stream   *)
(* that buffers any number of pieces:                                      *)
(*   - the parent takes whole messages for messages, and nothing else;     *)
(*   - its blocking thread is done within one vsock timeout.               *)
(* They hold together: the thread waits only once because the enclave has  *)
(* taken the whole request before it takes long, and writes a response     *)
(* that is whole before it starts.                                         *)
(***************************************************************************)
EXTENDS DecryptPath, SequenceTheorems, TLAPS

-----------------------------------------------------------------------------
(* The inductive invariant.                                                *)

\* What the stream carries, and what the thread may end with.
Piece == [v : Nat, t : Nat, len : Nat]
           \cup {"request", "fields", "errors", "error", "io error", "timeout"}

\* What the enclave sends: an oversize response is never written.
Messages == {ResponseBody, ErrorBody}

ParentTypes ==
  /\ proc \in {"up", "stopping", "down"}
  /\ http \in {"idle", "credentials", "waiting", "answered"}
  /\ status \in {0, 200, 404, 408, 500}
  /\ httpLeft \in 0..HttpWait
  /\ list \subseteq Enclaves /\ routed \subseteq Enclaves /\ running \subseteq Enclaves

ThreadTypes ==
  /\ thread \in {"none", "connect", "send", "header", "body"}
  /\ peer \in {None, "parent", "other"} /\ target \in Enclaves \cup {None}
  /\ age \in Nat /\ ioLeft \in 0..ParentIo /\ want \in 0..2

StreamTypes ==
  /\ Len(up) <= Window /\ Len(down) <= Window
  /\ open \subseteq {"parent", "enclave"}
  /\ handler \in {"none", "backlog", "header", "body", "queue", "kms", "compute", "reply", "error"}
  /\ left \in 0..(EnclaveIo + KmsWait)

PieceTypes ==
  /\ toSend \in Seq(Piece) /\ got \in Seq(Piece) /\ up \in Seq(Piece)
  /\ down \in Seq(Piece) /\ reply \in Seq(Piece)

TypeInv == ParentTypes /\ ThreadTypes /\ StreamTypes /\ PieceTypes

\* The parent's thread is at work on the stream.
Active == thread \in {"send", "header", "body"}

\* The stream has the ends that hold it; nobody else uses that of the thread.
StreamInv ==
  /\ "enclave" \in open <=> handler # "none"
  /\ Active => "parent" \in open
  /\ peer = "other" => thread = "none" /\ http = "idle" /\ "parent" \in open

\* What the enclave has yet to read of the request is on the stream or about
\* to be written, and the request is whole once the enclave took its body.
RequestInv ==
  /\ thread = "send" => toSend # <<>> /\ down = <<>>
  /\ thread \in {"header", "body"} => toSend = <<>>
  /\ Active /\ handler \in {"backlog", "header"} => up \o toSend = Frame(Request, RequestBody)
  /\ Active /\ handler = "body" => up \o toSend = RequestBody
  /\ Active /\ handler \in {"queue", "kms", "compute", "reply", "error"} => up \o toSend = <<>>

\* What the parent has read, what is on the stream and what the enclave has
\* yet to write, if it still can, is one message.
ResponseInv ==
  /\ thread \in {"connect", "send", "header"} => got = <<>>
  /\ Active /\ handler \notin {"none", "reply", "error"} => thread # "body" /\ down = <<>>
  /\ thread = "header" =>
       \E m \in Messages, rest \in Seq(Piece) :
         /\ down \o rest = Frame(Response, m)
         /\ handler \in {"reply", "error"} => reply = rest
  /\ thread = "body" =>
       \E m \in Messages, rest \in Seq(Piece) :
         /\ want = Len(m) /\ got \o (down \o rest) = m
         /\ handler \in {"reply", "error"} => reply = rest

\* Only the wait for the header of the response takes time.
ClockInv ==
  /\ thread \in {"none", "connect", "send"} => age = 0
  /\ thread = "header" => age + ioLeft <= ParentIo
  /\ thread = "body" => age <= ParentIo
  /\ Active /\ handler \in {"header", "body", "reply", "error"} => left > 0

\* A client is told of a message only when the thread is done with it.
AnswerInv ==
  /\ http # "answered" => status = 0
  /\ status = 200 => thread = "none"

IInv ==
  TypeInv /\ StreamInv /\ RequestInv /\ ResponseInv /\ ClockInv /\ AnswerInv /\ WholeMessages

-----------------------------------------------------------------------------
(* Sequences that are moved piece by piece.                                *)

\* A piece that moves from the head of b to the end of a.
LEMMA Moves ==
  ASSUME NEW S, NEW a \in Seq(S), NEW b \in Seq(S), b # <<>>
  PROVE  /\ Head(b) \in S /\ Tail(b) \in Seq(S) /\ Append(a, Head(b)) \in Seq(S)
         /\ Len(Append(a, Head(b))) = Len(a) + 1
         /\ Append(a, Head(b)) \o Tail(b) = a \o b
<1>1. /\ Head(b) \in S /\ Tail(b) \in Seq(S) /\ Len(Tail(b)) = Len(b) - 1 /\ Head(b) = b[1]
      /\ \A i \in 1..Len(Tail(b)) : Tail(b)[i] = b[i + 1]
  BY HeadTailProperties
<1> DEFINE c == Append(a, Head(b))
<1>2. /\ c \in Seq(S) /\ Len(c) = Len(a) + 1
      /\ \A i \in 1..Len(a) : c[i] = a[i]
      /\ c[Len(a) + 1] = b[1]
  BY <1>1, AppendProperties
<1> HIDE DEF c
<1>3. /\ Len(a) \in Nat /\ Len(b) \in Nat \ {0}
      /\ a \o b \in Seq(S) /\ Len(a \o b) = Len(a) + Len(b)
      /\ \A i \in 1..Len(a) + Len(b) : (a \o b)[i] = IF i <= Len(a) THEN a[i] ELSE b[i - Len(a)]
  BY EmptySeq, LenProperties, ConcatProperties
<1>4. /\ c \o Tail(b) \in Seq(S) /\ Len(c \o Tail(b)) = Len(a) + Len(b)
      /\ \A i \in 1..Len(a) + Len(b) :
           (c \o Tail(b))[i] = IF i <= Len(a) + 1 THEN c[i] ELSE Tail(b)[i - (Len(a) + 1)]
  <2>1. /\ c \o Tail(b) \in Seq(S) /\ Len(c \o Tail(b)) = Len(c) + Len(Tail(b))
        /\ \A i \in 1..Len(c) + Len(Tail(b)) :
             (c \o Tail(b))[i] = IF i <= Len(c) THEN c[i] ELSE Tail(b)[i - Len(c)]
    BY <1>1, <1>2, ConcatProperties
  <2>2. Len(c) + Len(Tail(b)) = Len(a) + Len(b)
    BY <1>1, <1>2, <1>3
  <2> QED
    BY <1>2, <2>1, <2>2
<1>5. ASSUME NEW i \in 1..Len(a) + Len(b) PROVE (c \o Tail(b))[i] = (a \o b)[i]
  <2>1. CASE i <= Len(a)
    BY <1>2, <1>3, <1>4, <2>1
  <2>2. CASE i = Len(a) + 1
    BY <1>2, <1>3, <1>4, <2>2
  <2>3. CASE i > Len(a) + 1
    <3>1. i - (Len(a) + 1) \in 1..Len(Tail(b))
      BY <1>1, <1>3, <2>3
    <3>2. Tail(b)[i - (Len(a) + 1)] = b[i - Len(a)]
      BY <1>1, <1>3, <3>1
    <3> QED
      BY <1>3, <1>4, <2>3, <3>2
  <2>4. i \in Int /\ Len(a) \in Int
    BY <1>3
  <2>5. i <= Len(a) \/ i = Len(a) + 1 \/ i > Len(a) + 1
    BY <2>4
  <2> QED
    BY <2>1, <2>2, <2>3, <2>5
<1>6. c \o Tail(b) = a \o b
  BY <1>3, <1>4, <1>5, SeqEqual
<1> QED
  BY <1>1, <1>2, <1>6 DEF c

\* What is taken from the head of a is the head of the whole.
LEMMA Takes ==
  ASSUME NEW S, NEW a \in Seq(S), NEW b \in Seq(S), a # <<>>
  PROVE  /\ Head(a) \in S /\ Tail(a) \in Seq(S)
         /\ a \o b # <<>> /\ Head(a \o b) = Head(a) /\ Tail(a \o b) = Tail(a) \o b
<1> DEFINE w == a \o b
<1>1. /\ Head(a) \in S /\ Tail(a) \in Seq(S) /\ Len(Tail(a)) = Len(a) - 1 /\ Head(a) = a[1]
      /\ \A i \in 1..Len(Tail(a)) : Tail(a)[i] = a[i + 1]
  BY HeadTailProperties
<1>2. /\ Len(a) \in Nat \ {0} /\ Len(b) \in Nat
      /\ w \in Seq(S) /\ Len(w) = Len(a) + Len(b)
      /\ \A i \in 1..Len(a) + Len(b) : w[i] = IF i <= Len(a) THEN a[i] ELSE b[i - Len(a)]
  BY EmptySeq, LenProperties, ConcatProperties
<1> HIDE DEF w
<1>3. w # <<>>
  BY <1>2, EmptySeq
<1>4. /\ Head(w) = w[1] /\ Tail(w) \in Seq(S) /\ Len(Tail(w)) = Len(w) - 1
      /\ \A i \in 1..Len(Tail(w)) : Tail(w)[i] = w[i + 1]
  BY <1>2, <1>3, HeadTailProperties
<1>5. Head(w) = Head(a)
  BY <1>1, <1>2, <1>4
<1>6. /\ Tail(a) \o b \in Seq(S) /\ Len(Tail(a) \o b) = Len(a) - 1 + Len(b)
      /\ \A i \in 1..Len(a) - 1 + Len(b) :
           (Tail(a) \o b)[i] = IF i <= Len(a) - 1 THEN Tail(a)[i] ELSE b[i - (Len(a) - 1)]
  BY <1>1, <1>2, ConcatProperties
<1>7. ASSUME NEW i \in 1..Len(w) - 1 PROVE Tail(w)[i] = (Tail(a) \o b)[i]
  <2>1. Tail(w)[i] = w[i + 1]
    BY <1>4
  <2>2. CASE i <= Len(a) - 1
    BY <1>1, <1>2, <1>6, <2>1, <2>2
  <2>3. CASE i > Len(a) - 1
    BY <1>1, <1>2, <1>6, <2>1, <2>3
  <2> QED
    BY <1>2, <2>2, <2>3
<1>8. Tail(w) = Tail(a) \o b
  BY <1>2, <1>4, <1>6, <1>7, SeqEqual
<1> QED
  BY <1>1, <1>3, <1>5, <1>8 DEF w

\* What the stream buffers, when a piece is taken from it or put into it.
LEMMA TakeFits ==
  ASSUME NEW S, NEW s \in Seq(S), s # <<>>, NEW w, w = Tail(s), Len(s) <= Window
  PROVE  w \in Seq(S) /\ Len(w) <= Window
<1>1. w \in Seq(S) /\ Len(w) = Len(s) - 1 /\ Len(s) \in Nat
  BY HeadTailProperties, LenProperties
<1> QED
  BY <1>1, PathAssumption

LEMMA PutFits ==
  ASSUME NEW S, NEW s \in Seq(S), NEW b \in Seq(S), b # <<>>, NEW w, w = Append(s, Head(b)),
         Len(s) < Window
  PROVE  w \in Seq(S) /\ Len(w) <= Window /\ Tail(b) \in Seq(S)
<1>1. w \in Seq(S) /\ Len(w) = Len(s) + 1 /\ Len(s) \in Nat /\ Tail(b) \in Seq(S)
  BY Moves, LenProperties
<1> QED
  BY <1>1, PathAssumption

LEMMA OneLeft ==
  ASSUME NEW S, NEW a \in Seq(S), Len(a) = 1
  PROVE  a # <<>> /\ Tail(a) = <<>>
<1>1. a # <<>>
  <2>1. Len(<<>>) = 0
    BY EmptySeq
  <2>2. a = <<>> => Len(a) = Len(<<>>)
    OBVIOUS
  <2> QED
    BY <2>1, <2>2
<1>2. Tail(a) \in Seq(S) /\ Len(Tail(a)) = 0
  BY <1>1, HeadTailProperties
<1> QED
  BY <1>1, <1>2, EmptySeq

\* The messages, and what a frame is made of.
LEMMA Bodies ==
  /\ RequestBody \in Seq(Piece) /\ ResponseBody \in Seq(Piece) /\ ErrorBody \in Seq(Piece)
  /\ Len(RequestBody) = 1 /\ Len(ResponseBody) = 2 /\ Len(ErrorBody) = 1
  /\ RequestBody # <<>> /\ Tail(RequestBody) = <<>>
  /\ ResponseBody # ErrorBody
<1>1. /\ RequestBody \in Seq(Piece) /\ ResponseBody \in Seq(Piece) /\ ErrorBody \in Seq(Piece)
      /\ Len(RequestBody) = 1 /\ Len(ResponseBody) = 2 /\ Len(ErrorBody) = 1
  BY DEF RequestBody, ResponseBody, ErrorBody, Piece
<1>2. RequestBody # <<>> /\ Tail(RequestBody) = <<>>
  BY <1>1, OneLeft
<1> QED
  BY <1>1, <1>2

LEMMA Headers ==
  ASSUME NEW v \in Nat, NEW type \in Nat, NEW n \in Nat
  PROVE  /\ Header(v, type, n) \in Piece
         /\ Header(v, type, n).v = v /\ Header(v, type, n).t = type /\ Header(v, type, n).len = n
<1>1. Header(v, type, n) \in [v : Nat, t : Nat, len : Nat]
  BY DEF Header
<1> QED
  BY <1>1 DEF Piece, Header

LEMMA FrameParts ==
  ASSUME NEW m \in Seq(Piece), NEW type \in {Request, Response}
  PROVE  /\ Frame(type, m) \in Seq(Piece) /\ Frame(type, m) # <<>>
         /\ Head(Frame(type, m)) = Header(WIRE_VERSION, type, Len(m))
         /\ Tail(Frame(type, m)) = m
<1> DEFINE h == <<Header(WIRE_VERSION, type, Len(m))>>
<1>1. Header(WIRE_VERSION, type, Len(m)) \in Piece
  BY LenProperties, Headers DEF WIRE_VERSION, Request, Response
<1>2. /\ h \in Seq(Piece) /\ h # <<>> /\ Len(h) = 1
      /\ Head(h) = Header(WIRE_VERSION, type, Len(m))
  BY <1>1
<1>3. Tail(h) = <<>>
  BY <1>2, OneLeft
<1> HIDE DEF h
<1>4. h \o m \in Seq(Piece)
  BY <1>2, ConcatProperties
<1>5. h \o m # <<>> /\ Head(h \o m) = Head(h) /\ Tail(h \o m) = Tail(h) \o m
  BY <1>2, Takes
<1>6. /\ h \o m \in Seq(Piece) /\ h \o m # <<>>
      /\ Head(h \o m) = Head(h) /\ Tail(h \o m) = <<>> \o m
  BY <1>3, <1>4, <1>5
<1>7. <<>> \o m = m
  BY ConcatEmptySeq
<1> QED
  BY <1>2, <1>6, <1>7 DEF Frame, h

-----------------------------------------------------------------------------
(* The steps.                                                              *)

\* What neither the thread, nor the stream, nor the enclave's handler take
\* part in.
Elsewhere ==
  \/ Arrive \/ NoCredentials \/ HttpTimeout \/ Close \/ Stop \/ Exit \/ Restart \/ Refresh
  \/ \E e \in Enclaves : Launch(e)

\* The blocking thread returns.
Returns ==
  \/ ConnectFails \/ WriteFails \/ Decode \/ ReadFails
  \/ thread = "header" /\ down # <<>> /\ ~HeaderOk(Head(down), Response) /\ IoError

\* A response header is read.
TakesHeader ==
  /\ thread = "header" /\ down # <<>> /\ HeaderOk(Head(down), Response)
  /\ ReadHeader

\* The enclave's end of the stream is dropped.
Drops == Reject \/ Finish \/ \E e \in Enclaves : Crash(e) /\ e = target

\* The enclave starts an error frame.
Errs == RecvFails \/ Refuse \/ KmsFails \/ KmsTimeout \/ SendFails

LEMMA Steps ==
  ASSUME Next
  PROVE  \/ Elsewhere \/ Dispatch \/ ParentCrash \/ Returns \/ Connect
         \/ WritePiece \/ TakesHeader \/ ReadPiece
         \/ OtherCloses \/ \E e \in Enclaves : OtherConnects(e) \/ (Crash(e) /\ e # target)
         \/ Drops \/ Accept \/ RecvHeader \/ RecvBody \/ Errs
         \/ Enqueue \/ KmsAnswers \/ Compute \/ SendPiece
         \/ Tick
<1>1. ReadHeader => TakesHeader \/ Returns
  BY DEF ReadHeader, TakesHeader, Returns
<1>2. ParentIoStep => Connect \/ WritePiece \/ TakesHeader \/ ReadPiece \/ Returns
  BY <1>1 DEF ParentIoStep, Returns
<1>3. EnclaveIoStep => Accept \/ Drops \/ RecvHeader \/ RecvBody \/ Errs \/ SendPiece
  BY DEF EnclaveIoStep, Drops, Errs
<1> QED
  BY <1>2, <1>3 DEF Next, Prompt, Elsewhere, Drops, Errs

LEMMA InitIInv == Init => IInv
<1> SUFFICES ASSUME Init PROVE IInv
  OBVIOUS
<1> USE PathAssumption DEF Init
<1>1. <<>> \in Seq(Piece) /\ Len(<<>>) = 0
  BY EmptySeq
<1>2. TypeInv
  BY <1>1 DEF TypeInv, ParentTypes, ThreadTypes, StreamTypes, PieceTypes
<1>3. StreamInv
  BY DEF StreamInv, Active
<1>4. RequestInv /\ ResponseInv
  BY DEF RequestInv, ResponseInv, Active
<1>5. ClockInv /\ AnswerInv /\ WholeMessages
  BY DEF ClockInv, AnswerInv, WholeMessages, Active
<1> QED
  BY <1>2, <1>3, <1>4, <1>5 DEF IInv

\* The clocks stay in their ranges.
LEMMA Bounds ==
  /\ 0 \in 0..HttpWait /\ HttpWait \in 0..HttpWait
  /\ 0 \in 0..ParentIo /\ ParentIo \in 0..ParentIo
  /\ 0 \in 0..(EnclaveIo + KmsWait) /\ EnclaveIo \in 0..(EnclaveIo + KmsWait)
  /\ KmsWait \in 0..(EnclaveIo + KmsWait)
  /\ 0 <= Window /\ 1 <= Window
BY PathAssumption

LEMMA CountsDown ==
  ASSUME NEW limit \in Nat, NEW n \in 0..limit
  PROVE  Minus1(n) \in 0..limit
BY DEF Minus1

LEMMA OtherFramesTyped ==
  ASSUME NEW f \in OtherFrames
  PROVE  f \in Seq(Piece) /\ Len(f) <= 1
<1>1. Header(0, Request, 1) \in Piece
  BY Headers DEF Request
<1>2. Header(WIRE_VERSION, Response, 1) \in Piece
  BY Headers DEF WIRE_VERSION, Response
<1>3. Header(WIRE_VERSION, Request, MAX_FRAME_BODY_SIZE + 1) \in Piece
  BY Headers DEF WIRE_VERSION, Request, MAX_FRAME_BODY_SIZE
<1>4. Header(WIRE_VERSION, Request, 1) \in Piece
  BY Headers DEF WIRE_VERSION, Request
<1>5. \A h \in Piece : <<h>> \in Seq(Piece) /\ Len(<<h>>) <= 1
  OBVIOUS
<1>6. <<>> \in Seq(Piece) /\ Len(<<>>) <= 1
  BY EmptySeq
<1>7. f = <<>> \/ \E h \in Piece : f = <<h>>
  BY <1>1, <1>2, <1>3, <1>4 DEF OtherFrames
<1> QED
  BY <1>5, <1>6, <1>7

\* The header that the parent reads is that of the message.
LEMMA HeaderOfMessage ==
  ASSUME PieceTypes, ResponseInv, thread = "header", down # <<>>
  PROVE  \E m \in Messages, rest \in Seq(Piece) :
           /\ m \in Seq(Piece) /\ Len(m) \in 1..2
           /\ Head(down) = Header(WIRE_VERSION, Response, Len(m)) /\ Head(down).len = Len(m)
           /\ Tail(down) \in Seq(Piece) /\ Len(Tail(down)) = Len(down) - 1
           /\ Tail(down) \o rest = m
           /\ handler \in {"reply", "error"} => reply = rest
<1>1. PICK m \in Messages, rest \in Seq(Piece) :
        /\ down \o rest = Frame(Response, m)
        /\ handler \in {"reply", "error"} => reply = rest
  BY DEF ResponseInv
<1>2. m \in Seq(Piece) /\ Len(m) \in 1..2
  BY Bodies DEF Messages
<1>3. /\ down \in Seq(Piece) /\ Tail(down) \in Seq(Piece) /\ Len(Tail(down)) = Len(down) - 1
      /\ Head(down \o rest) = Head(down) /\ Tail(down \o rest) = Tail(down) \o rest
  BY Takes, HeadTailProperties DEF PieceTypes
<1>4. Head(down) = Header(WIRE_VERSION, Response, Len(m)) /\ Tail(down) \o rest = m
  BY <1>1, <1>2, <1>3, FrameParts
<1>5. Head(down).len = Len(m)
  BY <1>2, <1>4, Headers DEF WIRE_VERSION, Response
<1> QED
  BY <1>1, <1>2, <1>3, <1>4, <1>5

LEMMA MessageLength ==
  ASSUME PieceTypes, ResponseInv, thread = "header", down # <<>>
  PROVE  \E n \in 0..2 : Head(down).len = n
<1>1. PICK m : Len(m) \in 1..2 /\ Head(down).len = Len(m)
  BY HeaderOfMessage
<1>2. PICK n : n = Len(m)
  OBVIOUS
<1>3. n \in 0..2 /\ Head(down).len = n
  BY <1>1, <1>2
<1> QED
  BY <1>3

LEMMA ReturnsSomething ==
  ASSUME PieceTypes, Returns
  PROVE  \E r \in Seq(Piece), code \in {200, 500} : Return(r, code)
<1>1. <<"io error">> \in Seq(Piece) /\ <<"timeout">> \in Seq(Piece)
  BY DEF Piece
<1>5. PICK io, late : io = <<"io error">> /\ late = <<"timeout">>
  OBVIOUS
<1>6. io \in Seq(Piece) /\ late \in Seq(Piece)
  BY <1>1, <1>5
<1> DEFINE Some == \E r \in Seq(Piece), code \in {200, 500} : Return(r, code)
<1>0. ASSUME NEW r \in Seq(Piece), NEW code \in {200, 500}, Return(r, code) PROVE Some
  BY <1>0
<1> HIDE DEF Some
<1>2. IoError => Some
  <2>1. IoError => Return(io, 500)
    BY <1>5 DEF IoError
  <2> QED
    BY <1>0, <1>6, <2>1
<1>3. Decode => Some
  <2>1. Decode => Return(got, 200) \/ Return(got, 500)
    BY DEF Decode
  <2> QED
    BY <1>0, <2>1 DEF PieceTypes
<1>4. ReadFails => Some
  <2>1. ReadFails => Return(late, 500) \/ Return(io, 500)
    BY <1>5 DEF ReadFails
  <2> QED
    BY <1>0, <1>6, <2>1
<1> QED
  BY <1>2, <1>3, <1>4 DEF Returns, ConnectFails, WriteFails, Some

\* A response that is too large is replaced by an error.
LEMMA Computes ==
  ASSUME Compute
  PROVE  /\ handler = "compute" /\ handler' \in {"reply", "error"} /\ left' = EnclaveIo
         /\ \E m \in Messages : reply' = Frame(Response, m)
         /\ reply' \in {Frame(Response, ErrorBody), Frame(Response, ResponseBody)}
         /\ UNCHANGED <<enclaveFrame, streamVars>>
<1>1. PICK body \in {ResponseBody, OversizeBody} : StartReply(body)
  BY DEF Compute
<1>2. body = ResponseBody \/ ~(Len(body) <= MAX_FRAME_BODY_SIZE)
  BY DEF OversizeBody, MAX_FRAME_BODY_SIZE
<1>3. /\ handler' \in {"reply", "error"} /\ left' = EnclaveIo
      /\ reply' = Frame(Response, ErrorBody) \/ reply' = Frame(Response, ResponseBody)
  BY <1>1, <1>2 DEF StartReply
<1> QED
  BY <1>3 DEF Compute, Messages

LEMMA ReturnTyped ==
  ASSUME TypeInv, NEW r \in Seq(Piece), NEW code \in {200, 500}, Return(r, code)
  PROVE  TypeInv'
<1> USE PathAssumption DEF TypeInv
<1>1. <<>> \in Seq(Piece) /\ Len(<<>>) = 0
  BY EmptySeq
<1>2. ParentTypes'
  <2>1. UNCHANGED <<proc, routed, running>>
    BY DEF Return, poolVars
  <2>2. CASE http = "waiting"
    BY <2>1, <2>2 DEF ParentTypes, Return, Answer
  <2>3. CASE http # "waiting"
    BY <2>1, <2>3 DEF ParentTypes, Return
  <2> QED
    BY <2>2, <2>3
<1>3. ThreadTypes'
  BY DEF ThreadTypes, Return
<1>4. StreamTypes'
  BY <1>1 DEF StreamTypes, Return, handlerVars
<1>5. PieceTypes'
  BY <1>1 DEF PieceTypes, Return, handlerVars
<1> QED
  BY <1>2, <1>3, <1>4, <1>5

LEMMA TickTyped ==
  ASSUME TypeInv, Tick
  PROVE  TypeInv'
<1>1. /\ httpLeft' = Minus1(httpLeft) /\ ioLeft' = Minus1(ioLeft) /\ left' = Minus1(left)
      /\ age' \in {0, age, age + 1}
      /\ UNCHANGED <<proc, http, status, list, routed, running, thread, peer, target, want,
                     toSend, got, up, down, open, handler, reply>>
  BY DEF Tick, poolVars, streamVars
<1>2. HttpWait \in Nat /\ ParentIo \in Nat /\ EnclaveIo + KmsWait \in Nat
  BY PathAssumption
<1>3. /\ httpLeft \in 0..HttpWait /\ ioLeft \in 0..ParentIo
      /\ left \in 0..(EnclaveIo + KmsWait)
  BY DEF TypeInv, ParentTypes, ThreadTypes, StreamTypes
<1>4. httpLeft' \in 0..HttpWait /\ ioLeft' \in 0..ParentIo /\ left' \in 0..(EnclaveIo + KmsWait)
  BY <1>1, <1>2, <1>3, CountsDown
<1>5. ParentTypes'
  BY <1>1, <1>4 DEF TypeInv, ParentTypes
<1>6. ThreadTypes'
  <2>1. age' \in Nat
    BY <1>1 DEF TypeInv, ThreadTypes
  <2> QED
    BY <1>1, <1>4, <2>1 DEF TypeInv, ThreadTypes
<1>7. StreamTypes'
  BY <1>1, <1>4 DEF TypeInv, StreamTypes
<1>8. PieceTypes'
  BY <1>1 DEF TypeInv, PieceTypes
<1> QED
  BY <1>5, <1>6, <1>7, <1>8 DEF TypeInv

LEMMA TypeStep ==
  ASSUME TypeInv, RequestInv, ResponseInv, Next
  PROVE  TypeInv'
<1>1. <<>> \in Seq(Piece) /\ Len(<<>>) = 0
  BY EmptySeq
<1>3. Frame(Response, ErrorBody) \in Seq(Piece) /\ Frame(Response, ResponseBody) \in Seq(Piece)
  BY Bodies, FrameParts
<1>4. Len(up) \in Nat /\ Len(down) \in Nat
  BY LenProperties DEF TypeInv, PieceTypes
<1>2. Compute => /\ handler' \in {"reply", "error"} /\ left' = EnclaveIo
                 /\ reply' \in {Frame(Response, ErrorBody), Frame(Response, ResponseBody)}
                 /\ UNCHANGED <<enclaveFrame, streamVars>>
  BY Computes
<1>17. CASE Returns
  BY <1>17, ReturnsSomething, ReturnTyped DEF TypeInv
<1>33. CASE Tick
  BY <1>33, TickTyped
<1> USE Bounds DEF TypeInv, ParentTypes, ThreadTypes, StreamTypes, PieceTypes, parentVars, poolVars, threadVars, streamVars,
                           handlerVars, enclaveFrame
<1>5. CASE Arrive
  <2>1. /\ http' \in {"answered", "credentials"} /\ status' \in {404, status}
        /\ httpLeft' \in {0, HttpWait} /\ list' \in {{}, routed}
        /\ UNCHANGED <<proc, poolVars, threadVars, streamVars, handlerVars>>
    BY <1>5 DEF Arrive, Answer
  <2> QED
    BY <2>1
<1>6. CASE NoCredentials
  BY <1>6 DEF NoCredentials, Answer
<1>7. CASE HttpTimeout
  BY <1>7 DEF HttpTimeout, Answer
<1>8. CASE Close
  BY <1>8 DEF Close
<1>9. CASE Stop
  BY <1>9 DEF Stop
<1>10. CASE Exit
  BY <1>10 DEF Exit
<1>11. CASE Restart
  BY <1>11 DEF Restart
<1>12. CASE Refresh
  BY <1>12 DEF Refresh
<1>13. ASSUME NEW e \in Enclaves, Launch(e) PROVE TypeInv'
  BY <1>13 DEF Launch
<1>14. CASE Dispatch
  BY <1>1, <1>14 DEF Dispatch
<1>15. CASE ParentCrash
  <2>11. ParentTypes'
    BY <1>1, <1>15 DEF ParentCrash
  <2>12. ThreadTypes'
    BY <1>1, <1>15 DEF ParentCrash
  <2>13. StreamTypes'
    <3>1. /\ down' \in {<<>>, down} /\ open' \in {open, open \ {"parent"}}
          /\ UNCHANGED <<up, handler, left>>
      BY <1>15 DEF ParentCrash
    <3> QED
      BY <1>1, <3>1
  <2>14. PieceTypes'
    BY <1>1, <1>15 DEF ParentCrash
  <2> HIDE DEF ParentTypes, ThreadTypes, StreamTypes, PieceTypes
  <2> QED
    BY <2>11, <2>12, <2>13, <2>14
<1>18. CASE Connect
  <2>1. Frame(Request, RequestBody) \in Seq(Piece)
    BY Bodies, FrameParts
  <2> QED
    BY <1>1, <1>18, <2>1 DEF Connect
<1>19. CASE WritePiece
  <2>1. /\ toSend # <<>> /\ Len(up) < Window
        /\ up' = Append(up, Head(toSend)) /\ toSend' = Tail(toSend)
    BY <1>19 DEF WritePiece, RequestInv
  <2>2. toSend' \in Seq(Piece) /\ up' \in Seq(Piece) /\ Len(up') <= Window
    BY <2>1, PutFits
  <2>3. /\ thread' \in {"send", "header"} /\ ioLeft' = ParentIo
        /\ UNCHANGED <<parentVars, poolVars, peer, target, age, want, got, down, open, handlerVars>>
    BY <1>19 DEF WritePiece
  <2> QED
    BY <2>2, <2>3
<1>20. CASE TakesHeader
  <2>1. thread = "header" /\ down # <<>> /\ down' = Tail(down)
    BY <1>20 DEF TakesHeader, ReadHeader
  <2>2. down' \in Seq(Piece) /\ Len(down') <= Window
    BY <2>1, TakeFits
  <2>3. PICK n \in 0..2 : Head(down).len = n
    BY <2>1, MessageLength
  <2>4. /\ thread' = "body" /\ ioLeft' = ParentIo /\ want' = n
        /\ UNCHANGED <<parentVars, poolVars, peer, target, age, toSend, got, up, open, handlerVars>>
    BY <1>20, <2>3 DEF TakesHeader, ReadHeader
  <2> QED
    BY <2>2, <2>4
<1>21. CASE ReadPiece
  <2>1. down # <<>> /\ down' = Tail(down) /\ got' = Append(got, Head(down))
    BY <1>21 DEF ReadPiece
  <2>2. down' \in Seq(Piece) /\ Len(down') <= Window
    BY <2>1, TakeFits
  <2>3. got' \in Seq(Piece)
    BY <2>1, Moves
  <2>4. /\ ioLeft' = ParentIo
        /\ UNCHANGED <<parentVars, poolVars, thread, peer, target, age, toSend, want, up, open,
                       handlerVars>>
    BY <1>21 DEF ReadPiece
  <2> QED
    BY <2>2, <2>3, <2>4
<1>22. CASE OtherCloses
  BY <1>1, <1>22 DEF OtherCloses
<1>23. ASSUME NEW e \in Enclaves, OtherConnects(e) PROVE TypeInv'
  <2>1. PICK f \in OtherFrames : up' = f
    BY <1>23 DEF OtherConnects
  <2>3. f \in Seq(Piece) /\ Len(f) <= 1
    BY OtherFramesTyped
  <2>11. ParentTypes'
    BY <1>1, <1>23, <2>1, <2>3 DEF OtherConnects
  <2>12. ThreadTypes'
    BY <1>1, <1>23, <2>1, <2>3 DEF OtherConnects
  <2>13. StreamTypes'
    BY <1>1, <1>23, <2>1, <2>3 DEF OtherConnects
  <2>14. PieceTypes'
    BY <1>1, <1>23, <2>1, <2>3 DEF OtherConnects
  <2> HIDE DEF ParentTypes, ThreadTypes, StreamTypes, PieceTypes
  <2> QED
    BY <2>11, <2>12, <2>13, <2>14
<1>24. ASSUME NEW e \in Enclaves, Crash(e) PROVE TypeInv'
  <2>11. ParentTypes'
    BY <1>1, <1>24 DEF Crash
  <2>12. ThreadTypes'
    BY <1>1, <1>24 DEF Crash
  <2>13. StreamTypes'
    <3>1. CASE e = target
      BY <1>1, <1>24, <3>1 DEF Crash
    <3>2. CASE e # target
      BY <1>24, <3>2 DEF Crash
    <3> QED
      BY <3>1, <3>2
  <2>14. PieceTypes'
    BY <1>1, <1>24 DEF Crash
  <2> HIDE DEF ParentTypes, ThreadTypes, StreamTypes, PieceTypes
  <2> QED
    BY <2>11, <2>12, <2>13, <2>14
<1>25. CASE Drops
  <2>1. Reject => TypeInv'
    BY <1>1 DEF Reject, HangUp
  <2>2. Finish => TypeInv'
    BY <1>1 DEF Finish, HangUp
  <2> QED
    BY <1>24, <1>25, <2>1, <2>2 DEF Drops
<1>26. CASE Accept
  BY <1>26 DEF Accept, Hang
<1>27. CASE Enqueue
  BY <1>27 DEF Enqueue, Hang
<1>28. CASE KmsAnswers
  BY <1>28 DEF KmsAnswers, Hang
<1>29. CASE RecvHeader \/ RecvBody
  <2>2. up # <<>> /\ up' = Tail(up) /\ UNCHANGED <<enclaveFrame, down, open>>
    BY <1>29 DEF RecvHeader, RecvBody
  <2>3. up' \in Seq(Piece) /\ Len(up') <= Window
    BY <2>2, TakeFits
  <2>4. /\ handler' \in {"body", "queue", "error"} /\ left' \in {0, EnclaveIo}
        /\ reply' \in {reply, Frame(Response, ErrorBody)}
    BY <1>29 DEF RecvHeader, RecvBody, Hang, StartError
  <2>11. ParentTypes'
    BY <2>2
  <2>12. ThreadTypes'
    BY <2>2
  <2>13. StreamTypes'
    BY <2>2, <2>3, <2>4
  <2>14. PieceTypes'
    BY <1>3, <2>2, <2>3, <2>4
  <2> HIDE DEF ParentTypes, ThreadTypes, StreamTypes, PieceTypes
  <2> QED
    BY <2>11, <2>12, <2>13, <2>14
<1>30. CASE Errs
  <2>1. StartError /\ UNCHANGED <<enclaveFrame, streamVars>>
    BY <1>30 DEF Errs, RecvFails, Refuse, KmsFails, KmsTimeout, SendFails
  <2> QED
    BY <1>3, <2>1 DEF StartError
<1>31. CASE Compute
  <2>1. /\ handler' \in {"reply", "error"} /\ left' = EnclaveIo /\ reply' \in Seq(Piece)
        /\ UNCHANGED <<enclaveFrame, streamVars>>
    BY <1>2, <1>3, <1>31
  <2> QED
    BY <2>1
<1>32. CASE SendPiece
  <2>1. /\ reply # <<>> /\ Len(down) < Window
        /\ down' = Append(down, Head(reply)) /\ reply' = Tail(reply)
    BY <1>32 DEF SendPiece
  <2>2. reply' \in Seq(Piece) /\ down' \in Seq(Piece) /\ Len(down') <= Window
    BY <2>1, PutFits
  <2>3. left' = EnclaveIo /\ UNCHANGED <<enclaveFrame, handler, up, open>>
    BY <1>32 DEF SendPiece
  <2> QED
    BY <2>2, <2>3
<1> QED
  BY <1>5, <1>6, <1>7, <1>8, <1>9, <1>10, <1>11, <1>12, <1>13, <1>14, <1>15, <1>17,
     <1>18, <1>19, <1>20, <1>21, <1>22, <1>23, <1>24, <1>25, <1>26, <1>27, <1>28,
     <1>29, <1>30, <1>31, <1>32, <1>33, Steps DEF Elsewhere

-----------------------------------------------------------------------------
(* What steps do, by what the rest of the proof needs of them.             *)

\* The steps that leave the thread, the stream and the handler alone.
LEMMA ElsewhereUnchanged ==
  ASSUME Elsewhere \/ \E e \in Enclaves : Crash(e) /\ e # target
  PROVE  UNCHANGED <<threadVars, streamVars, handlerVars>>
BY DEF Elsewhere, Arrive, NoCredentials, HttpTimeout, Close, Stop, Exit, Restart, Refresh, Launch,
       Crash

\* The steps after which the thread is not at work on the stream.
LEMMA NotAtWork ==
  ASSUME \/ Dispatch \/ ParentCrash \/ Returns \/ OtherCloses
         \/ \E e \in Enclaves : OtherConnects(e),
         StreamInv, ClockInv
  PROVE  /\ thread' \in {"none", "connect"} /\ age' = 0
         /\ thread' = "connect" => got' = <<>>
<1>1. CASE Dispatch \/ ParentCrash
  BY <1>1 DEF Dispatch, ParentCrash
<1>2. CASE Returns
  BY <1>2 DEF Returns, ConnectFails, WriteFails, Decode, ReadFails, IoError, Return
<1>3. CASE OtherCloses \/ \E e \in Enclaves : OtherConnects(e)
  <2>1. thread = "none" /\ UNCHANGED <<thread, age>>
    BY <1>3 DEF OtherCloses, OtherConnects, StreamInv
  <2> QED
    BY <2>1 DEF ClockInv
<1> QED
  BY <1>1, <1>2, <1>3

\* The enclave's end is dropped.
LEMMA DropsEnd ==
  ASSUME Drops
  PROVE  /\ handler' = "none" /\ open' = open \ {"enclave"} /\ UNCHANGED <<threadVars, http, down>>
BY DEF Drops, Reject, Finish, Crash, HangUp, enclaveFrame, parentVars

\* While the thread is at work the enclave waits for none of its calls in vain.
LEMMA ErrsAtWork ==
  ASSUME IInv, Errs, Active
  PROVE  /\ handler \in {"queue", "kms"} /\ handler' = "error"
         /\ reply' = Frame(Response, ErrorBody) /\ left' = EnclaveIo
         /\ UNCHANGED <<enclaveFrame, streamVars>>
<1>1. ~ClientFails \/ handler \notin {"header", "body", "reply"}
  BY DEF IInv, StreamInv, ClockInv, ClientFails
<1>2. ~RecvFails /\ ~SendFails
  BY <1>1 DEF RecvFails, SendFails
<1> QED
  BY <1>2 DEF Errs, Refuse, KmsFails, KmsTimeout, StartError

\* The enclave takes the header of the request for what it is.
LEMMA RecvHeaderAtWork ==
  ASSUME IInv, RecvHeader, Active
  PROVE  /\ handler' = "body" /\ left' = EnclaveIo /\ up' = Tail(up)
         /\ up \in Seq(Piece) /\ up # <<>> /\ up \o toSend = Frame(Request, RequestBody)
         /\ UNCHANGED <<enclaveFrame, reply, down, open>>
<1>1. up # <<>> /\ handler = "header" /\ up' = Tail(up) /\ UNCHANGED <<enclaveFrame, down, open>>
  BY DEF RecvHeader
<1>2. up \in Seq(Piece) /\ toSend \in Seq(Piece)
  BY DEF IInv, TypeInv, PieceTypes
<1>3. up \o toSend = Frame(Request, RequestBody)
  BY <1>1 DEF IInv, RequestInv
<1>4. Head(up) = Head(Frame(Request, RequestBody))
  BY <1>1, <1>2, <1>3, Takes
<1>5. Head(up) = Header(WIRE_VERSION, Request, 1)
  BY <1>4, Bodies, FrameParts
<1>6. HeaderOk(Head(up), Request)
  BY <1>5, Headers DEF HeaderOk, WIRE_VERSION, Request, MAX_FRAME_BODY_SIZE
<1> QED
  BY <1>1, <1>2, <1>3, <1>6 DEF RecvHeader, Hang

\* The parent has never read more than the header announced.
LEMMA ReadsNoMore ==
  ASSUME IInv, thread = "body"
  PROVE  \E m \in Messages, rest \in Seq(Piece) :
           /\ want = Len(m) /\ got \o (down \o rest) = m /\ down \o rest \in Seq(Piece)
           /\ handler \in {"reply", "error"} => reply = rest
           /\ Len(got) <= want /\ (Len(got) = want => got = m)
           /\ down # <<>> => Len(got) < want
<1>1. PICK m \in Messages, rest \in Seq(Piece) :
        /\ want = Len(m) /\ got \o (down \o rest) = m
        /\ handler \in {"reply", "error"} => reply = rest
  BY DEF IInv, ResponseInv
<1>2. got \in Seq(Piece) /\ down \in Seq(Piece)
  BY DEF IInv, TypeInv, PieceTypes
<1>3. PICK t \in Seq(Piece) : t = down \o rest
  BY <1>2, ConcatProperties
<1>4. /\ Len(got) \in Nat /\ Len(t) \in Nat /\ Len(down) \in Nat /\ Len(rest) \in Nat
      /\ Len(got \o t) = Len(got) + Len(t) /\ Len(t) = Len(down) + Len(rest)
  BY <1>2, <1>3, LenProperties, ConcatProperties
<1>5. Len(m) = Len(got) + Len(t)
  BY <1>1, <1>3, <1>4
<1>6. ASSUME Len(got) = want PROVE got = m
  <2>1. t = <<>>
    BY <1>1, <1>4, <1>5, <1>6, EmptySeq
  <2> QED
    BY <1>1, <1>2, <1>3, <2>1, ConcatEmptySeq
<1>7. ASSUME down # <<>> PROVE Len(got) < want
  <2>1. Len(down) # 0
    BY <1>2, <1>7, EmptySeq
  <2> QED
    BY <1>1, <1>4, <1>5, <2>1
<1>8. Len(got) <= want
  BY <1>1, <1>4, <1>5
<1> QED
  BY <1>1, <1>3, <1>6, <1>7, <1>8

\* While the thread is at work time passes only when it waits for the header
\* of the response, and the enclave for its worker or for KMS.
LEMMA TicksAtWork ==
  ASSUME IInv, Tick, Active
  PROVE  thread = "header" /\ ioLeft > 0 /\ handler \in {"queue", "kms", "compute"}
<1>1. ~ParentCanRun /\ ~EnclaveCanRun
  BY DEF Tick, CanRun
<1>2. ioLeft \in Nat /\ Len(up) \in Nat /\ Len(down) \in Nat /\ up \in Seq(Piece)
  BY PathAssumption, LenProperties DEF IInv, TypeInv, ThreadTypes, PieceTypes
<1>3. thread = "body" => (Whole \/ down = <<>> \/ Len(got) < want)
  BY ReadsNoMore
<1>4. ~CallFails
  BY <1>1, <1>3 DEF ParentCanRun, Active
<1>5. handler # "none" /\ ioLeft > 0
  BY <1>2, <1>4 DEF CallFails, IInv, StreamInv
<1>6. up = <<>> => Len(up) < Window
  BY EmptySeq, PathAssumption
<1>7. handler \notin {"header", "body"}
  <2>1. SUFFICES ASSUME handler \in {"header", "body"} PROVE FALSE
    OBVIOUS
  <2>2. up = <<>>
    BY <1>1, <2>1 DEF EnclaveCanRun
  <2>3. thread # "send"
    BY <1>1, <1>6, <2>2 DEF ParentCanRun
  <2>4. toSend = <<>>
    BY <2>3 DEF IInv, RequestInv, Active
  <2>5. up \o toSend = <<>>
    BY <2>2, <2>4, ConcatEmptySeq, EmptySeq
  <2>6. up \o toSend # <<>>
    BY <2>1, Bodies, FrameParts DEF IInv, RequestInv
  <2> QED
    BY <2>5, <2>6
<1>8. handler \in {"queue", "kms", "compute", "reply", "error"}
  BY <1>1, <1>5, <1>7 DEF EnclaveCanRun, IInv, TypeInv, StreamTypes
<1>9. thread # "send"
  <2>1. up \o toSend = <<>>
    BY <1>8 DEF IInv, RequestInv
  <2>2. toSend = <<>>
    BY <1>2, <2>1, ConcatSimplifications DEF IInv, TypeInv, PieceTypes
  <2> QED
    BY <2>2 DEF IInv, RequestInv
<1>10. handler \notin {"reply", "error"}
  <2>1. SUFFICES ASSUME handler \in {"reply", "error"} PROVE FALSE
    OBVIOUS
  <2>2. down # <<>>
    BY <1>1, <1>6, <2>1, EmptySeq, PathAssumption DEF EnclaveCanRun
  <2>3. thread = "body"
    BY <1>1, <1>9, <2>2 DEF ParentCanRun, Active
  <2>4. Len(got) < want
    BY <2>2, <2>3, ReadsNoMore
  <2> QED
    BY <1>1, <2>2, <2>3, <2>4 DEF ParentCanRun
<1>11. handler \in {"queue", "kms", "compute"}
  BY <1>8, <1>10
<1>12. thread # "body"
  BY <1>11 DEF IInv, ResponseInv, Active
<1> QED
  BY <1>5, <1>9, <1>11, <1>12 DEF Active

-----------------------------------------------------------------------------
(* Each part of the invariant is preserved.                                *)

LEMMA StreamStep ==
  ASSUME IInv, Next
  PROVE  StreamInv'
<1> USE DEF StreamInv, Active
<1>1. StreamInv
  BY DEF IInv
<1>2. CASE Elsewhere
  <2>1. UNCHANGED <<thread, peer, open, handler>>
    BY <1>2, ElsewhereUnchanged DEF threadVars, streamVars, handlerVars
  <2>2. peer = "other" => http' = "idle"
    BY <1>1, <1>2 DEF Elsewhere, Arrive, NoCredentials, HttpTimeout, Close, Stop, Exit, Restart,
                      Refresh, Launch, parentVars
  <2> QED
    BY <1>1, <2>1, <2>2
<1>3. CASE Dispatch
  BY <1>1, <1>3 DEF Dispatch, streamVars, handlerVars
<1>4. CASE ParentCrash
  <2>1. /\ thread' = "none" /\ http' = "idle" /\ UNCHANGED handler
        /\ (peer = "other" /\ open' = open) \/ (peer' = None /\ open' = open \ {"parent"})
    BY <1>4 DEF ParentCrash, streamVars, handlerVars
  <2> QED
    BY <1>1, <2>1, PathAssumption
<1>5. CASE Returns
  <2>1. /\ thread' = "none" /\ UNCHANGED handler
        /\ peer' = None /\ open' = open \ {"parent"}
    BY <1>5, ReturnsSomething DEF Return, handlerVars, IInv, TypeInv
  <2> QED
    BY <1>1, <2>1, PathAssumption
<1>6. CASE Connect
  BY <1>6 DEF Connect
<1>7. CASE WritePiece \/ TakesHeader \/ ReadPiece
  <2>1. thread \in {"send", "header", "body"} /\ UNCHANGED <<peer, open, handler>>
    BY <1>7 DEF WritePiece, TakesHeader, ReadHeader, ReadPiece, handlerVars
  <2> QED
    BY <1>1, <2>1
<1>8. CASE OtherCloses
  BY <1>1, <1>8, PathAssumption DEF OtherCloses, handlerVars
<1>9. ASSUME NEW e \in Enclaves, OtherConnects(e) PROVE StreamInv'
  BY <1>9 DEF OtherConnects, parentVars
<1>10. ASSUME NEW e \in Enclaves, Crash(e), e # target PROVE StreamInv'
  BY <1>1, <1>10 DEF Crash, parentVars, threadVars, streamVars, handlerVars
<1>11. CASE Drops
  <2>1. /\ handler' = "none" /\ open' = open \ {"enclave"} /\ UNCHANGED <<thread, peer, http>>
    BY <1>11, DropsEnd DEF threadVars
  <2> QED
    BY <1>1, <2>1
<1>12. CASE Accept \/ RecvHeader \/ RecvBody \/ Errs \/ Enqueue \/ KmsAnswers \/ SendPiece
  <2>1. handler # "none" /\ handler' # "none" /\ UNCHANGED <<thread, peer, http, open>>
    BY <1>12 DEF Accept, RecvHeader, RecvBody, Errs, RecvFails, Refuse, KmsFails, KmsTimeout,
                 SendFails, StartError, Hang, Enqueue, KmsAnswers, SendPiece, enclaveFrame,
                 parentVars, threadVars, streamVars
  <2> QED
    BY <1>1, <2>1
<1>13. CASE Compute
  <2>1. handler # "none" /\ handler' # "none" /\ UNCHANGED <<thread, peer, http, open>>
    BY <1>13, Computes DEF enclaveFrame, parentVars, threadVars, streamVars
  <2> QED
    BY <1>1, <2>1
<1>14. CASE Tick
  BY <1>1, <1>14 DEF Tick, streamVars
<1> QED
  BY <1>2, <1>3, <1>4, <1>5, <1>6, <1>7, <1>8, <1>9, <1>10, <1>11, <1>12, <1>13, <1>14, Steps

LEMMA RequestStep ==
  ASSUME IInv, Next
  PROVE  RequestInv'
<1> USE DEF RequestInv, Active
<1>1. RequestInv
  BY DEF IInv
<1>2. /\ up \in Seq(Piece) /\ toSend \in Seq(Piece)
      /\ thread \in {"none", "connect", "send", "header", "body"}
      /\ handler \in {"none", "backlog", "header", "body", "queue", "kms", "compute", "reply", "error"}
  BY DEF IInv, TypeInv, PieceTypes, ThreadTypes, StreamTypes
<1>3. CASE Elsewhere \/ (\E e \in Enclaves : Crash(e) /\ e # target) \/ Tick
  <2>1. UNCHANGED <<thread, toSend, up, down, handler>>
    BY <1>3, ElsewhereUnchanged DEF threadVars, streamVars, handlerVars, Tick
  <2> QED
    BY <1>1, <2>1
<1>4. CASE \/ Dispatch \/ ParentCrash \/ Returns \/ OtherCloses
           \/ \E e \in Enclaves : OtherConnects(e)
  <2>1. thread' \in {"none", "connect"}
    BY <1>4, NotAtWork DEF IInv
  <2> QED
    BY <2>1
<1>5. CASE Connect
  <2>1. PICK f : f = Frame(Request, RequestBody)
    OBVIOUS
  <2>2. f # <<>> /\ <<>> \o f = f
    BY <2>1, Bodies, FrameParts, ConcatEmptySeq
  <2>3. thread' = "send" /\ toSend' = f /\ up' = <<>> /\ down' = <<>> /\ handler' = "backlog"
    BY <1>5, <2>1 DEF Connect
  <2> QED
    BY <2>1, <2>2, <2>3
<1>6. CASE WritePiece
  <2>1. /\ thread = "send" /\ toSend # <<>> /\ down = <<>>
        /\ up' = Append(up, Head(toSend)) /\ toSend' = Tail(toSend)
        /\ thread' = IF toSend' = <<>> THEN "header" ELSE "send"
        /\ UNCHANGED <<down, handler>>
    BY <1>1, <1>6 DEF WritePiece, handlerVars
  <2>2. PICK u, t : u = Append(up, Head(toSend)) /\ t = Tail(toSend)
    OBVIOUS
  <2>3. u \o t = up \o toSend
    <3>1. Append(up, Head(toSend)) \o Tail(toSend) = up \o toSend
      BY <1>2, <2>1, Moves
    <3> QED
      BY <2>2, <3>1
  <2>4. up' = u /\ toSend' = t
    BY <2>1, <2>2
  <2> QED
    BY <1>1, <2>1, <2>3, <2>4
<1>7. CASE TakesHeader \/ ReadPiece
  <2>1. /\ thread \in {"header", "body"} /\ thread' \in {"header", "body"}
        /\ UNCHANGED <<toSend, up, handler>>
    BY <1>7 DEF TakesHeader, ReadHeader, ReadPiece, handlerVars
  <2> QED
    BY <1>1, <2>1
<1>8. CASE Drops
  <2>1. handler' = "none" /\ UNCHANGED <<thread, toSend, down>>
    BY <1>8, DropsEnd DEF threadVars
  <2> QED
    BY <1>1, <2>1
<1>9. CASE Accept \/ Enqueue \/ KmsAnswers
  <2>1. /\ UNCHANGED <<thread, toSend, up, down>>
        /\ \/ handler = "backlog" /\ handler' = "header"
           \/ handler = "queue" /\ handler' = "kms"
           \/ handler = "kms" /\ handler' = "compute"
    BY <1>9 DEF Accept, Enqueue, KmsAnswers, Hang, enclaveFrame, threadVars, streamVars
  <2> QED
    BY <1>1, <2>1
<1>10. ASSUME RecvHeader \/ RecvBody \/ Errs, ~Active PROVE RequestInv'
  <2>1. UNCHANGED thread
    BY <1>10 DEF RecvHeader, RecvBody, Errs, RecvFails, Refuse, KmsFails, KmsTimeout, SendFails,
                 enclaveFrame, threadVars
  <2> QED
    BY <1>10, <2>1
<1>11. CASE RecvHeader /\ Active
  <2>1. /\ handler' = "body" /\ up' = Tail(up) /\ up # <<>>
        /\ up \o toSend = Frame(Request, RequestBody)
        /\ UNCHANGED <<thread, toSend, down>>
    BY <1>11, RecvHeaderAtWork DEF enclaveFrame, threadVars
  <2>2. PICK t : t = Tail(up)
    OBVIOUS
  <2>3. t \o toSend = RequestBody
    <3>1. Tail(up \o toSend) = Tail(up) \o toSend
      BY <1>2, <2>1, Takes
    <3>2. Tail(Frame(Request, RequestBody)) = RequestBody
      BY Bodies, FrameParts
    <3> QED
      BY <2>1, <2>2, <3>1, <3>2
  <2>4. up' = t
    BY <2>1, <2>2
  <2> QED
    BY <1>1, <2>1, <2>3, <2>4
<1>12. CASE RecvBody /\ Active
  <2>1. /\ handler = "body" /\ handler' = "queue" /\ up' = Tail(up) /\ up # <<>>
        /\ UNCHANGED <<thread, toSend, down>>
    BY <1>12 DEF RecvBody, enclaveFrame, threadVars
  <2>2. PICK t : t = Tail(up)
    OBVIOUS
  <2>3. t \o toSend = <<>>
    <3>1. Tail(up \o toSend) = Tail(up) \o toSend
      BY <1>2, <2>1, Takes
    <3>2. up \o toSend = RequestBody
      BY <1>1, <1>12, <2>1
    <3> QED
      BY <2>2, <3>1, <3>2, Bodies
  <2>4. up' = t
    BY <2>1, <2>2
  <2> QED
    BY <1>1, <2>1, <2>3, <2>4
<1>13. CASE Errs /\ Active
  <2>1. /\ handler \in {"queue", "kms"} /\ handler' = "error"
        /\ UNCHANGED <<thread, toSend, up, down>>
    BY <1>13, ErrsAtWork DEF enclaveFrame, threadVars, streamVars
  <2> QED
    BY <1>1, <2>1
<1>14. CASE Compute
  <2>1. /\ handler = "compute" /\ handler' \in {"reply", "error"}
        /\ UNCHANGED <<thread, toSend, up, down>>
    BY <1>14, Computes DEF enclaveFrame, threadVars, streamVars
  <2> QED
    BY <1>1, <2>1
<1>15. CASE SendPiece
  <2>1. handler \in {"reply", "error"} /\ UNCHANGED <<thread, toSend, up, handler>>
    BY <1>15 DEF SendPiece, enclaveFrame, threadVars
  <2>2. thread # "send"
    BY <1>1, <1>2, <2>1, ConcatSimplifications
  <2> QED
    BY <1>1, <2>1, <2>2
<1> QED
  BY <1>3, <1>4, <1>5, <1>6, <1>7, <1>8, <1>9, <1>10, <1>11, <1>12, <1>13, <1>14, <1>15, Steps

LEMMA ResponseStep ==
  ASSUME IInv, Next
  PROVE  ResponseInv'
<1> USE DEF Active
<1>1. ResponseInv
  BY DEF IInv
<1>2. /\ up \in Seq(Piece) /\ toSend \in Seq(Piece) /\ down \in Seq(Piece) /\ got \in Seq(Piece)
      /\ reply \in Seq(Piece)
      /\ thread \in {"none", "connect", "send", "header", "body"}
      /\ handler \in {"none", "backlog", "header", "body", "queue", "kms", "compute", "reply", "error"}
  BY DEF IInv, TypeInv, PieceTypes, ThreadTypes, StreamTypes
<1>3. CASE Elsewhere \/ (\E e \in Enclaves : Crash(e) /\ e # target) \/ Tick
  <2>1. UNCHANGED <<thread, got, want, down, handler, reply>>
    BY <1>3, ElsewhereUnchanged DEF threadVars, streamVars, handlerVars, Tick
  <2> QED
    BY <1>1, <2>1 DEF ResponseInv
<1>4. CASE \/ Dispatch \/ ParentCrash \/ Returns \/ OtherCloses
           \/ \E e \in Enclaves : OtherConnects(e)
  <2>1. thread' \in {"none", "connect"} /\ (thread' = "connect" => got' = <<>>)
    BY <1>4, NotAtWork DEF IInv
  <2> QED
    BY <2>1 DEF ResponseInv
<1>5. CASE Connect
  <2>1. got = <<>> /\ thread' = "send" /\ down' = <<>> /\ UNCHANGED got
    BY <1>1, <1>5 DEF Connect, ResponseInv
  <2> QED
    BY <2>1 DEF ResponseInv
<1>6. CASE WritePiece
  <2>1. /\ thread = "send" /\ thread' \in {"send", "header"} /\ got = <<>>
        /\ toSend # <<>> /\ down = <<>>
        /\ UNCHANGED <<got, down, handler>>
    BY <1>1, <1>6 DEF WritePiece, handlerVars, IInv, RequestInv, ResponseInv
  <2>2. handler \notin {"reply", "error"}
    BY <1>2, <2>1, ConcatSimplifications DEF IInv, RequestInv
  <2>3. PICK f \in Seq(Piece) : f = Frame(Response, ErrorBody)
    BY Bodies, FrameParts
  <2>4. <<>> \o f = f
    BY ConcatEmptySeq
  <2>5. \E m \in Messages, rest \in Seq(Piece) : down' \o rest = Frame(Response, m)
    BY <2>1, <2>3, <2>4 DEF Messages
  <2> QED
    BY <2>1, <2>2, <2>5 DEF ResponseInv
<1>7. CASE TakesHeader
  <2>1. /\ thread = "header" /\ thread' = "body" /\ down # <<>> /\ down' = Tail(down)
        /\ want' = Head(down).len /\ got = <<>>
        /\ UNCHANGED <<got, handler, reply>>
    BY <1>1, <1>7 DEF TakesHeader, ReadHeader, handlerVars, ResponseInv
  <2>2. PICK m \in Messages, rest \in Seq(Piece) :
          /\ m \in Seq(Piece) /\ Head(down).len = Len(m) /\ Tail(down) \o rest = m
          /\ handler \in {"reply", "error"} => reply = rest
    BY <1>1, <2>1, HeaderOfMessage DEF IInv, TypeInv
  <2>3. PICK t : t = Tail(down)
    OBVIOUS
  <2>4. down' = t /\ want' = Len(m) /\ got' = <<>>
    BY <2>1, <2>2, <2>3
  <2>5. <<>> \o (t \o rest) = m
    BY <2>2, <2>3, ConcatEmptySeq
  <2>6. handler \in {"none", "reply", "error"}
    BY <1>1, <2>1 DEF ResponseInv
  <2> QED
    BY <2>1, <2>2, <2>4, <2>5, <2>6 DEF ResponseInv
<1>8. CASE ReadPiece
  <2>1. /\ thread = "body" /\ down # <<>> /\ down' = Tail(down) /\ got' = Append(got, Head(down))
        /\ UNCHANGED <<thread, want, handler, reply>>
    BY <1>8 DEF ReadPiece, handlerVars
  <2>2. PICK m \in Messages, rest \in Seq(Piece) :
          /\ want = Len(m) /\ got \o (down \o rest) = m
          /\ handler \in {"reply", "error"} => reply = rest
    BY <1>1, <2>1 DEF ResponseInv
  <2>3. PICK w \in Seq(Piece), t \in Seq(Piece), g \in Seq(Piece) :
          w = down \o rest /\ t = Tail(down) /\ g = Append(got, Head(down))
    BY <1>2, <2>1, ConcatProperties, Moves
  <2>4. /\ w # <<>> /\ Head(w) = Head(down) /\ Tail(w) = t \o rest
    <3>1. /\ down \o rest # <<>> /\ Head(down \o rest) = Head(down)
          /\ Tail(down \o rest) = Tail(down) \o rest
      <4>1. down \in Seq(Piece) /\ rest \in Seq(Piece) /\ down # <<>>
        BY <1>2, <2>1
      <4> QED
        BY <4>1, Takes
    <3> QED
      BY <2>3, <3>1
  <2>5. Append(got, Head(w)) \o Tail(w) = got \o w
    <3>1. got \in Seq(Piece) /\ w \in Seq(Piece) /\ w # <<>>
      BY <1>2, <2>3, <2>4
    <3> QED
      BY <3>1, Moves
  <2>6. g \o (t \o rest) = m
    BY <2>2, <2>3, <2>4, <2>5
  <2>7. down' = t /\ got' = g
    BY <2>1, <2>3
  <2>8. handler \in {"none", "reply", "error"}
    BY <1>1, <2>1 DEF ResponseInv
  <2> QED
    BY <2>1, <2>2, <2>6, <2>7, <2>8 DEF ResponseInv
<1>9. CASE Drops
  <2>1. handler' = "none" /\ UNCHANGED <<thread, got, want, down>>
    BY <1>9, DropsEnd DEF threadVars
  <2> QED
    BY <1>1, <2>1 DEF ResponseInv
<1>10. ASSUME RecvHeader \/ RecvBody \/ Errs \/ Compute, ~Active PROVE ResponseInv'
  <2>1. UNCHANGED <<thread, got>>
    BY <1>10 DEF RecvHeader, RecvBody, Errs, RecvFails, Refuse, KmsFails, KmsTimeout, SendFails,
                 Compute, enclaveFrame, threadVars
  <2> QED
    BY <1>1, <1>10, <2>1 DEF ResponseInv
<1>11. CASE Accept \/ (RecvHeader /\ Active) \/ RecvBody \/ Enqueue \/ KmsAnswers
  <2>1. Accept => /\ handler = "backlog" /\ handler' = "header"
                  /\ UNCHANGED <<thread, got, want, down>>
    BY DEF Accept, Hang, enclaveFrame, threadVars, streamVars
  <2>2. RecvHeader /\ Active => /\ handler = "header" /\ handler' = "body"
                                /\ UNCHANGED <<thread, got, want, down>>
    BY RecvHeaderAtWork DEF RecvHeader, enclaveFrame, threadVars
  <2>3. RecvBody => /\ handler = "body" /\ handler' = "queue"
                    /\ UNCHANGED <<thread, got, want, down>>
    BY DEF RecvBody, enclaveFrame, threadVars
  <2>4. Enqueue \/ KmsAnswers => /\ handler \in {"queue", "kms"} /\ handler' \in {"kms", "compute"}
                                 /\ UNCHANGED <<thread, got, want, down>>
    BY DEF Enqueue, KmsAnswers, Hang, enclaveFrame, threadVars, streamVars
  <2>5. /\ handler \notin {"none", "reply", "error"} /\ handler' \notin {"none", "reply", "error"}
        /\ UNCHANGED <<thread, got, want, down>>
    BY <1>11, <2>1, <2>2, <2>3, <2>4
  <2> QED
    BY <1>1, <2>5 DEF ResponseInv
<1>12. CASE (Errs /\ Active) \/ Compute
  <2>1. Errs /\ Active =>
          /\ handler \in {"queue", "kms"} /\ handler' = "error"
          /\ reply' = Frame(Response, ErrorBody)
          /\ UNCHANGED <<thread, got, want, down>>
    BY ErrsAtWork DEF enclaveFrame, threadVars, streamVars
  <2>2. Compute =>
          /\ handler = "compute" /\ handler' \in {"reply", "error"}
          /\ \E m \in Messages : reply' = Frame(Response, m)
          /\ UNCHANGED <<thread, got, want, down>>
    BY Computes DEF enclaveFrame, threadVars, streamVars
  <2>3. /\ handler \notin {"none", "reply", "error"} /\ handler' \in {"reply", "error"}
        /\ \E m \in Messages : reply' = Frame(Response, m)
        /\ UNCHANGED <<thread, got, want, down>>
    BY <1>12, <2>1, <2>2 DEF Messages
  <2>4. PICK m \in Messages : reply' = Frame(Response, m)
    BY <2>3
  <2>5. PICK f \in Seq(Piece) : f = Frame(Response, m) /\ <<>> \o f = f
    <3>1. m \in Seq(Piece)
      BY Bodies DEF Messages
    <3>2. Frame(Response, m) \in Seq(Piece)
      BY <3>1, FrameParts
    <3> QED
      BY <3>2, ConcatEmptySeq
  <2>6. Active => thread # "body" /\ down = <<>>
    BY <1>1, <2>3 DEF ResponseInv
  <2>7. thread' = "header" =>
          \E n \in Messages, rest \in Seq(Piece) :
            down' \o rest = Frame(Response, n) /\ reply' = rest
    BY <2>3, <2>4, <2>5, <2>6
  <2> QED
    BY <1>1, <2>3, <2>6, <2>7 DEF ResponseInv
<1>13. CASE SendPiece
  <2>1. /\ handler \in {"reply", "error"} /\ reply # <<>>
        /\ down' = Append(down, Head(reply)) /\ reply' = Tail(reply)
        /\ UNCHANGED <<thread, got, want, handler>>
    BY <1>13 DEF SendPiece, enclaveFrame, threadVars
  <2>2. PICK d, t \in Seq(Piece) : d = Append(down, Head(reply)) /\ t = Tail(reply)
    BY <1>2, <2>1, Moves
  <2>3. d \o t = down \o reply
    <3>1. Append(down, Head(reply)) \o Tail(reply) = down \o reply
      BY <1>2, <2>1, Moves
    <3> QED
      BY <2>2, <3>1
  <2>4. down' = d /\ reply' = t
    BY <2>1, <2>2
  <2>5. thread = "header" => \E m \in Messages : d \o t = Frame(Response, m)
    BY <1>1, <2>1, <2>3 DEF ResponseInv
  <2>6. thread = "body" => \E m \in Messages : want = Len(m) /\ got \o (d \o t) = m
    BY <1>1, <2>1, <2>3 DEF ResponseInv
  <2> QED
    BY <1>1, <2>1, <2>2, <2>4, <2>5, <2>6 DEF ResponseInv
<1> QED
  BY <1>3, <1>4, <1>5, <1>6, <1>7, <1>8, <1>9, <1>10, <1>11, <1>12, <1>13, Steps

LEMMA ClockStep ==
  ASSUME IInv, Next
  PROVE  ClockInv'
<1> USE DEF ClockInv, Active
<1>1. ClockInv
  BY DEF IInv
<1>2. /\ age \in Nat /\ ioLeft \in 0..ParentIo /\ ParentIo \in Nat
      /\ thread \in {"none", "connect", "send", "header", "body"}
      /\ handler \in {"none", "backlog", "header", "body", "queue", "kms", "compute", "reply", "error"}
  BY PathAssumption DEF IInv, TypeInv, ThreadTypes, StreamTypes
<1>3. EnclaveIo > 0
  BY PathAssumption
<1>4. CASE Elsewhere \/ \E e \in Enclaves : Crash(e) /\ e # target
  <2>1. UNCHANGED <<thread, age, ioLeft, handler, left>>
    BY <1>4, ElsewhereUnchanged DEF threadVars, handlerVars
  <2> QED
    BY <1>1, <2>1
<1>5. CASE \/ Dispatch \/ ParentCrash \/ Returns \/ OtherCloses
           \/ \E e \in Enclaves : OtherConnects(e)
  <2>1. thread' \in {"none", "connect"} /\ age' = 0
    BY <1>5, NotAtWork DEF IInv
  <2> QED
    BY <2>1
<1>6. CASE Connect
  <2>1. age = 0 /\ thread' = "send" /\ UNCHANGED age /\ handler' = "backlog"
    BY <1>1, <1>6 DEF Connect
  <2> QED
    BY <2>1
<1>7. CASE WritePiece
  <2>1. /\ thread = "send" /\ age = 0 /\ ioLeft' = ParentIo /\ thread' \in {"send", "header"}
        /\ UNCHANGED <<age, handler, left>>
    BY <1>1, <1>7 DEF WritePiece, handlerVars
  <2> QED
    BY <1>1, <1>2, <2>1
<1>8. CASE TakesHeader \/ ReadPiece
  <2>1. /\ thread \in {"header", "body"} /\ thread' = "body"
        /\ UNCHANGED <<age, handler, left>>
    BY <1>8 DEF TakesHeader, ReadHeader, ReadPiece, handlerVars
  <2>2. age <= ParentIo
    BY <1>1, <1>2, <2>1
  <2> QED
    BY <1>1, <2>1, <2>2
<1>9. CASE Drops
  <2>1. handler' = "none" /\ UNCHANGED <<thread, age, ioLeft>>
    BY <1>9, DropsEnd DEF threadVars
  <2> QED
    BY <1>1, <2>1
<1>10. CASE Accept \/ RecvBody \/ Enqueue \/ KmsAnswers \/ SendPiece
  <2>1. /\ handler' \in {"queue", "kms", "compute"} \/ left' = EnclaveIo
        /\ UNCHANGED <<thread, age, ioLeft>>
    BY <1>10 DEF Accept, RecvBody, Enqueue, KmsAnswers, SendPiece, Hang, enclaveFrame, threadVars
  <2> QED
    BY <1>1, <1>3, <2>1
<1>11. CASE RecvHeader \/ Errs
  <2>1. /\ left' = EnclaveIo /\ UNCHANGED <<thread, age, ioLeft>>
    BY <1>11 DEF RecvHeader, Errs, RecvFails, Refuse, KmsFails, KmsTimeout, SendFails, StartError,
                 Hang, enclaveFrame, threadVars
  <2> QED
    BY <1>1, <1>3, <2>1
<1>12. CASE Compute
  <2>1. left' = EnclaveIo /\ UNCHANGED <<thread, age, ioLeft>>
    BY <1>12, Computes DEF enclaveFrame, threadVars
  <2> QED
    BY <1>1, <1>3, <2>1
<1>13. CASE Tick
  <2>1. /\ ioLeft' = Minus1(ioLeft) /\ UNCHANGED <<thread, handler>>
        /\ age' = IF thread = "none" THEN 0 ELSE IF age > ParentIo THEN age ELSE age + 1
    BY <1>13 DEF Tick
  <2>2. CASE Active
    <3>1. thread = "header" /\ ioLeft > 0 /\ handler \in {"queue", "kms", "compute"}
      BY <1>13, <2>2, TicksAtWork
    <3>2. ioLeft' = ioLeft - 1 /\ age' \in {age, age + 1}
      BY <1>2, <2>1, <3>1 DEF Minus1
    <3> QED
      BY <1>1, <1>2, <2>1, <3>1, <3>2
  <2>3. CASE ~Active
    <3>1. thread # "connect"
      BY <1>13 DEF Tick, CanRun, ParentCanRun
    <3>2. thread = "none" /\ age' = 0
      BY <1>2, <2>1, <2>3, <3>1
    <3> QED
      BY <2>1, <3>2
  <2> QED
    BY <2>2, <2>3
<1> QED
  BY <1>4, <1>5, <1>6, <1>7, <1>8, <1>9, <1>10, <1>11, <1>12, <1>13, Steps

\* What the thread may have ended with.
Endings == {<<>>, ResponseBody, ErrorBody, <<"io error">>, <<"timeout">>}

\* The thread ends with a message or an error, and answers 200 for a response.
LEMMA Ends ==
  ASSUME IInv, Returns
  PROVE  /\ thread # "none"
         /\ \E r \in Endings, code \in {200, 500} :
              Return(r, code) /\ (code = 200 => r = ResponseBody)
<1> DEFINE Some == \E r \in Endings, code \in {200, 500} :
                     Return(r, code) /\ (code = 200 => r = ResponseBody)
<1>1. ASSUME NEW r \in Endings, Return(r, 500) PROVE Some
  BY <1>1
<1>2. ASSUME Return(ResponseBody, 200) PROVE Some
  <2>1. ResponseBody \in Endings
    BY DEF Endings
  <2> QED
    BY <1>2, <2>1
<1> HIDE DEF Some
<1>3. PICK io, late : io = <<"io error">> /\ late = <<"timeout">>
  OBVIOUS
<1>4. io \in Endings /\ late \in Endings /\ ErrorBody \in Endings
  BY <1>3 DEF Endings
<1>5. IoError => Some
  <2>1. IoError => Return(io, 500)
    BY <1>3 DEF IoError
  <2> QED
    BY <1>1, <1>4, <2>1
<1>6. ReadFails => Some
  <2>1. ReadFails => Return(late, 500) \/ Return(io, 500)
    BY <1>3 DEF ReadFails
  <2> QED
    BY <1>1, <1>4, <2>1
<1>7. ASSUME Decode PROVE Some
  <2>1. thread = "body" /\ Len(got) = want /\ Return(got, IF got = ErrorBody THEN 500 ELSE 200)
    BY <1>7 DEF Decode, Whole
  <2>2. got \in Messages
    BY <2>1, ReadsNoMore
  <2>3. CASE got = ErrorBody
    BY <1>1, <1>4, <2>1, <2>3
  <2>4. CASE got # ErrorBody
    <3>1. got = ResponseBody
      BY <2>2, <2>4 DEF Messages
    <3> QED
      BY <1>2, <2>1, <2>4, <3>1
  <2> QED
    BY <2>3, <2>4
<1>8. Some
  BY <1>5, <1>6, <1>7 DEF Returns, ConnectFails, WriteFails
<1>9. thread # "none"
  BY DEF Returns, ConnectFails, WriteFails, Decode, ReadFails
<1> QED
  BY <1>8, <1>9 DEF Some

LEMMA AnswerStep ==
  ASSUME IInv, Next
  PROVE  AnswerInv' /\ WholeMessages'
<1> DEFINE Told(h, s, t, g) ==
      /\ h # "answered" => s = 0
      /\ s = 200 => t = "none" /\ g = ResponseBody
      /\ t = "none" => g \in Endings
<1>1. Told(http, status, thread, got)
  BY DEF IInv, AnswerInv, WholeMessages, Endings
<1>2. SUFFICES Told(http', status', thread', got')
  BY DEF AnswerInv, WholeMessages, Endings
<1>3. CASE Elsewhere
  <2>1. UNCHANGED <<thread, got>>
    BY <1>3, ElsewhereUnchanged DEF threadVars
  <2>2. \/ UNCHANGED <<http, status>>
        \/ http' = "answered" /\ status' \in {404, 408, 500}
        \/ status' = 0
        \/ http = "idle" /\ UNCHANGED status
    BY <1>3 DEF Elsewhere, Arrive, NoCredentials, HttpTimeout, Close, Stop, Exit, Restart, Refresh,
                Launch, Answer, parentVars
  <2> QED
    BY <1>1, <2>1, <2>2
<1>4. CASE Dispatch
  <2>1. http = "credentials" /\ thread' = "connect" /\ UNCHANGED status
    BY <1>4 DEF Dispatch
  <2> QED
    BY <1>1, <2>1
<1>5. CASE ParentCrash
  <2>1. status' = 0 /\ got' = <<>>
    BY <1>5 DEF ParentCrash
  <2> QED
    BY <2>1 DEF Endings
<1>6. CASE Returns
  <2>1. PICK r \in Endings, code \in {200, 500} :
          Return(r, code) /\ (code = 200 => r = ResponseBody)
    BY <1>6, Ends
  <2>2. thread # "none"
    BY <1>6, Ends
  <2>3. /\ thread' = "none" /\ got' = r
        /\ \/ http' = "answered" /\ status' = code
           \/ UNCHANGED <<http, status>>
    BY <2>1 DEF Return, Answer
  <2> QED
    BY <1>1, <2>1, <2>2, <2>3
<1>7. CASE Connect \/ WritePiece \/ TakesHeader \/ ReadPiece
  <2>1. thread # "none" /\ thread' # "none" /\ UNCHANGED <<http, status>>
    BY <1>7 DEF Connect, WritePiece, TakesHeader, ReadHeader, ReadPiece, parentVars
  <2> QED
    BY <1>1, <2>1
<1>8. CASE \/ OtherCloses \/ \E e \in Enclaves : OtherConnects(e) \/ (Crash(e) /\ e # target)
           \/ Drops \/ Accept \/ RecvHeader \/ RecvBody \/ Errs \/ Enqueue \/ KmsAnswers \/ Compute
           \/ SendPiece \/ Tick
  <2>1. OtherCloses \/ (\E e \in Enclaves : OtherConnects(e)) \/ Tick =>
          UNCHANGED <<http, status, thread, got>>
    BY DEF OtherCloses, OtherConnects, Tick, parentVars
  <2>2. (\E e \in Enclaves : Crash(e)) \/ Reject \/ Finish =>
          UNCHANGED <<http, status, thread, got>>
    BY DEF Crash, Reject, Finish, HangUp, enclaveFrame, parentVars, threadVars
  <2>3. Accept \/ RecvHeader \/ RecvBody \/ Errs \/ Enqueue \/ KmsAnswers \/ Compute \/ SendPiece =>
          UNCHANGED <<http, status, thread, got>>
    BY DEF Accept, RecvHeader, RecvBody, Errs, RecvFails, Refuse, KmsFails, KmsTimeout, SendFails,
           Enqueue, KmsAnswers, Compute, SendPiece, enclaveFrame, parentVars, threadVars
  <2>4. UNCHANGED <<http, status, thread, got>>
    BY <1>8, <2>1, <2>2, <2>3 DEF Drops
  <2> QED
    BY <1>1, <2>4
<1> QED
  BY <1>3, <1>4, <1>5, <1>6, <1>7, <1>8, Steps

-----------------------------------------------------------------------------
(* The invariant and what follows from it.                                 *)

LEMMA IInvStep == IInv /\ [Next]_vars => IInv'
<1> SUFFICES ASSUME IInv, [Next]_vars PROVE IInv'
  OBVIOUS
<1>1. CASE Next
  BY <1>1, TypeStep, StreamStep, RequestStep, ResponseStep, ClockStep, AnswerStep DEF IInv
<1>2. CASE UNCHANGED vars
  <2> USE <1>2 DEF vars, parentVars, poolVars, threadVars, streamVars, handlerVars, Active
  <2>1. TypeInv'
    BY DEF IInv, TypeInv, ParentTypes, ThreadTypes, StreamTypes, PieceTypes
  <2>2. StreamInv' /\ RequestInv'
    BY DEF IInv, StreamInv, RequestInv
  <2>3. ResponseInv'
    BY DEF IInv, ResponseInv
  <2>4. ClockInv' /\ AnswerInv'
    BY DEF IInv, ClockInv, AnswerInv
  <2>5. WholeMessages'
    <3>1. WholeMessages /\ UNCHANGED <<thread, got, status>>
      BY DEF IInv
    <3> QED
      BY <3>1 DEF WholeMessages
  <2> QED
    BY <2>1, <2>2, <2>3, <2>4, <2>5 DEF IInv
<1> QED
  BY <1>1, <1>2

LEMMA IInvInvariant == Spec => []IInv
BY InitIInv, IInvStep, PTL DEF Spec

\* What the enclave has yet to write is what is left of a frame within the
\* limit: nobody writes what was not measured.
ReplyFits == Len(reply) <= MAX_FRAME_BODY_SIZE + 1

\* A step leaves the reply alone, begins one, writes a piece or gives it up.
LEMMA ReplySteps ==
  ASSUME Next
  PROVE  \/ reply' \in {reply, <<>>, Frame(Response, ErrorBody), Frame(Response, ResponseBody)}
         \/ reply # <<>> /\ reply' = Tail(reply)
<1> USE DEF parentVars, poolVars, threadVars, streamVars, handlerVars, enclaveFrame
<1>1. CASE Elsewhere
  BY <1>1, ElsewhereUnchanged
<1>2. CASE Dispatch \/ ParentCrash \/ Connect \/ WritePiece \/ ReadPiece \/ OtherCloses
           \/ \E e \in Enclaves : OtherConnects(e)
  BY <1>2 DEF Dispatch, ParentCrash, Connect, WritePiece, ReadPiece, OtherCloses, OtherConnects
<1>3. CASE Returns \/ TakesHeader
  BY <1>3 DEF Returns, TakesHeader, ConnectFails, WriteFails, Decode, ReadFails, IoError,
              Return, ReadHeader
<1>4. ASSUME NEW e \in Enclaves, Crash(e) PROVE reply' \in {reply, <<>>}
  BY <1>4 DEF Crash
<1>5. CASE Drops
  BY <1>4, <1>5 DEF Drops, Reject, Finish, HangUp
<1>6. CASE Accept \/ Enqueue \/ KmsAnswers \/ Tick
  BY <1>6 DEF Accept, Enqueue, KmsAnswers, Hang, Tick
<1>7. CASE RecvHeader \/ RecvBody \/ Errs
  BY <1>7 DEF RecvHeader, RecvBody, Errs, RecvFails, Refuse, KmsFails, KmsTimeout, SendFails,
              Hang, StartError
<1>8. CASE Compute
  BY <1>8, Computes
<1>9. CASE SendPiece
  BY <1>9 DEF SendPiece
<1> QED
  BY <1>1, <1>2, <1>3, <1>4, <1>5, <1>6, <1>7, <1>8, <1>9, Steps

LEMMA ReplyFitsStep ==
  ASSUME TypeInv, ReplyFits, Next
  PROVE  ReplyFits'
<1> USE DEF ReplyFits, MAX_FRAME_BODY_SIZE
<1>1. reply \in Seq(Piece) /\ Len(<<>>) = 0
  BY EmptySeq DEF TypeInv, PieceTypes
<1>2. ASSUME NEW m \in {ErrorBody, ResponseBody} PROVE Len(Frame(Response, m)) <= 3
  <2>0. m \in Seq(Piece) /\ Len(m) \in 0..2
    BY Bodies
  <2>1. /\ Frame(Response, m) \in Seq(Piece) /\ Frame(Response, m) # <<>>
        /\ Tail(Frame(Response, m)) = m
    BY <2>0, FrameParts
  <2>2. Len(Tail(Frame(Response, m))) = Len(Frame(Response, m)) - 1
    BY <2>1, HeadTailProperties
  <2>3. Len(Frame(Response, m)) \in Nat
    BY <2>1, LenProperties
  <2> QED
    BY <2>0, <2>1, <2>2, <2>3
<1>3. reply # <<>> => Len(Tail(reply)) <= Len(reply)
  BY <1>1, HeadTailProperties, LenProperties
<1> QED
  BY <1>1, <1>2, <1>3, ReplySteps, LenProperties

LEMMA ReplyFitsInvariant == Spec => []ReplyFits
<1>1. Init => ReplyFits
  BY EmptySeq DEF Init, ReplyFits, MAX_FRAME_BODY_SIZE
<1>2. TypeInv /\ ReplyFits /\ [Next]_vars => ReplyFits'
  BY ReplyFitsStep DEF vars, handlerVars, ReplyFits
<1>3. IInv => TypeInv
  BY DEF IInv
<1> QED
  BY <1>1, <1>2, <1>3, IInvInvariant, PTL DEF Spec

\* Every variable of the path has its type, whatever the timeouts and the
\* buffers of the stream are: no clock runs below zero, no length that is read
\* exceeds what a frame may hold, no frame that is written does either, and the
\* stream never holds more than it buffers (constants.rs:74-76,
\* lib.rs:299-378).
THEOREM TypeCorrect == Spec => []TypeOK
<1>1. IInv /\ ReplyFits => TypeOK
  BY DEF IInv, TypeInv, ParentTypes, ThreadTypes, StreamTypes, TypeOK, ReplyFits,
         MAX_FRAME_BODY_SIZE
<1> QED
  BY <1>1, IInvInvariant, ReplyFitsInvariant, PTL

\* What the parent takes for a message is one, whole, and only a whole response
\* is answered with a 200, whichever end dies, gives up or runs out of time and
\* wherever in the frame it does: a response is never the beginning of one
\* followed by the error frame that main.rs:111 sends after a failed write
\* (lib.rs:330-378).
THEOREM OnlyWholeMessages == Spec => []WholeMessages
<1>1. IInv => WholeMessages
  BY DEF IInv
<1> QED
  BY <1>1, IInvInvariant, PTL

\* The blocking thread, which nothing can stop, is done within one vsock
\* timeout though every read and write call has the whole of it to itself
\* (constants.rs:74-76, lib.rs:330-378): it waits once, for the header of the
\* response.
THEOREM ThreadEndsInTime == Spec => []ThreadWithinIoTimeout
<1>1. IInv => ThreadWithinIoTimeout
  <2> SUFFICES ASSUME IInv PROVE age <= ParentIo
    BY DEF ThreadWithinIoTimeout
  <2>1. /\ age \in Nat /\ ioLeft \in 0..ParentIo /\ ParentIo \in Nat
        /\ thread \in {"none", "connect", "send", "header", "body"}
    BY PathAssumption DEF IInv, TypeInv, ThreadTypes
  <2> QED
    BY <2>1 DEF IInv, ClockInv
<1> QED
  BY <1>1, IInvInvariant, PTL
=============================================================================
