---------------------------- MODULE UploadStream ----------------------------
(***************************************************************************)
(* How the bytes of an upload get into the package file: the streaming     *)
(* multipart parser of mongoose (src/mongoose/mongoose.c) and handle_upload *)
(* of the HTTP thread (src/orchestrator.c), which writes every part of     *)
(* every upload to the same path.                                          *)
(*                                                                         *)
(* A sequence element is a byte; lengths and offsets are those of the      *)
(* code.  A read delivers any number of bytes, so a chunk may end          *)
(* anywhere, also inside a boundary.  The loop of                          *)
(* mg_http_multipart_continue is one action per case; while it runs for a  *)
(* connection (busy) no other event is dispatched.  Each connection makes  *)
(* one request; handle_upload asks for its closing.  The part headers are  *)
(* one Content-Disposition line.                                           *)
(***************************************************************************)
EXTENDS Integers, SequencesExt

CONSTANTS
    Conns,          \* HTTP connections
    NoConn,         \* no connection: the poll loop is idle
    Forms,          \* the forms each client may send: sequences of parts
    Boundary,       \* the boundary parameter, a sequence of bytes
    ReadSizes,      \* bound: the sizes of reads of each connection
    Closing         \* the connections a client may close

ASSUME UploadAssumption ==
    /\ NoConn \notin Conns
    /\ Boundary \in Seq(STRING) /\ Boundary # <<>>
    /\ \A c \in Conns : Forms[c] \subseteq Seq(Seq(STRING))
    /\ ReadSizes \in [Conns -> SUBSET (Nat \ {0})]
    /\ Closing \subseteq Conns

VARIABLES
    up,             \* the process is alive
    busy,           \* the connection whose continue loop runs
    form,           \* the parts each client sends
    rest,           \* bytes of the body not read yet
    io,             \* nc->recv_mbuf
    state,          \* pd->mp_stream.state
    part,           \* pd->mp_stream.processing_part
    fp,             \* nc->user_data: the open file, or NULL
    last,           \* MG_F_SEND_AND_CLOSE is set
    file,           \* content of the package file
    data,           \* history: what PART_DATA has handed over of the part
    alone,          \* history: no other upload had the file open meanwhile
    announced       \* the last PKG_READY, and the file as it was then

streamVars == <<io, state, part>>
fileVars == <<fp, last, file, alone, announced>>
vars == <<up, busy, form, rest, streamVars, fileVars, data>>

-----------------------------------------------------------------------------
(* The client (external).                                                  *)

CRLF == <<"CR", "LF">>
Dashes == <<"-", "-">>
PartHeader == <<"H">> \o CRLF \o CRLF       \* Content-Disposition: ...

EncodePart(p) == Dashes \o Boundary \o CRLF \o PartHeader \o p \o CRLF

LastLine == Dashes \o Boundary \o Dashes \o CRLF

(* What a client sends from the k-th part on, and all of it.               *)
EncodeFrom(f) ==
    LET from[k \in 1 .. Len(f) + 1] ==
            IF k > Len(f) THEN LastLine ELSE EncodePart(f[k]) \o from[k + 1]
    IN  from

Encode(f) == EncodeFrom(f)[1]

-----------------------------------------------------------------------------
(* Searching a buffer.  Positions count from 1; 0 is NULL.                 *)

At(s, i, t) == i + Len(t) - 1 <= Len(s) /\ SubSeq(s, i, i + Len(t) - 1) = t

(* c_strnstr: the first occurrence.                                        *)
Find(s, t) ==
    LET found == {i \in DOMAIN s : At(s, i, t)}
    IN  IF found = {} THEN 0
        ELSE CHOOSE i \in found : \A k \in found : i <= k

(* The first line from position b on that is empty.                        *)
EmptyLine(s, b) ==
    LET found == {i \in b .. Len(s) :
                    At(s, i, CRLF) /\ (i = b \/ s[i - 1] = "LF")}
    IN  IF found = {} THEN 0
        ELSE CHOOSE i \in found : \A k \in found : i <= k

Drop(s, n) == SubSeq(s, n + 1, Len(s))    \* mbuf_remove

(* What a client has to see to when it chooses the boundary: it occurs     *)
(* neither in a part nor across the line end and the dashes before it.     *)
Delimits ==
    /\ \A i \in 1 .. 2 : ~At(Dashes \o Boundary, i, Boundary)
    /\ \A c \in Conns : \A f \in Forms[c] : \A k \in 1 .. Len(f) :
        \A i \in 1 .. Len(f[k]) + 4 :
            ~At(f[k] \o CRLF \o Dashes \o Boundary, i, Boundary)

-----------------------------------------------------------------------------
(* The package file.  Each upload writes through a FILE of its own: a      *)
(* position, and a buffer of the C library that is written out by fclose   *)
(* or before.                                                              *)

NoFile == [open |-> FALSE, pos |-> 0, buf |-> <<>>, short |-> FALSE]

(* write(): a gap left by a truncation reads as zeroes.                    *)
Overwrite(f, pos, b) ==
    [i \in 1 .. (IF Len(f) > pos + Len(b) THEN Len(f) ELSE pos + Len(b)) |->
        IF i \in pos + 1 .. pos + Len(b) THEN b[i - pos]
        ELSE IF i <= Len(f) THEN f[i] ELSE "NUL"]

NotYet == [whole |-> FALSE, alone |-> TRUE, data |-> <<>>, file |-> <<>>]

(* handle_upload, MG_EV_HTTP_PART_BEGIN: on_write truncates the file.      *)
HandlePartBegin(c) ==
    \/ /\ fp' = [fp EXCEPT ![c] = [NoFile EXCEPT !.open = TRUE]]
       /\ file' = <<>>
       /\ alone' = [d \in Conns |->
                        IF d = c THEN \A e \in Conns \ {c} : ~fp[e].open
                        ELSE alone[d] /\ ~fp[d].open]
       /\ UNCHANGED <<up, last, announced>>
    \/ /\ last' = [last EXCEPT ![c] = TRUE]
       /\ fp' = [fp EXCEPT ![c] = NoFile]
       /\ UNCHANGED <<up, file, alone, announced>>

(* MG_EV_HTTP_PART_DATA: fwrite takes all of the data or fails; the        *)
(* library has then written its buffer out or keeps it.                    *)
HandlePartData(c, d) ==
    \/ /\ ~fp[c].open
       /\ up' = FALSE
       /\ UNCHANGED fileVars
    \/ /\ fp[c].open
       /\ fp' = [fp EXCEPT ![c].buf = @ \o d]
       /\ UNCHANGED <<up, last, file, alone, announced>>
    \/ /\ fp[c].open
       /\ file' = Overwrite(file, fp[c].pos, fp[c].buf \o d)
       /\ fp' = [fp EXCEPT ![c].pos = @ + Len(fp[c].buf \o d),
                           ![c].buf = <<>>]
       /\ UNCHANGED <<up, last, alone, announced>>
    \/ /\ fp[c].open
       /\ last' = [last EXCEPT ![c] = TRUE]
       /\ fp' = [fp EXCEPT ![c].short = TRUE]
       /\ UNCHANGED <<up, file, alone, announced>>

(* Mutant: the core is told before the file is closed.                     *)
HandlePartEnd_early(c, whole) ==
    IF ~fp[c].open
    THEN up' = FALSE /\ UNCHANGED fileVars
    ELSE \E flushed \in {TRUE, fp[c].buf = <<>>} :
         /\ file' = IF flushed THEN Overwrite(file, fp[c].pos, fp[c].buf)
                    ELSE file
         /\ announced' = [whole |-> whole /\ flushed /\ ~fp[c].short,
                          alone |-> alone[c], data |-> data[c], file |-> file]
         /\ fp' = [fp EXCEPT ![c] = NoFile]
         /\ last' = [last EXCEPT ![c] = TRUE]
         /\ UNCHANGED <<up, alone>>

(* MG_EV_HTTP_PART_END: fclose, then PKG_READY (module BsCore).  Neither   *)
(* mp->status is looked at nor whether fclose could write what the buffer  *)
(* still held.                                                             *)
HandlePartEnd(c, whole) ==
    IF ~fp[c].open
    THEN up' = FALSE /\ UNCHANGED fileVars
    ELSE \E flushed \in {TRUE, fp[c].buf = <<>>} :
         /\ file' = IF flushed THEN Overwrite(file, fp[c].pos, fp[c].buf)
                    ELSE file
         /\ announced' = [whole |-> whole /\ flushed /\ ~fp[c].short,
                          alone |-> alone[c], data |-> data[c],
                          file |-> file']
         /\ fp' = [fp EXCEPT ![c] = NoFile]
         /\ last' = [last EXCEPT ![c] = TRUE]
         /\ UNCHANGED <<up, alone>>

-----------------------------------------------------------------------------
(* The parser.                                                             *)

Init ==
    /\ up = TRUE
    /\ busy = NoConn
    /\ form \in [Conns -> UNION {Forms[c] : c \in Conns}]
    /\ \A c \in Conns : form[c] \in Forms[c]
    /\ rest = [c \in Conns |-> Encode(form[c])]
    /\ io = [c \in Conns |-> <<>>]
    /\ state = [c \in Conns |-> "none"]
    /\ part = [c \in Conns |-> 0]
    /\ fp = [c \in Conns |-> NoFile]
    /\ last = [c \in Conns |-> FALSE]
    /\ file = <<>>
    /\ data = [c \in Conns |-> <<>>]
    /\ alone = [c \in Conns |-> FALSE]
    /\ announced = NotYet

Polling == up /\ busy = NoConn

(* A read of n bytes, or of all there is.                                  *)
Reading(c, n) ==
    LET k == IF n < Len(rest[c]) THEN n ELSE Len(rest[c]) IN
    /\ io' = [io EXCEPT ![c] = @ \o SubSeq(rest[c], 1, k)]
    /\ rest' = [rest EXCEPT ![c] = Drop(@, k)]
    /\ busy' = c

(* The head of a multipart request is complete, n bytes of the body came   *)
(* with it: mg_http_multipart_begin.                                       *)
Request(c, n) ==
    /\ Polling
    /\ state[c] = "none"
    /\ Reading(c, n)
    /\ state' = [state EXCEPT ![c] = "MPS_BEGIN"]
    /\ UNCHANGED <<up, form, part, fileVars, data>>

(* MG_EV_RECV for a request in progress.                                   *)
Recv(c, n) ==
    /\ Polling
    /\ state[c] \notin {"none", "MPS_FINISHED", "closed"}
    /\ rest[c] # <<>>
    /\ Reading(c, n)
    /\ UNCHANGED <<up, form, state, part, fileVars, data>>

Runs(c, s) ==
    /\ up
    /\ busy = c
    /\ state[c] = s
    /\ UNCHANGED <<form, rest>>

Return(c, s) ==
    /\ busy' = NoConn
    /\ state' = [state EXCEPT ![c] = s]

Loop(c, s) ==
    /\ state' = [state EXCEPT ![c] = s]
    /\ UNCHANGED busy

Begin(c) ==
    /\ Runs(c, "MPS_BEGIN")
    /\ Loop(c, "MPS_WAITING_FOR_BOUNDARY")
    /\ UNCHANGED <<up, io, part, fileVars, data>>

(* Bytes of the buffer after the boundary, which has to be followed by     *)
(* four to tell the last boundary from the others.                         *)
After(c) == Find(io[c], Boundary) + Len(Boundary)

(* Mutant: five bytes are asked for; the last boundary has only four.      *)
BoundarySeen_five(c) ==
    /\ Find(io[c], Boundary) # 0
    /\ Len(io[c]) - After(c) + 1 >= 5

BoundarySeen(c) ==
    /\ Find(io[c], Boundary) # 0
    /\ Len(io[c]) - After(c) + 1 >= 4

(* mg_http_multipart_wait_for_boundary.                                    *)
WaitForBoundary(c) ==
    /\ Runs(c, "MPS_WAITING_FOR_BOUNDARY")
    /\ \/ /\ ~BoundarySeen(c)
          /\ Return(c, "MPS_WAITING_FOR_BOUNDARY")
          /\ UNCHANGED io
       \/ /\ BoundarySeen(c)
          /\ At(io[c], After(c), Dashes \o CRLF)
          /\ io' = [io EXCEPT ![c] = Drop(@, After(c) + 3)]
          /\ Loop(c, "MPS_FINALIZE")
       \/ /\ BoundarySeen(c)
          /\ ~At(io[c], After(c), Dashes \o CRLF)
          /\ Loop(c, "MPS_GOT_BOUNDARY")
          /\ UNCHANGED io
    /\ UNCHANGED <<up, part, fileVars, data>>

(* mg_http_multipart_process_boundary: once the part's headers are         *)
(* complete, PART_END for the part before, and PART_BEGIN (BeginPart).     *)
ProcessBoundary(c) ==
    LET l == EmptyLine(io[c], After(c) + 2) IN
    /\ Runs(c, "MPS_GOT_BOUNDARY")
    /\ \/ /\ l = 0
          /\ Return(c, "MPS_WAITING_FOR_BOUNDARY")
          /\ UNCHANGED <<up, io, fileVars>>
       \/ /\ l # 0
          /\ io' = [io EXCEPT ![c] = Drop(@, l + 1)]
          /\ IF part[c] = 0 THEN UNCHANGED <<up, fileVars>>
             ELSE HandlePartEnd(c, TRUE)
          /\ Loop(c, "between")
    /\ UNCHANGED <<part, data>>

BeginPart(c) ==
    /\ Runs(c, "between")
    /\ HandlePartBegin(c)
    /\ part' = [part EXCEPT ![c] = @ + 1]
    /\ data' = [data EXCEPT ![c] = <<>>]
    /\ Loop(c, "MPS_WAITING_FOR_CHUNK")
    /\ UNCHANGED io

Deliver(c, n) ==
    /\ HandlePartData(c, SubSeq(io[c], 1, n))
    /\ data' = [data EXCEPT ![c] = @ \o SubSeq(io[c], 1, n)]

(* Mutant: the line end and dashes before the boundary are not counted.    *)
Held_short == Len(Boundary) + 2

(* What is kept back while no boundary is in sight: a boundary with        *)
(* "\r\n--" before and "--" after it.                                      *)
Held == Len(Boundary) + 6

(* mg_http_multipart_continue_wait_for_chunk.                              *)
WaitForChunk(c) ==
    LET b == Find(io[c], Boundary) IN
    /\ Runs(c, "MPS_WAITING_FOR_CHUNK")
    /\ \/ /\ Len(io[c]) < Held \/ (b = 0 /\ Len(io[c]) = Held)
          /\ Return(c, "MPS_WAITING_FOR_CHUNK")
          /\ UNCHANGED <<up, io, fileVars, data>>
       \/ /\ b = 0 /\ Len(io[c]) > Held
          /\ Deliver(c, Len(io[c]) - Held)
          /\ io' = [io EXCEPT ![c] = Drop(@, Len(@) - Held)]
          /\ Return(c, "MPS_WAITING_FOR_CHUNK")
       \/ /\ b # 0 /\ Len(io[c]) >= Held
          /\ Deliver(c, b - 5)
          /\ io' = [io EXCEPT ![c] = Drop(@, b - 1)]
          /\ Loop(c, "MPS_WAITING_FOR_BOUNDARY")
    /\ UNCHANGED part

(* mg_http_multipart_finalize: PART_END, MULTIPART_REQUEST_END.            *)
Finalize(c) ==
    /\ Runs(c, "MPS_FINALIZE")
    /\ HandlePartEnd(c, TRUE)
    /\ Return(c, "MPS_FINISHED")
    /\ UNCHANGED <<io, part, data>>

(* MG_EV_CLOSE: the client has gone, or what mongoose was to send before   *)
(* closing is sent.  A request in progress ends with status -1.            *)
Close(c) ==
    /\ Polling
    /\ state[c] \notin {"none", "closed"}
    /\ c \in Closing \/ last[c]
    /\ IF state[c] = "MPS_FINISHED" THEN UNCHANGED <<up, fileVars>>
       ELSE HandlePartEnd(c, FALSE)
    /\ state' = [state EXCEPT ![c] = "closed"]
    /\ io' = [io EXCEPT ![c] = <<>>]
    /\ rest' = [rest EXCEPT ![c] = <<>>]
    /\ UNCHANGED <<busy, form, part, data>>

Continue(c) ==
    \/ Begin(c) \/ WaitForBoundary(c) \/ ProcessBoundary(c) \/ BeginPart(c)
    \/ WaitForChunk(c) \/ Finalize(c)

Next ==
    \E c \in Conns :
        \/ \E n \in ReadSizes[c] \cup {0} : Request(c, n)
        \/ \E n \in ReadSizes[c] : Recv(c, n)
        \/ Continue(c)
        \/ Close(c)

Spec == Init /\ [][Next]_vars

(* A read that is possible happens and the loop goes on; clients owe no    *)
(* closing.                                                                *)
FairSpec ==
    /\ Spec
    /\ \A c \in Conns :
        WF_vars(Continue(c)) /\ WF_vars(\E n \in ReadSizes[c] : Recv(c, n))

-----------------------------------------------------------------------------
(* Properties.                                                             *)

(* However the bytes of a request are cut into reads, handle_upload sees   *)
(* its parts one by one, and of each exactly its bytes: nothing of a       *)
(* boundary gets into the file, nothing of the file is taken for one, and  *)
(* a proper end comes only after the last byte (mongoose.h on the          *)
(* MG_EV_HTTP_PART events).                                                *)
Inside(c) ==
    part[c] > 0 /\ state[c] \notin {"between", "MPS_FINISHED", "closed"}

Events == INSTANCE PartEvents WITH
    inside <- [c \in Conns |-> Inside(c)],
    over <- [c \in Conns |-> state[c] \in {"MPS_FINISHED", "closed"}]

PartProtocol == Events!Spec

(* When the end of a part is announced to the core, the package file holds *)
(* what was handed over of that part, byte by byte, provided every write,  *)
(* that of fclose included, succeeded and no other upload had the file     *)
(* open in the meantime: no byte is left in a buffer of the C library, or  *)
(* stays from an upload before.                                            *)
AnnouncedFile ==
    announced.whole /\ announced.alone => announced.file = announced.data

(* An upload of one part whose client stays and sends all of it ends with  *)
(* the announcement of the part or with a closed connection, however the   *)
(* bytes are cut; mongoose never waits for bytes that do not come.         *)
UploadEnds ==
    \A c \in Conns :
        (state[c] = "MPS_BEGIN")
            ~> (state[c] \in {"MPS_FINISHED", "closed"} \/ ~up)
=============================================================================
