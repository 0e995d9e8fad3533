------------------------------- MODULE MgConn -------------------------------
(***************************************************************************)
(* The connections of one mongoose event manager                           *)
(* (src/mongoose/mongoose.c): the poll loop of its thread, the output      *)
(* buffer of each connection, and how a connection ends.  Every reply of   *)
(* the HTTP API and every frame to a self-installer goes through it.       *)
(*                                                                         *)
(* The installer job thread and, for /test/vers, the HTTP thread call      *)
(* mg_send on connections of the manager the installer message thread      *)
(* polls, without a lock.  What the two threads do to a buffer when they   *)
(* are in it at the same time is undefined (raced); a property then says   *)
(* nothing of that connection.  A byte is the number it has in what was    *)
(* passed to mg_send for its connection.                                   *)
(*                                                                         *)
(* A request of an HTTP connection may be whole or only begun: the HTTP    *)
(* protocol hands a begun one to the handlers when the connection closes,  *)
(* and calls the handler of the last request once more then, with          *)
(* MG_EV_CLOSE.                                                            *)
(***************************************************************************)
EXTENDS Naturals, Sequences, SequencesExt

CONSTANTS
    Conns,          \* connections clients may make, each once
    NoConn,         \* NULL
    ReplySizes,     \* bytes a handler may send for one read
    Foreign,        \* connections other threads send to
    Spoilers,       \* bound: clients that may send what is no request
    MaxAsks,        \* bound: requests of each client
    MaxForeign      \* bound: mg_send calls of other threads

ASSUME ConnAssumption ==
    /\ NoConn \notin Conns
    /\ ReplySizes \subseteq Nat
    /\ Foreign \subseteq Conns
    /\ Spoilers \subseteq Conns
    /\ MaxAsks \in [Conns -> Nat]
    /\ MaxForeign \in Nat

VARIABLES
    up,             \* the process is alive
    client,         \* new, open, shut (has sent its FIN) or reset
    unread,         \* requests in the receive buffer of the socket
    spoilt,         \* connections with bytes behind them that are no request
    asks,           \* requests each client has made
    active,         \* mgr->active_connections, the newest first
    pc,             \* where the poll loop is
    todo,           \* connections the loop has still to visit
    fds,            \* what select has reported
    flags,          \* of MG_F_SEND_AND_CLOSE, MG_F_CLOSE_IMMEDIATELY
    send_mbuf,      \* nc->send_mbuf
    sent,           \* bytes tcp_send has taken and mbuf_remove not removed
    asked,          \* history: bytes passed to mg_send
    taken,          \* history: bytes the socket has taken
    gone,           \* connections that were closed
    wasted,         \* history: bytes passed to mg_send at MG_EV_CLOSE
    failed,         \* history: closed because of an error
    foreign,        \* the connection another thread is in mg_send for
    nforeign,       \* what has been used of MaxForeign
    raced           \* history: two threads were in it at a time

clientVars == <<client, unread, spoilt, asks>>
loopVars == <<pc, todo, fds>>
bufVars == <<send_mbuf, sent, asked, taken>>
endVars == <<active, flags, gone, wasted, failed>>
otherVars == <<foreign, nforeign, raced>>
vars == <<up, clientVars, loopVars, bufVars, endVars, otherVars>>

TypeOK ==
    /\ up \in BOOLEAN
    /\ client \in [Conns -> {"new", "open", "shut", "reset"}]
    /\ asks \in [Conns -> Nat]
    /\ \A c \in Conns : asks[c] <= MaxAsks[c]
    /\ unread \in [Conns -> Nat]
    /\ spoilt \subseteq Conns
    /\ active \in Seq(Conns)
    /\ pc \in {"select", "poll", "recv", "send", "remove"}
    /\ todo \in Seq(Conns)
    /\ fds \in [read : SUBSET Conns, write : SUBSET Conns]
    /\ flags \in [Conns -> SUBSET {"SEND_AND_CLOSE", "CLOSE_IMMEDIATELY"}]
    /\ send_mbuf \in [Conns -> Seq(Nat)]
    /\ taken \in [Conns -> Seq(Nat)]
    /\ sent \in Nat
    /\ asked \in [Conns -> Nat]
    /\ gone \subseteq Conns
    /\ wasted \in [Conns -> Nat]
    /\ failed \subseteq Conns
    /\ foreign \in Foreign \cup {NoConn}
    /\ nforeign \in 0 .. MaxForeign
    /\ raced \subseteq Conns

NoFds == [read |-> {}, write |-> {}]

Init ==
    /\ up = TRUE
    /\ client = [c \in Conns |-> "new"]
    /\ unread = [c \in Conns |-> 0]
    /\ spoilt = {}
    /\ asks = [c \in Conns |-> 0]
    /\ active = <<>>
    /\ pc = "select"
    /\ todo = <<>>
    /\ fds = NoFds
    /\ flags = [c \in Conns |-> {}]
    /\ send_mbuf = [c \in Conns |-> <<>>]
    /\ sent = 0
    /\ asked = [c \in Conns |-> 0]
    /\ taken = [c \in Conns |-> <<>>]
    /\ gone = {} /\ failed = {} /\ raced = {}
    /\ wasted = [c \in Conns |-> 0]
    /\ foreign = NoConn
    /\ nforeign = 0

-----------------------------------------------------------------------------
(* Clients (external).                                                     *)

Ask(c) ==
    /\ up
    /\ client[c] = "open" /\ c \notin gone \cup spoilt
    /\ asks[c] < MaxAsks[c]
    /\ asks' = [asks EXCEPT ![c] = @ + 1]
    /\ unread' = [unread EXCEPT ![c] = @ + 1]
    /\ UNCHANGED <<up, client, spoilt, loopVars, bufVars, endVars, otherVars>>

(* Something no request starts with.                                       *)
Garble(c) ==
    /\ up
    /\ client[c] = "open" /\ c \in Spoilers \ (gone \cup spoilt)
    /\ spoilt' = spoilt \cup {c}
    /\ UNCHANGED <<up, client, unread, asks, loopVars, bufVars, endVars,
                   otherVars>>

Leave(c, how) ==
    /\ up
    /\ client[c] = "open" /\ c \notin gone
    /\ client' = [client EXCEPT ![c] = how]
    /\ UNCHANGED <<up, unread, spoilt, asks, loopVars, bufVars, endVars,
                   otherVars>>

-----------------------------------------------------------------------------
(* The buffer.                                                             *)

Numbers(from, n) == [i \in 1 .. n |-> from + i]

Inside(c) == pc # "select" /\ pc # "poll" /\ Head(todo) = c

(* mbuf_append.                                                            *)
MbufAppend(c, n) ==
    /\ send_mbuf' = [send_mbuf EXCEPT ![c] = @ \o Numbers(asked[c], n)]
    /\ asked' = [asked EXCEPT ![c] = @ + n]

(* mg_send on another thread, from its reading of the buffer to its        *)
(* writing it.                                                             *)
ForeignSend(c) ==
    /\ up
    /\ foreign = NoConn
    /\ c \in Foreign \cap ToSet(active)
    /\ nforeign < MaxForeign
    /\ foreign' = c
    /\ nforeign' = nforeign + 1
    /\ raced' = IF Inside(c) THEN raced \cup {c} ELSE raced
    /\ UNCHANGED <<up, clientVars, loopVars, bufVars, endVars>>

(* Its bytes are in the buffer, or, if the poll loop was there too, may be *)
(* lost, or the buffer has moved and the process dies.                     *)
ForeignSent ==
    /\ up
    /\ foreign # NoConn
    /\ foreign' = NoConn
    /\ \/ /\ foreign \notin gone
          /\ MbufAppend(foreign, 1)
          /\ UNCHANGED up
       \/ /\ foreign \in raced
          /\ up' \in BOOLEAN
          /\ UNCHANGED <<send_mbuf, asked>>
    /\ UNCHANGED <<clientVars, loopVars, sent, taken, endVars, nforeign,
                   raced>>

-----------------------------------------------------------------------------
(* The poll loop.                                                          *)

(* mg_socket_if_poll up to select: every connection is asked about for     *)
(* reading, those with something in send_mbuf for writing.                 *)
Readable(c) == unread[c] > 0 \/ c \in spoilt \/ client[c] # "open"

(* Mutant: a connection to be closed is no longer asked about.             *)
WantsWrite_open(c) == send_mbuf[c] # <<>> /\ flags[c] = {}

WantsWrite(c) == send_mbuf[c] # <<>>

Select(room) ==
    /\ up
    /\ pc = "select"
    /\ fds' = [read |-> {c \in ToSet(active) : Readable(c)},
               write |-> {c \in ToSet(active) : WantsWrite(c)} \cap room]
    /\ todo' = active
    /\ pc' = "poll"
    /\ UNCHANGED <<up, clientVars, bufVars, endVars, otherVars>>

LoopEnds ==
    /\ pc' = "select"
    /\ fds' = NoFds
    /\ UNCHANGED todo

(* The listening connection is the oldest, so the loop ends with it; one   *)
(* connection is accepted and put before the others.                       *)
Accept(c) ==
    /\ up
    /\ pc = "poll" /\ todo = <<>>
    /\ client[c] = "new"
    /\ client' = [client EXCEPT ![c] = "open"]
    /\ active' = <<c>> \o active
    /\ LoopEnds
    /\ UNCHANGED <<up, unread, spoilt, asks, bufVars, flags, gone, wasted,
                   failed, otherVars>>

PollEnds ==
    /\ up
    /\ pc = "poll" /\ todo = <<>>
    /\ LoopEnds
    /\ UNCHANGED <<up, clientVars, bufVars, endVars, otherVars>>

Visits(c, stage) ==
    /\ up
    /\ pc = stage
    /\ todo # <<>>
    /\ c = Head(todo)
    /\ UNCHANGED fds

Done == pc' = "poll" /\ todo' = Tail(todo)

GoOn(stage) == pc' = stage /\ UNCHANGED todo

(* Mutant: whatever is still in the buffer.                                *)
MustClose_hasty(c) == flags[c] # {}

(* The conditions of mg_if_poll.                                           *)
MustClose(c) ==
    \/ "CLOSE_IMMEDIATELY" \in flags[c]
    \/ "SEND_AND_CLOSE" \in flags[c] /\ send_mbuf[c] = <<>>

(* What the handlers print when they are called at MG_EV_CLOSE: for an     *)
(* upload that was cut off, for a request that was only begun, and once    *)
(* more for the last request.                                              *)
LateReplies(c) == IF asks[c] > unread[c] THEN ReplySizes ELSE {}

(* mg_if_poll: closes the connection (mg_close_conn: nothing is received   *)
(* any more, MG_EV_CLOSE, and it is freed, with what the handlers have     *)
(* just printed) or goes on with it.                                       *)
IfPoll(c) ==
    /\ Visits(c, "poll")
    /\ raced' = IF foreign = c THEN raced \cup {c} ELSE raced
    /\ \/ /\ MustClose(c)
          /\ \E i \in 1 .. Len(active) :
                active[i] = c /\ active' = RemoveAt(active, i)
          /\ gone' = gone \cup {c}
          /\ unread' = [unread EXCEPT ![c] = 0]
          /\ spoilt' = spoilt \ {c}
          /\ \E late \in {0} \cup LateReplies(c) :
                /\ asked' = [asked EXCEPT ![c] = @ + late]
                /\ wasted' = [wasted EXCEPT ![c] = late]
          /\ send_mbuf' = [send_mbuf EXCEPT ![c] = <<>>]
          /\ Done
       \/ /\ ~MustClose(c)
          /\ GoOn(IF c \in fds.read THEN "recv" ELSE "send")
          /\ UNCHANGED <<active, gone, unread, spoilt, asked, wasted,
                         send_mbuf>>
    /\ UNCHANGED <<up, client, asks, sent, taken, flags, failed, foreign,
                   nforeign>>

(* Mutant: the event is delivered also when nothing was read.              *)
Recv_empty(c, reply, close) ==
    /\ Visits(c, "recv")
    /\ client[c] # "reset"
    /\ unread' = [unread EXCEPT ![c] = @ - 1]
    /\ MbufAppend(c, reply)
    /\ flags' = IF close THEN [flags EXCEPT ![c] = @ \cup {"SEND_AND_CLOSE"}]
                ELSE flags
    /\ GoOn("recv")
    /\ UNCHANGED <<up, client, spoilt, asks, sent, taken, active, gone,
                   wasted, failed, otherVars>>

(* mg_do_recv goes on until there is nothing more to read.  For each read  *)
(* the handler may send something and may ask for the closing.             *)
Recv(c, reply, close) ==
    /\ Visits(c, "recv")
    /\ unread[c] > 0 /\ client[c] # "reset"
    /\ unread' = [unread EXCEPT ![c] = @ - 1]
    /\ MbufAppend(c, reply)
    /\ flags' = IF close THEN [flags EXCEPT ![c] = @ \cup {"SEND_AND_CLOSE"}]
                ELSE flags
    /\ GoOn("recv")
    /\ UNCHANGED <<up, client, spoilt, asks, sent, taken, active, gone,
                   wasted, failed, otherVars>>

(* recv() finds nothing, or the end of the stream.                         *)
RecvEnds(c) ==
    /\ Visits(c, "recv")
    /\ unread[c] = 0 /\ c \notin spoilt /\ client[c] # "reset"
    /\ flags' = IF client[c] = "shut"
                THEN [flags EXCEPT ![c] = @ \cup {"SEND_AND_CLOSE"}]
                ELSE flags
    /\ GoOn("send")
    /\ UNCHANGED <<up, clientVars, bufVars, active, gone, wasted, failed,
                   otherVars>>

Fail(c) ==
    /\ flags' = [flags EXCEPT ![c] = @ \cup {"CLOSE_IMMEDIATELY"}]
    /\ failed' = failed \cup {c}

(* Behind the last request there is none: mg_http_handler and              *)
(* mg_http_multipart_begin have the connection closed at once, with the    *)
(* answers to the requests before it.                                      *)
RecvMalformed(c) ==
    /\ Visits(c, "recv")
    /\ unread[c] = 0 /\ c \in spoilt /\ client[c] # "reset"
    /\ Fail(c)
    /\ GoOn("send")
    /\ UNCHANGED <<up, clientVars, bufVars, active, gone, wasted, otherVars>>

RecvFails(c) ==
    /\ Visits(c, "recv")
    /\ client[c] = "reset"
    /\ Fail(c)
    /\ GoOn("send")
    /\ UNCHANGED <<up, clientVars, bufVars, active, gone, wasted, otherVars>>

CanSend(c) ==
    /\ c \in fds.write
    /\ "CLOSE_IMMEDIATELY" \notin flags[c]
    /\ send_mbuf[c] # <<>>

(* mg_if_can_send_cb: the socket takes at least one byte.                  *)
SendSome(c, n) ==
    /\ Visits(c, "send")
    /\ CanSend(c) /\ client[c] # "reset"
    /\ n <= Len(send_mbuf[c])
    /\ taken' = [taken EXCEPT ![c] = @ \o SubSeq(send_mbuf[c], 1, n)]
    /\ sent' = n
    /\ GoOn("remove")
    /\ UNCHANGED <<up, clientVars, send_mbuf, asked, endVars, otherVars>>

(* Mutant: what was passed to tcp_send is removed, not what it has taken.  *)
MbufRemove_all(s, n) == <<>>

MbufRemove(s, n) == SubSeq(s, n + 1, Len(s))

RemoveSent(c) ==
    /\ Visits(c, "remove")
    /\ send_mbuf' = [send_mbuf EXCEPT ![c] = MbufRemove(@, sent)]
    /\ sent' = 0
    /\ Done
    /\ UNCHANGED <<up, clientVars, asked, taken, endVars, otherVars>>

SendFails(c) ==
    /\ Visits(c, "send")
    /\ CanSend(c) /\ client[c] = "reset"
    /\ Fail(c)
    /\ Done
    /\ UNCHANGED <<up, clientVars, bufVars, active, gone, wasted, otherVars>>

SendNothing(c) ==
    /\ Visits(c, "send")
    /\ ~CanSend(c)
    /\ Done
    /\ UNCHANGED <<up, clientVars, bufVars, endVars, otherVars>>

Handle(c) ==
    \/ IfPoll(c)
    \/ \E reply \in ReplySizes, close \in BOOLEAN : Recv(c, reply, close)
    \/ RecvEnds(c) \/ RecvMalformed(c) \/ RecvFails(c)
    \/ \E n \in 1 .. Len(send_mbuf[c]) : SendSome(c, n)
    \/ RemoveSent(c) \/ SendFails(c) \/ SendNothing(c)

Loop ==
    \/ \E room \in SUBSET Conns : Select(room)
    \/ PollEnds
    \/ \E c \in Conns : Accept(c) \/ Handle(c)

Next ==
    \/ Loop
    \/ \E c \in Conns : \/ Ask(c) \/ Garble(c)
                        \/ Leave(c, "shut") \/ Leave(c, "reset")
                        \/ ForeignSend(c)
    \/ ForeignSent

Spec == Init /\ [][Next]_vars

(* The thread polls on, a call of mg_send returns, and clients read: a     *)
(* connection with something to send is reported writable again and again. *)
FairSpec ==
    /\ Spec
    /\ WF_vars(Loop)
    /\ WF_vars(ForeignSent)
    /\ \A c \in Conns :
        SF_vars(\E room \in SUBSET Conns :
                    Select(room) /\ c \in fds'.write)

-----------------------------------------------------------------------------
(* Properties.                                                             *)

(* What the socket has taken and what is in the buffer is, byte by byte,   *)
(* what was passed to mg_send, however the sending was cut, and whichever  *)
(* thread sent, as long as no two were in the buffer at the same time.     *)
Pending(c) ==
    SubSeq(send_mbuf[c], 1 + (IF Inside(c) THEN sent ELSE 0),
           Len(send_mbuf[c]))

StreamIntact ==
    \A c \in Conns \ (raced \cup gone) :
        taken[c] \o Pending(c) = Numbers(0, asked[c])

(* A connection on which no error was met, neither of the socket nor in    *)
(* what the client has sent, is closed only when every byte passed to      *)
(* mg_send before its closing has left, whether the orchestrator closes it *)
(* of its own accord (MG_F_SEND_AND_CLOSE; a reply of the upload is sent   *)
(* just so) or because of the client's FIN.  What never leaves is what     *)
(* the handlers print at MG_EV_CLOSE.                                      *)
AnswersBeforeClose ==
    \A c \in gone \ (raced \cup failed) :
        taken[c] = Numbers(0, asked[c] - wasted[c])

(* What is passed to mg_send leaves, also when the loop was in select at   *)
(* the time and looked at the buffer only later; and a connection that is  *)
(* to be closed is closed.                                                 *)
Flushed ==
    \A c \in Conns :
        /\ (asked[c] > Len(taken[c])) ~>
                (asked[c] = Len(taken[c]) \/ c \in gone \cup raced \/ ~up)
        /\ (flags[c] # {}) ~> (c \in gone \/ ~up)
=============================================================================
