----------------------------- MODULE DlcReport -----------------------------
(***************************************************************************)
(* The address of the DLC, tlc_ip, and those who use it.  The HTTP thread  *)
(* rewrites it with the address of every client of /pkg/new and /test/live *)
(* (src/orchestrator.c), and again when a connection closes whose last     *)
(* request was /test/live: mongoose calls its handler once more then, with *)
(* MG_EV_CLOSE, which the handler does not look at.  Every status report   *)
(* (src/src/bs_dlc_apis.c) is a thread of its own that prints a command    *)
(* into one static buffer, cmd, and runs it; the installer message thread  *)
(* puts the address into the links of TRANSFER_PACKAGE                     *)
(* (src/src/bs_eth_installer_job.c).  Nothing of this is locked.           *)
(*                                                                         *)
(* tlc_ip and cmd are buffers of characters; NUL ends a string.  The       *)
(* report texts are a few characters long.  A pipe from popen is never     *)
(* closed, so each report uses up a file descriptor.                       *)
(***************************************************************************)
EXTENDS Integers, SequencesExt

CONSTANTS
    Threads,        \* report threads, each for one report
    Body,           \* the report texts: [kinds of reports -> strings]
    Hosts,          \* addresses of clients, strings
    Loopback,       \* "127.0.0.1"
    IpSize,         \* size of tlc_ip
    CmdSize,        \* size of cmd
    MaxFds,         \* bound: file descriptors left
    MaxMoves,       \* bound: handler calls that set the address
    MaxLive         \* bound: connections of a host in live

Kinds == DOMAIN Body

Addresses == Hosts \cup {Loopback}

NUL == "NUL"

(* Addresses and report texts are C strings that fit their buffers.        *)
ASSUME ReportAssumption ==
    /\ IpSize \in Nat /\ CmdSize \in Nat
    /\ Kinds # {}
    /\ \A k \in Kinds : Body[k] \in Seq(STRING) /\ NUL \notin ToSet(Body[k])
    /\ \A a \in Addresses : a \in Seq(STRING) /\ NUL \notin ToSet(a)
    /\ \A a \in Addresses : Len(a) \in 1 .. IpSize - 1
    /\ \A a \in Addresses, k \in Kinds :
            Len(Body[k]) + Len(a) + 2 <= CmdSize
    /\ MaxFds \in Nat
    /\ MaxMoves \in Nat
    /\ MaxLive \in Nat

VARIABLES
    tlc_ip,         \* the buffer
    client,         \* the address being written, or the last one written
    written,        \* characters of it written so far
    moves,          \* what has been used of MaxMoves
    live,           \* open connections with /test/live as the last request
    cmd,            \* the buffer
    thread,         \* the report threads
    posted,         \* the command each report thread has run
    fds,            \* file descriptors left
    link,           \* the link in preparation by the message thread
    asked,          \* history: the kind of report each thread is to make
    lone,           \* history: reports whose buffer nobody else touched
    calm            \* history: nothing has written while tlc_ip was read

ipVars == <<tlc_ip, client, written, moves, live>>
reportVars == <<cmd, thread, posted, fds, lone, asked>>
vars == <<ipVars, reportVars, link, calm>>

-----------------------------------------------------------------------------
(* Strings in buffers.                                                     *)

Blanks(n) == [i \in 1 .. n |-> NUL]

Strlen(b) ==
    IF NUL \in ToSet(b)
    THEN (CHOOSE i \in DOMAIN b : b[i] = NUL /\ \A k \in 1 .. i - 1 : b[k] # NUL)
            - 1
    ELSE Len(b)

String(b) == SubSeq(b, 1, Strlen(b))

(* s is written from the place after off on.                               *)
Put(b, off, s) ==
    [i \in DOMAIN b |-> IF i - off \in DOMAIN s THEN s[i - off] ELSE b[i]]

Tail4 == <<":8019">>        \* what follows the address, to the end

-----------------------------------------------------------------------------
Thread(pc, kind) == [pc |-> pc, kind |-> kind, len |-> 0, to |-> <<>>]

NoLink == [pc |-> "none", copy |-> <<>>, to |-> <<>>, of |-> <<>>]

Init ==
    /\ client = Loopback            \* bs_core_init_ctx
    /\ tlc_ip = Put(Blanks(IpSize), 0, Loopback)
    /\ written = Len(Loopback)
    /\ moves = 0
    /\ live = [a \in Hosts |-> 0]
    /\ cmd = Blanks(CmdSize)
    /\ thread = [t \in Threads |-> Thread("none", CHOOSE k \in Kinds : TRUE)]
    /\ posted = [t \in Threads |-> <<>>]
    /\ fds = MaxFds
    /\ link = NoLink
    /\ asked = [t \in Threads |-> CHOOSE k \in Kinds : TRUE]
    /\ lone = {}
    /\ calm = Threads \cup {"link"}

-----------------------------------------------------------------------------
(* HTTP thread.  One handler at a time; inet_ntop fills the buffer         *)
(* character by character.                                                 *)

Written == written = Len(client)

(* Whoever is between its two readings of tlc_ip sees it change.           *)
Readers ==
    {t \in Threads : thread[t].pc = "address"}
    \cup (IF link.pc = "copied" THEN {"link"} ELSE {})

(* Mutant: the buffer is not cleared first.                                *)
SetAddress_dirty(a) ==
    /\ Written
    /\ moves < MaxMoves
    /\ moves' = moves + 1
    /\ client' = a
    /\ written' = 0
    /\ calm' = calm \ Readers
    /\ UNCHANGED <<tlc_ip, reportVars, link>>

(* handle_pkg_new, handle_test_live: mg_sock_addr_to_str clears tlc_ip and *)
(* writes the address of the client.  (It has room for every IPv4 address, *)
(* so the way back to the loopback address is never taken.)                *)
SetAddress(a) ==
    /\ Written
    /\ moves < MaxMoves
    /\ moves' = moves + 1
    /\ client' = a
    /\ written' = 0
    /\ tlc_ip' = Blanks(IpSize)
    /\ calm' = calm \ Readers
    /\ UNCHANGED <<reportVars, link>>

(* /pkg/new and /test/live of a client at a, on a connection whose last    *)
(* request was /test/live (again) or on any other.                         *)
PkgNew(a, again) ==
    /\ again => live[a] > 0
    /\ live' = IF again THEN [live EXCEPT ![a] = @ - 1] ELSE live
    /\ SetAddress(a)

TestLive(a, again) ==
    /\ IF again THEN live[a] > 0 ELSE live[a] < MaxLive
    /\ live' = IF again THEN live ELSE [live EXCEPT ![a] = @ + 1]
    /\ SetAddress(a)

(* The connection closes and handle_test_live runs again.                  *)
LiveCloses(a) ==
    /\ live[a] > 0
    /\ live' = [live EXCEPT ![a] = @ - 1]
    /\ SetAddress(a)

(* One character, and the NUL after the last.                              *)
WriteChar ==
    /\ ~Written
    /\ tlc_ip' = Put(tlc_ip, written,
                     <<client[written + 1]>>
                        \o (IF written + 1 = Len(client) THEN <<NUL>>
                            ELSE <<>>))
    /\ written' = written + 1
    /\ calm' = calm \ Readers
    /\ UNCHANGED <<client, moves, live, reportVars, link>>

-----------------------------------------------------------------------------
(* dlc_report_thread.                                                      *)

(* Mutant: the report is left in a variable for the thread to find.        *)
Start_shared(t, k) ==
    thread' = [u \in Threads |->
                IF u = t \/ thread[u].pc = "memset" THEN Thread("memset", k)
                ELSE thread[u]]

(* mg_start_thread: the text is the parameter of the thread.               *)
Start(t, k) == thread' = [thread EXCEPT ![t] = Thread("memset", k)]

Report(t, k) ==
    /\ thread[t].pc = "none"
    /\ Start(t, k)
    /\ asked' = [asked EXCEPT ![t] = k]
    /\ UNCHANGED <<ipVars, cmd, posted, fds, lone, link, calm>>

InCmd(t) == thread[t].pc \in {"body", "address", "tail", "popen"}

Moves(t, from, to) ==
    /\ thread[t].pc = from
    /\ thread' = [thread EXCEPT ![t].pc = to]
    /\ UNCHANGED <<ipVars, asked, link>>

(* Mutant: waits for a free buffer, which nobody leaves behind.            *)
Memset_waits(t) ==
    /\ cmd = Blanks(CmdSize)
    /\ Moves(t, "memset", "body")
    /\ cmd' = Blanks(CmdSize)
    /\ LET others == {u \in Threads \ {t} : InCmd(u)} IN
        lone' = IF others = {} THEN lone \cup {t} ELSE lone \ others
    /\ UNCHANGED <<posted, fds, calm>>

Memset(t) ==
    /\ Moves(t, "memset", "body")
    /\ cmd' = Blanks(CmdSize)
    /\ LET others == {u \in Threads \ {t} : InCmd(u)} IN
        lone' = IF others = {} THEN lone \cup {t} ELSE lone \ others
    /\ UNCHANGED <<posted, fds, calm>>

(* sprintf up to the address, whose length is taken before it is copied.   *)
PrintBody(t) ==
    /\ thread[t].pc = "body"
    /\ cmd' = Put(cmd, 0, Body[thread[t].kind])
    /\ thread' = [thread EXCEPT ![t].pc = "address",
                                ![t].len = Strlen(tlc_ip),
                                ![t].to = client]
    /\ calm' = IF Written THEN calm ELSE calm \ {t}
    /\ UNCHANGED <<ipVars, posted, fds, lone, asked, link>>

PrintAddress(t) ==
    /\ Moves(t, "address", "tail")
    /\ cmd' = Put(cmd, Len(Body[thread[t].kind]),
                  SubSeq(tlc_ip, 1, thread[t].len))
    /\ UNCHANGED <<posted, fds, lone, calm>>

PrintTail(t) ==
    /\ Moves(t, "tail", "popen")
    /\ cmd' = Put(cmd, Len(Body[thread[t].kind]) + thread[t].len,
                  Tail4 \o <<NUL>>)
    /\ UNCHANGED <<posted, fds, lone, calm>>

Popen(t) ==
    /\ Moves(t, "popen", "end")
    /\ \/ /\ fds > 0
          /\ fds' = fds - 1
          /\ posted' = [posted EXCEPT ![t] = String(cmd)]
       \/ /\ fds = 0
          /\ UNCHANGED <<fds, posted>>
    /\ UNCHANGED <<cmd, lone, calm>>

ReportStep(t) ==
    \/ Memset(t) \/ PrintBody(t) \/ PrintAddress(t) \/ PrintTail(t)
    \/ Popen(t)

-----------------------------------------------------------------------------
(* Installer message thread, bs_eth_installer_req_pkg_new: the address is  *)
(* copied first, then its length is taken to know where to go on.          *)
LinkCopy ==
    /\ link.pc = "none"
    /\ link' = [pc |-> "copied", copy |-> String(tlc_ip), to |-> <<>>,
                of |-> client]
    /\ calm' = IF Written THEN calm ELSE calm \ {"link"}
    /\ UNCHANGED <<ipVars, reportVars>>

LinkGoesOn ==
    LET l == Strlen(tlc_ip) IN
    /\ link.pc = "copied"
    /\ link' = [link EXCEPT !.pc = "done", !.copy = <<>>,
                            !.to = IF l <= Len(link.copy)
                                   THEN SubSeq(link.copy, 1, l)
                                   ELSE link.copy]
    /\ UNCHANGED <<ipVars, reportVars, calm>>

-----------------------------------------------------------------------------
Next ==
    \/ \E a \in Hosts :
        \/ \E again \in BOOLEAN : PkgNew(a, again) \/ TestLive(a, again)
        \/ LiveCloses(a)
    \/ WriteChar
    \/ \E t \in Threads : ReportStep(t) \/ \E k \in Kinds : Report(t, k)
    \/ LinkCopy \/ LinkGoesOn

Spec == Init /\ [][Next]_vars

(* The operating system schedules the report threads.                      *)
FairSpec == Spec /\ \A t \in Threads : WF_vars(ReportStep(t))

-----------------------------------------------------------------------------
(* Properties.                                                             *)

Posted(t) == thread[t].pc = "end" /\ posted[t] # <<>>

(* A report no other report thread ran into is posted as it was asked for, *)
(* whatever else was reported before, and to the host that stood in tlc_ip *)
(* when its printing began, if nothing has rewritten it since.  That is    *)
(* the last of the hosts that asked or whose /test/live connection closed: *)
(* not always the one that asked last.                                     *)
LoneReportArrives ==
    \A t \in Threads :
        Posted(t) /\ t \in lone \cap calm =>
            posted[t] = Body[asked[t]] \o thread[t].to \o Tail4

(* A rewriting at the wrong moment may leave a report or a link with its   *)
(* address cut short, but never with one put together from two; a link     *)
(* composed while nothing rewrites the address points to the host that     *)
(* stood in tlc_ip.                                                        *)
AddressNotMixed ==
    LET Cut == UNION {Prefixes(a) : a \in Addresses} IN
    /\ \A t \in Threads :
        Posted(t) /\ t \in lone =>
            \E a \in Cut, e \in Prefixes(Tail4) :
                posted[t] = Body[asked[t]] \o a \o e
    /\ link.pc = "done" =>
        /\ link.to \in Cut
        /\ "link" \in calm => link.to = link.of

(* The thread of every report comes to its end, and the report is posted   *)
(* then, unless another thread was in the buffer or the descriptors, of    *)
(* which each report takes one for good, are used up.                      *)
ReportIsPosted ==
    \A t \in Threads :
        (thread[t].pc = "memset")
            ~> (/\ thread[t].pc = "end"
                /\ posted[t] # <<>> \/ fds = 0 \/ t \notin lone)
=============================================================================
