------------------------- MODULE EthInstallerProofs -------------------------
(* Proofs about EthInstaller, for every number of connections, addresses,  *)
(* width of the id counter and value of the bounds.                        *)
EXTENDS EthInstaller, SequenceTheorems, TLAPS

(***************************************************************************)
(* The record of the installer is filled in as a whole: it names a         *)
(* connection, that connection's address and a valid id, or none of them.  *)
(***************************************************************************)
RecordInv ==
    /\ remote \in Conns \cup {NoConn}
    /\ remote # NoConn => ip_addr = Ip[remote]
    /\ remote = NoConn => ip_addr = NoIp
    /\ IdIsValid

(* Only Accept writes the record.                                          *)
LEMMA OnlyAcceptRecords ==
    ASSUME [Next]_vars, ~\E c \in Conns : Accept(c)
    PROVE  UNCHANGED <<ip_addr, internal_id, remote>>
<1>1. CASE JobCompose
    BY <1>1 DEF JobCompose, appVars
<1>2. CASE JobSend
    BY <1>2 DEF JobSend, appVars
<1>3. CASE HandleTestVers
    BY <1>3 DEF HandleTestVers, TestVers, TestVersClose, AskVersions, appVars
<1>4. CASE MsgSend
    BY <1>4 DEF MsgSend, appVars
<1>5. ASSUME NEW c \in Conns, Close(c)
      PROVE  UNCHANGED <<ip_addr, internal_id, remote>>
    BY <1>5 DEF Close, appVars
<1>6. ASSUME NEW c \in Conns, RecvPart(c)
      PROVE  UNCHANGED <<ip_addr, internal_id, remote>>
    BY <1>6 DEF RecvPart, appVars
<1>7. ASSUME NEW c \in Conns, NEW n \in 1 .. MaxMerge, Recv(c, n)
      PROVE  UNCHANGED <<ip_addr, internal_id, remote>>
    BY <1>7 DEF Recv, appVars
<1>8. ASSUME NEW c \in Conns, Peer(c)
      PROVE  UNCHANGED <<ip_addr, internal_id, remote>>
    BY <1>8 DEF Peer, PeerAnswer, PeerNote, appVars
<1>9. CASE UNCHANGED vars
    BY <1>9 DEF vars, appVars
<1> QED
    BY <1>1, <1>2, <1>3, <1>4, <1>5, <1>6, <1>7, <1>8, <1>9
    DEF Next, MsgThread

(* gen_internal_id never returns 0, whatever the width of the counter.     *)
LEMMA NextIdIsValid == \A i : NextId(i) # 0
BY DEF NextId

LEMMA RecordInit == Init => RecordInv
BY DEF Init, RecordInv, IdIsValid

LEMMA RecordNext == RecordInv /\ [Next]_vars => RecordInv'
<1> SUFFICES ASSUME RecordInv, [Next]_vars
             PROVE  RecordInv'
    OBVIOUS
<1>1. ASSUME NEW c \in Conns, Accept(c)
      PROVE  RecordInv'
    <2>1. remote' = c /\ ip_addr' = Ip[c] /\ internal_id' # 0
        BY <1>1, NextIdIsValid DEF Accept
    <2>2. c # NoConn
        BY InstallerAssumption
    <2> QED
        BY <2>1, <2>2 DEF RecordInv, IdIsValid
<1>2. CASE ~\E c \in Conns : Accept(c)
    BY <1>2, OnlyAcceptRecords DEF RecordInv, IdIsValid
<1> QED
    BY <1>1, <1>2

LEMMA RecordCorrect == Spec => []RecordInv
BY RecordInit, RecordNext, PTL DEF Spec

(***************************************************************************)
(* bs_core_eth_installer_up: the id on record is valid from the first      *)
(* installer on, and 0 before, also when the unsigned counter has wrapped. *)
(***************************************************************************)
THEOREM IdSafe == Spec => []IdIsValid
<1>1. RecordInv => IdIsValid
    BY DEF RecordInv
<1> QED
    BY <1>1, RecordCorrect, PTL

(* No step but Recv both takes a frame of the installer and composes one.  *)
LEMMA RepliesOnRecv ==
    ASSUME [Next]_vars, NEW d \in Conns,
           from_peer'[d] # from_peer[d], msg_out' # msg_out
    PROVE  \E c \in Conns, n \in 1 .. MaxMerge : Recv(c, n)
<1>1. ~JobCompose /\ ~JobSend /\ ~HandleTestVers /\ ~MsgSend
    BY DEF JobCompose, JobSend, HandleTestVers, TestVers, TestVersClose,
           AskVersions, MsgSend, netVars
<1>2. \A c \in Conns : ~Accept(c) /\ ~Close(c) /\ ~RecvPart(c)
    BY DEF Accept, Close, RecvPart
<1>3. \A c \in Conns : ~Peer(c)
    BY DEF Peer, PeerAnswer, PeerNote
<1>4. ~UNCHANGED vars
    BY DEF vars, netVars
<1> QED
    BY <1>1, <1>2, <1>3, <1>4 DEF Next, MsgThread

(* Every connection keeps its stream of frames.                            *)
StreamsInv == DOMAIN from_peer = Conns

LEMMA StreamsCorrect == Spec => []StreamsInv
<1>1. Init => StreamsInv
    BY DEF Init, StreamsInv
<1>2. StreamsInv /\ [Next]_vars => StreamsInv'
    <2> SUFFICES ASSUME StreamsInv, [Next]_vars
                 PROVE  StreamsInv'
        OBVIOUS
    <2>1. CASE JobCompose \/ JobSend \/ HandleTestVers \/ MsgSend
        BY <2>1 DEF JobCompose, JobSend, HandleTestVers, TestVers,
                    TestVersClose, AskVersions, MsgSend, netVars, StreamsInv
    <2>2. ASSUME NEW c \in Conns, Accept(c) \/ Close(c) \/ RecvPart(c)
          PROVE  StreamsInv'
        BY <2>2 DEF Accept, Close, RecvPart, StreamsInv
    <2>3. ASSUME NEW c \in Conns, NEW n \in 1 .. MaxMerge, Recv(c, n)
          PROVE  StreamsInv'
        BY <2>3 DEF Recv, StreamsInv
    <2>4. ASSUME NEW c \in Conns, Peer(c)
          PROVE  StreamsInv'
        BY <2>4 DEF Peer, PeerAnswer, PeerNote, StreamsInv
    <2>5. CASE UNCHANGED vars
        BY <2>5 DEF vars, netVars, StreamsInv
    <2> QED
        BY <2>1, <2>2, <2>3, <2>4, <2>5 DEF Next, MsgThread
<1> QED
    BY <1>1, <1>2, PTL DEF Spec

LEMMA ReplyToRecord ==
    ASSUME RecordInv, StreamsInv, [Next]_vars, NEW d \in Conns,
           from_peer'[d] # from_peer[d], msg_out' # msg_out
    PROVE  Ip[d] = Ip[remote]
<1>1. PICK c \in Conns, n \in 1 .. MaxMerge : Recv(c, n)
    BY RepliesOnRecv
<1>2. d = c
    BY <1>1 DEF Recv, StreamsInv
<1>3. Ip[c] = ip_addr
    BY <1>1 DEF Recv, NoReply
<1>4. Ip[c] # NoIp
    BY InstallerAssumption
<1> QED
    BY <1>2, <1>3, <1>4 DEF RecordInv

(***************************************************************************)
(* bs_eth_installer_msg_handler: what is composed in answer to a message   *)
(* goes to the installer that sent it, since a message is only handled if  *)
(* it comes from the address on record, and the record names a connection  *)
(* from that address.                                                      *)
(***************************************************************************)
THEOREM ReplySafe == Spec => RepliesToSender
<1>1. ASSUME RecordInv, StreamsInv, [Next]_vars
      PROVE  [\A c \in Conns :
                from_peer'[c] # from_peer[c] /\ msg_out' # msg_out
                    => Ip[c] = Ip[remote]]_vars
    BY <1>1, ReplyToRecord
<1> QED
    BY <1>1, RecordCorrect, StreamsCorrect, PTL DEF Spec, RepliesToSender

-----------------------------------------------------------------------------
(***************************************************************************)
(* Type correctness.                                                       *)
(***************************************************************************)

(* The frames the threads compose are requests and none of them is torn.   *)
LEMMA RequestFrames ==
    /\ \A i \in 0 .. NLinks - 1 : Transfer(i) \in Requests
    /\ \A t \in {"REQUEST_VERSIONS", "REQUEST_STATE", "PREPARE_ACTIVATION",
                 "ACTIVATE"} : Frame(t) \in Requests
    /\ NoFrame \notin Requests
    /\ Torn \notin Requests
BY DEF Requests, Transfer, Frame, NoFrame, Torn, NLinks

LEMMA NextIdType ==
    ASSUME NEW i \in 0 .. UIntMax
    PROVE  NextId(i) \in 1 .. UIntMax
<1>1. (i + 1) % (UIntMax + 1) \in 0 .. UIntMax
    BY InstallerAssumption
<1> QED
    BY <1>1, InstallerAssumption DEF NextId

(* What leaves through job.remote is a frame or a torn one.                *)
LEMMA SendRemoteType ==
    ASSUME TypeOK, NEW f \in Requests \cup {Torn}, SendRemote(f)
    PROVE  up' \in BOOLEAN /\ to_peer' \in [Conns -> Seq(Requests \cup {Torn})]
<1>1. \A c \in Conns : Append(to_peer[c], f) \in Seq(Requests \cup {Torn})
    BY AppendProperties DEF TypeOK
<1> QED
    BY <1>1 DEF SendRemote, TypeOK

LEMMA WireType ==
    ASSUME NEW out \in Requests
    PROVE  Wire(out) \in Requests \cup {Torn}
BY DEF Wire

(* A step of the message thread on one task.                               *)
HandledType ==
    /\ up' \in BOOLEAN
    /\ bin_index' \in -1 .. NLinks
    /\ g_vers' \in {"none", "reported", "clobbered"}
    /\ msg' \in Requests \cup {NoFrame}
    /\ msg_out' \in Requests \cup {NoFrame}
    /\ finished' \in Nat
    /\ sent' \in Seq(Requests)

LEMMA ReplyType ==
    ASSUME TypeOK, NEW f \in Requests, NEW index \in -1 .. NLinks,
           Reply(f, index)
    PROVE  HandledType
BY DEF Reply, Compose, TypeOK, HandledType

LEMMA HandleType ==
    ASSUME TypeOK, NEW task, Handle(task)
    PROVE  HandledType
<1>1. CASE OnTransferResult
    <2>1. ASSUME bin_index \in 0 .. NLinks - 1,
                 Reply(Transfer(bin_index), bin_index + 1)
          PROVE  HandledType
        <3>1. Transfer(bin_index) \in Requests /\ bin_index + 1 \in -1 .. NLinks
            BY <2>1, RequestFrames DEF NLinks
        <3> QED
            BY <2>1, <3>1, ReplyType
    <2>2. CASE Reply(Frame("PREPARE_ACTIVATION"), -1)
        BY <2>2, ReplyType, RequestFrames DEF NLinks
    <2>3. CASE NoReply
        BY <2>3 DEF NoReply, TypeOK, HandledType
    <2> QED
        BY <1>1, <2>1, <2>2, <2>3 DEF OnTransferResult
<1>2. CASE OnVersionsResult
    BY <1>2, RequestFrames DEF OnVersionsResult, TypeOK, HandledType
<1>3. CASE OnBareVersionsResult
    BY <1>3 DEF OnBareVersionsResult, TypeOK, HandledType
<1>4. CASE Reply(Frame("ACTIVATE"), bin_index)
    BY <1>4, ReplyType, RequestFrames DEF TypeOK
<1>5. CASE OnStateResult
    <2>1. CASE Reply(Transfer(0), 1)
        BY <2>1, ReplyType, RequestFrames DEF NLinks
    <2>2. CASE NoReply
        BY <2>2 DEF NoReply, TypeOK, HandledType
    <2> QED
        BY <1>5, <2>1, <2>2 DEF OnStateResult
<1>6. CASE OnFinal
    BY <1>6, EmptySeq DEF OnFinal, TypeOK, HandledType, NLinks
<1>7. CASE NoReply
    BY <1>7 DEF NoReply, TypeOK, HandledType
<1> QED
    BY <1>1, <1>2, <1>3, <1>4, <1>5, <1>6, <1>7 DEF Handle

(* The answers of the installer are frames it has.                         *)
LEMMA AnswersType ==
    ASSUME NEW f, NEW a \in AnswersTo(f)
    PROVE  a \in Seq(Answers)
<1>1. ASSUME NEW t \in Answers
      PROVE  <<t>> \in Seq(Answers)
    BY <1>1
<1>2. ASSUME f.task = "REQUEST_VERSIONS"
      PROVE  a \in Seq(Answers)
    BY <1>1, <1>2, InstallerAssumption DEF AnswersTo
<1>3. ASSUME f.task = "ACTIVATE"
      PROVE  a \in Seq(Answers)
    BY <1>3, InstallerAssumption DEF AnswersTo
<1>4. CASE f.task \notin {"REQUEST_VERSIONS", "ACTIVATE"}
    <2>1. a \in {<<>>, <<"REQUEST_STATE_RESULT">>, <<"TRANSFER_PACKAGE">>,
                 <<"PREPARE_ACTIVATION">>}
        BY <1>4 DEF AnswersTo
    <2> QED
        BY <1>1, <2>1, EmptySeq DEF Answers
<1> QED
    BY <1>2, <1>3, <1>4

LEMMA TypeNext == TypeOK /\ [Next]_vars => TypeOK'
<1> SUFFICES ASSUME TypeOK, [Next]_vars
             PROVE  TypeOK'
    OBVIOUS
<1>1. CASE JobCompose
    <2>1. Frame("REQUEST_VERSIONS") \in Requests /\ nvers + 1 \in 0 .. MaxVers
        BY <1>1, RequestFrames, InstallerAssumption DEF JobCompose, TypeOK
    <2> QED
        BY <1>1, <2>1 DEF JobCompose, Compose, TypeOK, netVars, appVars,
                         testVars
<1>2. CASE JobSend
    <2>1. job_out \in Requests
        BY <1>2 DEF JobSend, TypeOK
    <2>2. up' \in BOOLEAN /\ to_peer' \in [Conns -> Seq(Requests \cup {Torn})]
        BY <1>2, <2>1, WireType, SendRemoteType DEF JobSend
    <2> QED
        BY <1>2, <2>2 DEF JobSend, TypeOK, appVars, boundVars, testVars
<1>3. CASE HandleTestVers
    <2>1. AskVersions
        BY <1>3 DEF HandleTestVers, TestVers, TestVersClose
    <2>2. up' \in BOOLEAN /\ to_peer' \in [Conns -> Seq(Requests \cup {Torn})]
        BY <2>1, RequestFrames, SendRemoteType DEF AskVersions
    <2>3. /\ ntest \in 0 .. MaxTest /\ testers \in Nat /\ nclosed \in Nat
          /\ testers + nclosed <= ntest
        BY DEF TypeOK
    <2>4. /\ ntest' \in 0 .. MaxTest /\ testers' \in Nat /\ nclosed' \in Nat
          /\ testers' + nclosed' <= ntest'
        BY <1>3, <2>3, InstallerAssumption
        DEF HandleTestVers, TestVers, TestVersClose
    <2> QED
        BY <2>1, <2>2, <2>4 DEF AskVersions, TypeOK, appVars
<1>4. CASE MsgSend
    <2>1. msg_out \in Requests
        BY <1>4 DEF MsgSend, TypeOK
    <2>2. up' \in BOOLEAN /\ to_peer' \in [Conns -> Seq(Requests \cup {Torn})]
        BY <1>4, <2>1, WireType, SendRemoteType DEF MsgSend
    <2>3. sent' \in Seq(Requests)
        BY <1>4, <2>1, AppendProperties DEF MsgSend, TypeOK
    <2> QED
        BY <1>4, <2>2, <2>3 DEF MsgSend, TypeOK, appVars, boundVars, testVars
<1>5. ASSUME NEW c \in Conns, Accept(c)
      PROVE  TypeOK'
    <2>1. NextId(gen) \in 0 .. UIntMax
        BY NextIdType DEF TypeOK
    <2> QED
        BY <1>5, <2>1 DEF Accept, TypeOK, boundVars, testVars
<1>6. ASSUME NEW c \in Conns, Close(c)
      PROVE  TypeOK'
    BY <1>6, EmptySeq DEF Close, TypeOK, appVars, boundVars, testVars
<1>7. ASSUME NEW c \in Conns, RecvPart(c)
      PROVE  TypeOK'
    <2>1. Tail(from_peer[c]) \in Seq(Answers)
        BY <1>7, HeadTailProperties DEF RecvPart, TypeOK
    <2> QED
        BY <1>7, <2>1 DEF RecvPart, TypeOK, appVars, boundVars, testVars
<1>8. ASSUME NEW c \in Conns, NEW n \in 1 .. MaxMerge, Recv(c, n)
      PROVE  TypeOK'
    <2>1. from_peer[c] \in Seq(Answers) /\ Len(from_peer[c]) \in Nat
        BY LenProperties DEF TypeOK
    <2>2. SubSeq(from_peer[c], n + 1, Len(from_peer[c])) \in Seq(Answers)
        BY <2>1, SubSeqProperties, ElementOfSeq, n \in Nat
    <2>3. HandledType
        BY <1>8, HandleType DEF Recv, NoReply, TypeOK, HandledType
    <2> QED
        BY <1>8, <2>2, <2>3
        DEF Recv, TypeOK, HandledType, appVars, boundVars, testVars
<1>9. ASSUME NEW c \in Conns, PeerAnswer(c)
      PROVE  TypeOK'
    <2>1. \A a \in AnswersTo(Head(to_peer[c])) :
            from_peer[c] \o a \in Seq(Answers)
        BY AnswersType, ConcatProperties DEF TypeOK
    <2>2. Tail(to_peer[c]) \in Seq(Requests \cup {Torn})
        BY <1>9, HeadTailProperties DEF PeerAnswer, TypeOK
    <2>3. from_peer' \in [Conns -> Seq(Answers)]
        BY <1>9, <2>1 DEF PeerAnswer, TypeOK
    <2> QED
        BY <1>9, <2>2, <2>3 DEF PeerAnswer, TypeOK, appVars, boundVars, testVars
<1>10. ASSUME NEW c \in Conns, PeerNote(c)
       PROVE  TypeOK'
    <2>1. Append(from_peer[c], "REPORT_STATE") \in Seq(Answers)
        BY AppendProperties DEF TypeOK, Answers
    <2>2. nnotes' \in 0 .. MaxNotes
        BY <1>10, InstallerAssumption DEF PeerNote, TypeOK
    <2> QED
        BY <1>10, <2>1, <2>2 DEF PeerNote, TypeOK, appVars, testVars
<1>11. CASE UNCHANGED vars
    BY <1>11 DEF vars, TypeOK, netVars, appVars, boundVars, testVars
<1> QED
    BY <1>1, <1>2, <1>3, <1>4, <1>5, <1>6, <1>7, <1>8, <1>9, <1>10, <1>11
    DEF Next, MsgThread, Peer

LEMMA TypeInit == Init => TypeOK
<1> SUFFICES ASSUME Init
             PROVE  TypeOK
    OBVIOUS
<1>1. \A S : <<>> \in Seq(S)
    BY EmptySeq
<1> QED
    BY <1>1, InstallerAssumption DEF Init, TypeOK, NLinks

(***************************************************************************)
(* Every variable keeps its type: in particular bin_index stays where the  *)
(* table of links has an entry for it, or is its length or -1.             *)
(***************************************************************************)
THEOREM EthTypeSafe == Spec => []TypeOK
BY TypeInit, TypeNext, PTL DEF Spec
=============================================================================
