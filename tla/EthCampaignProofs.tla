------------------------- MODULE EthCampaignProofs -------------------------
(* EthInstaller implements Campaign and asks for one package at a time,    *)
(* for every number of connections and value of the bounds, provided that  *)
(* the self-installer answers as OneFinalEach says.                        *)
EXTENDS EthInstallerProofs, FiniteSetTheorems, FunctionTheorems

(***************************************************************************)
(* The inductive invariant.  At any time there is at most one step of a    *)
(* campaign under way - composed in msg_out, on the wire to an installer,  *)
(* or answered and not yet read - and bin_index and what was sent before   *)
(* tell which one it must be.                                              *)
(***************************************************************************)
IsStep(f) == f.task \in {"TRANSFER_PACKAGE", "PREPARE_ACTIVATION", "ACTIVATE"}

StepAt(q, i) == i \in 1 .. Len(q) /\ IsStep(q[i])

AnswerAt(q, i) == i \in 1 .. Len(q) /\ q[i] \in StepAnswers

(* bin_index once the k-th step of the plan was composed.                  *)
IndexAt(k) == IF k <= NLinks THEN k ELSE -1

(* What answers the k-th step of the plan.                                 *)
ResultsOf(k) ==
    IF k <= NLinks THEN {"TRANSFER_PACKAGE"}
    ELSE IF k = NLinks + 1 THEN {"PREPARE_ACTIVATION"} ELSE FinalAnswers

(* REQUEST_VERSIONS is the job thread's, all the others are the message    *)
(* thread's.                                                               *)
ComposedFrames ==
    /\ job_out \in {NoFrame, Frame("REQUEST_VERSIONS")}
    /\ msg_out \in {NoFrame, Frame("REQUEST_STATE")} \/ IsStep(msg_out)

OneStepAtATime ==
    /\ \A c, d \in Conns, i, j \in Nat :
        StepAt(to_peer[c], i) /\ StepAt(to_peer[d], j) => c = d /\ i = j
    /\ \A c, d \in Conns, i, j \in Nat :
        AnswerAt(from_peer[c], i) /\ AnswerAt(from_peer[d], j)
            => c = d /\ i = j
    /\ \A c, d \in Conns, i, j \in Nat :
        ~ (StepAt(to_peer[c], i) /\ AnswerAt(from_peer[d], j))
    /\ IsStep(msg_out) =>
        \A c \in Conns, i \in Nat :
            ~ StepAt(to_peer[c], i) /\ ~ AnswerAt(from_peer[c], i)

SentIsPrefix ==
    /\ Len(sent) <= Len(Plan)
    /\ \A k \in 1 .. Len(sent) : sent[k] = Plan[k]
    /\ bin_index = 0 => sent = <<>>

StepIsNext ==
    /\ IsStep(msg_out) =>
        /\ Len(sent) < Len(Plan)
        /\ msg_out = Plan[Len(sent) + 1]
        /\ bin_index = IndexAt(Len(sent) + 1)
    /\ \A c \in Conns, i \in Nat :
        StepAt(to_peer[c], i) =>
            /\ Len(sent) >= 1
            /\ to_peer[c][i] = Plan[Len(sent)]
            /\ bin_index = IndexAt(Len(sent))
    /\ \A c \in Conns, i \in Nat :
        AnswerAt(from_peer[c], i) =>
            /\ Len(sent) >= 1
            /\ from_peer[c][i] \in ResultsOf(Len(sent))
            /\ bin_index = IndexAt(Len(sent))

CampaignInv ==
    /\ TypeOK
    /\ ComposedFrames
    /\ OneStepAtATime
    /\ SentIsPrefix
    /\ StepIsNext

-----------------------------------------------------------------------------
(***************************************************************************)
(* The plan, and what the queues of frames do to the steps in them.        *)
(***************************************************************************)
LEMMA PlanFacts ==
    /\ Plan \in Seq(Requests)
    /\ NLinks \in Nat \ {0}
    /\ Len(Plan) = NLinks + 2
    /\ \A k \in 1 .. NLinks : Plan[k] = Transfer(k - 1)
    /\ Plan[NLinks + 1] = Frame("PREPARE_ACTIVATION")
    /\ Plan[NLinks + 2] = Frame("ACTIVATE")
<1> DEFINE links == [i \in 1 .. NLinks |-> Transfer(i - 1)]
           ends == <<Frame("PREPARE_ACTIVATION"), Frame("ACTIVATE")>>
<1>1. /\ links \in Seq(Requests) /\ Len(links) = NLinks
      /\ \A k \in 1 .. NLinks : links[k] = Transfer(k - 1)
    BY RequestFrames DEF NLinks
<1>2. /\ ends \in Seq(Requests) /\ Len(ends) = 1 + 1
      /\ ends[1] = Frame("PREPARE_ACTIVATION")
      /\ ends[2] = Frame("ACTIVATE")
    BY RequestFrames
<1>3. Plan = links \o ends
    BY DEF Plan
<1> HIDE DEF links, ends
<1>4. /\ Plan \in Seq(Requests) /\ Len(Plan) = Len(links) + Len(ends)
      /\ \A i \in 1 .. Len(links) + Len(ends) :
            Plan[i] = IF i <= Len(links) THEN links[i] ELSE ends[i - Len(links)]
    BY <1>1, <1>2, <1>3, ConcatProperties
<1>5. NLinks \in Nat \ {0}
    BY DEF NLinks
<1> QED
    BY <1>1, <1>2, <1>4, <1>5

(* Which frames are steps.                                                 *)
LEMMA StepFrames ==
    /\ \A i : IsStep(Transfer(i))
    /\ IsStep(Frame("PREPARE_ACTIVATION")) /\ IsStep(Frame("ACTIVATE"))
    /\ ~ IsStep(Frame("REQUEST_VERSIONS")) /\ ~ IsStep(Frame("REQUEST_STATE"))
    /\ ~ IsStep(NoFrame) /\ ~ IsStep(Torn)
BY DEF IsStep, Transfer, Frame, NoFrame, Torn

LEMMA PlanSteps == \A k \in 1 .. Len(Plan) : IsStep(Plan[k])
<1> TAKE k \in 1 .. Len(Plan)
<1>1. k \in 1 .. NLinks \/ k = NLinks + 1 \/ k = NLinks + 2
    BY PlanFacts
<1> QED
    BY <1>1, PlanFacts, StepFrames

(* A step is under way only in the middle of a campaign: bin_index is not  *)
(* 0 then.                                                                 *)
LEMMA IndexNotZero == \A k \in Nat \ {0} : IndexAt(k) # 0
BY DEF IndexAt

(* The steps of a queue after a frame that is none was put at its end.     *)
LEMMA AppendNoStep ==
    ASSUME NEW S, NEW q \in Seq(S), NEW f \in S, ~ IsStep(f),
           NEW i \in Nat, StepAt(Append(q, f), i)
    PROVE  StepAt(q, i) /\ Append(q, f)[i] = q[i]
BY AppendProperties, LenProperties DEF StepAt

(* The frames of a queue after some at its head were taken out.            *)
LEMMA SubSeqShifts ==
    ASSUME NEW S, NEW q \in Seq(S), NEW n \in Nat, n <= Len(q), NEW i \in Nat,
           i \in 1 .. Len(SubSeq(q, n + 1, Len(q)))
    PROVE  /\ i + n \in 1 .. Len(q)
           /\ SubSeq(q, n + 1, Len(q))[i] = q[i + n]
<1>1. Len(q) \in Nat /\ \A k \in n + 1 .. Len(q) : q[k] \in S
    BY LenProperties, ElementOfSeq
<1> QED
    BY <1>1, SubSeqProperties

LEMMA TailShifts ==
    ASSUME NEW S, NEW q \in Seq(S), q # <<>>, NEW i \in Nat,
           i \in 1 .. Len(Tail(q))
    PROVE  i + 1 \in 1 .. Len(q) /\ Tail(q)[i] = q[i + 1]
BY HeadTailProperties, LenProperties

(* What is left of a queue: its steps are steps of the old one, r places   *)
(* further back.                                                           *)
FewerSteps(old, new, r) ==
    \A i \in Nat : StepAt(new, i) =>
        r \in Nat /\ StepAt(old, i + r) /\ new[i] = old[i + r]

FewerAnswers(old, new, r) ==
    \A i \in Nat : AnswerAt(new, i) =>
        r \in Nat /\ AnswerAt(old, i + r) /\ new[i] = old[i + r]

(* Taking frames out, or adding some that are no steps, keeps the          *)
(* invariant.                                                              *)
LEMMA NoNewStep ==
    ASSUME CampaignInv, TypeOK', UNCHANGED <<bin_index, sent>>,
           ComposedFrames', msg_out' = msg_out \/ ~ IsStep(msg_out'),
           \A c \in Conns :
            \E r \in Nat : FewerSteps(to_peer[c], to_peer'[c], r),
           \A c \in Conns :
            \E r \in Nat : FewerAnswers(from_peer[c], from_peer'[c], r)
    PROVE  CampaignInv'
<1>1. ASSUME NEW c \in Conns, NEW i \in Nat, StepAt(to_peer'[c], i)
      PROVE  \E k \in Nat : /\ StepAt(to_peer[c], k)
                            /\ to_peer'[c][i] = to_peer[c][k]
    <2>1. PICK r \in Nat : FewerSteps(to_peer[c], to_peer'[c], r)
        OBVIOUS
    <2>2. i + r \in Nat
        OBVIOUS
    <2> QED
        BY <1>1, <2>1, <2>2 DEF FewerSteps
<1>2. ASSUME NEW c \in Conns, NEW i \in Nat, AnswerAt(from_peer'[c], i)
      PROVE  \E k \in Nat : /\ AnswerAt(from_peer[c], k)
                            /\ from_peer'[c][i] = from_peer[c][k]
    <2>1. PICK r \in Nat : FewerAnswers(from_peer[c], from_peer'[c], r)
        OBVIOUS
    <2>2. i + r \in Nat
        OBVIOUS
    <2> QED
        BY <1>2, <2>1, <2>2 DEF FewerAnswers
<1>3. ASSUME NEW c \in Conns, NEW d \in Conns, NEW i \in Nat, NEW j \in Nat,
             StepAt(to_peer'[c], i), StepAt(to_peer'[d], j)
      PROVE  c = d /\ i = j
    <2>1. c = d
        BY <1>1, <1>3 DEF CampaignInv, OneStepAtATime
    <2>2. PICK r \in Nat : FewerSteps(to_peer[c], to_peer'[c], r)
        OBVIOUS
    <2>3. StepAt(to_peer[c], i + r) /\ StepAt(to_peer[c], j + r)
        BY <1>3, <2>1, <2>2 DEF FewerSteps
    <2>4. i + r = j + r
        BY <2>3, <2>2 DEF CampaignInv, OneStepAtATime
    <2> QED
        BY <2>1, <2>2, <2>4
<1>4. ASSUME NEW c \in Conns, NEW d \in Conns, NEW i \in Nat, NEW j \in Nat,
             AnswerAt(from_peer'[c], i), AnswerAt(from_peer'[d], j)
      PROVE  c = d /\ i = j
    <2>1. c = d
        BY <1>2, <1>4 DEF CampaignInv, OneStepAtATime
    <2>2. PICK r \in Nat : FewerAnswers(from_peer[c], from_peer'[c], r)
        OBVIOUS
    <2>3. AnswerAt(from_peer[c], i + r) /\ AnswerAt(from_peer[c], j + r)
        BY <1>4, <2>1, <2>2 DEF FewerAnswers
    <2>4. i + r = j + r
        BY <2>3, <2>2 DEF CampaignInv, OneStepAtATime
    <2> QED
        BY <2>1, <2>2, <2>4
<1>5. OneStepAtATime'
    BY <1>1, <1>2, <1>3, <1>4, StepFrames DEF CampaignInv, OneStepAtATime
<1>6. SentIsPrefix'
    BY DEF CampaignInv, SentIsPrefix
<1>7. StepIsNext'
    BY <1>1, <1>2, StepFrames DEF CampaignInv, StepIsNext
<1> QED
    BY <1>5, <1>6, <1>7 DEF CampaignInv

LEMMA SameQueue == \A q : FewerSteps(q, q, 0) /\ FewerAnswers(q, q, 0)
BY DEF FewerSteps, FewerAnswers

(* Sending through job.remote what is no step.                             *)
LEMMA SendsNoStep ==
    ASSUME TypeOK, NEW f \in Requests \cup {Torn}, ~ IsStep(f), SendRemote(f)
    PROVE  \A c \in Conns :
            \E r \in Nat : FewerSteps(to_peer[c], to_peer'[c], r)
<1> TAKE c \in Conns
<1>1. CASE to_peer'[c] = to_peer[c]
    BY <1>1, SameQueue
<1>2. CASE to_peer'[c] = Append(to_peer[c], f)
    <2>1. to_peer[c] \in Seq(Requests \cup {Torn})
        BY DEF TypeOK
    <2>2. ASSUME NEW i \in Nat, StepAt(to_peer'[c], i)
          PROVE  StepAt(to_peer[c], i + 0) /\ to_peer'[c][i] = to_peer[c][i + 0]
        <3>1. StepAt(to_peer[c], i) /\ to_peer'[c][i] = to_peer[c][i]
            <4>1. StepAt(Append(to_peer[c], f), i)
                BY <1>2, <2>2
            <4>2. StepAt(to_peer[c], i) /\ Append(to_peer[c], f)[i] = to_peer[c][i]
                BY <2>1, <4>1, AppendNoStep
            <4> QED
                BY <1>2, <4>2
        <3>2. i + 0 = i
            OBVIOUS
        <3> QED
            BY <3>1, <3>2
    <2>3. FewerSteps(to_peer[c], to_peer'[c], 0)
        BY <2>2 DEF FewerSteps
    <2> QED
        BY <2>3
<1> QED
    BY <1>1, <1>2 DEF SendRemote, TypeOK

(* Reads take frames out of a queue.                                       *)
LEMMA ReadShifts ==
    ASSUME NEW S, NEW q \in Seq(S), NEW n \in Nat, n <= Len(q)
    PROVE  FewerAnswers(q, SubSeq(q, n + 1, Len(q)), n)
BY SubSeqShifts DEF FewerAnswers, AnswerAt

-----------------------------------------------------------------------------
(***************************************************************************)
(* A step is answered, read and followed by the next one.                  *)
(***************************************************************************)
NothingUnderWay ==
    \A d \in Conns, i \in Nat :
        ~ StepAt(to_peer[d], i) /\ ~ AnswerAt(from_peer[d], i)

(* Reading the result of a step leaves no step under way, and the result   *)
(* is that of the step sent last.                                          *)
LEMMA StepIsRead ==
    ASSUME CampaignInv, NEW c \in Conns, NEW n \in Nat \ {0},
           n <= Len(from_peer[c]), from_peer[c][1] \in StepAnswers,
           UNCHANGED to_peer,
           from_peer' = [from_peer EXCEPT
                            ![c] = SubSeq(@, n + 1, Len(@))]
    PROVE  /\ NothingUnderWay'
           /\ Len(sent) \in 1 .. Len(Plan)
           /\ from_peer[c][1] \in ResultsOf(Len(sent))
           /\ bin_index = IndexAt(Len(sent))
<1>1. from_peer[c] \in Seq(Answers) /\ Len(from_peer[c]) \in Nat
    BY LenProperties DEF CampaignInv, TypeOK
<1>2. AnswerAt(from_peer[c], 1)
    BY <1>1 DEF AnswerAt
<1>3. \A d \in Conns, i \in Nat : AnswerAt(from_peer[d], i) => d = c /\ i = 1
    BY <1>2 DEF CampaignInv, OneStepAtATime
<1>4. \A d \in Conns, i \in Nat : ~ StepAt(to_peer[d], i)
    BY <1>2 DEF CampaignInv, OneStepAtATime
<1>5. ASSUME NEW d \in Conns, NEW i \in Nat, AnswerAt(from_peer'[d], i)
      PROVE  FALSE
    <2>1. CASE d = c
        <3>1. from_peer'[c] = SubSeq(from_peer[c], n + 1, Len(from_peer[c]))
            BY DEF CampaignInv, TypeOK
        <3>2. AnswerAt(from_peer[c], i + n)
            BY <1>1, <1>5, <2>1, <3>1, ReadShifts DEF FewerAnswers
        <3>3. i + n # 1
            BY <1>1, <1>5, <2>1, <3>1 DEF AnswerAt
        <3> QED
            BY <1>3, <3>2, <3>3
    <2>2. CASE d # c
        <3>1. from_peer'[d] = from_peer[d]
            BY <2>2 DEF CampaignInv, TypeOK
        <3> QED
            BY <1>3, <1>5, <2>2, <3>1
    <2> QED
        BY <2>1, <2>2
<1>6. sent \in Seq(Requests) /\ Len(sent) \in Nat
    BY LenProperties DEF CampaignInv, TypeOK
<1>7. /\ Len(sent) \in 1 .. Len(Plan)
      /\ from_peer[c][1] \in ResultsOf(Len(sent))
      /\ bin_index = IndexAt(Len(sent))
    <2>1. /\ Len(sent) >= 1
          /\ from_peer[c][1] \in ResultsOf(Len(sent))
          /\ bin_index = IndexAt(Len(sent))
        BY <1>2 DEF CampaignInv, StepIsNext
    <2>2. Len(sent) <= Len(Plan) /\ Len(Plan) \in Nat
        BY PlanFacts DEF CampaignInv, SentIsPrefix
    <2> QED
        BY <1>6, <2>1, <2>2
<1> QED
    BY <1>4, <1>5, <1>7 DEF NothingUnderWay

(* The next step is composed while none is under way.                      *)
LEMMA NextStepComposed ==
    ASSUME CampaignInv, TypeOK', NothingUnderWay', UNCHANGED <<sent, job_out>>,
           NEW k \in 1 .. Len(Plan), k = Len(sent) + 1,
           msg_out' = Plan[k], bin_index' = IndexAt(k)
    PROVE  CampaignInv'
<1>1. ComposedFrames'
    BY PlanSteps DEF CampaignInv, ComposedFrames
<1>2. Len(sent') < Len(Plan) /\ k = Len(sent') + 1
    <2>1. Len(sent) \in Nat
        BY LenProperties DEF CampaignInv, TypeOK
    <2> QED
        BY <2>1, PlanFacts
<1>3. OneStepAtATime' /\ StepIsNext'
    BY <1>2 DEF NothingUnderWay, OneStepAtATime, StepIsNext
<1>4. SentIsPrefix'
    BY IndexNotZero, PlanFacts DEF CampaignInv, SentIsPrefix
<1> QED
    BY <1>1, <1>3, <1>4 DEF CampaignInv

(* A final frame is the answer to the last step of the plan.               *)
LEMMA FinalEnds ==
    ASSUME CampaignInv, TypeOK', NothingUnderWay', OnFinal, msg_out = NoFrame,
           UNCHANGED job_out
    PROVE  CampaignInv'
<1>1. Len(<<>>) = 0 /\ sent' = <<>> /\ bin_index' = 0 /\ msg_out' = NoFrame
    BY DEF OnFinal
<1>2. ~ IsStep(msg_out') /\ ComposedFrames'
    BY <1>1, StepFrames DEF CampaignInv, ComposedFrames
<1>3. OneStepAtATime' /\ StepIsNext'
    BY <1>2 DEF NothingUnderWay, OneStepAtATime, StepIsNext
<1>4. SentIsPrefix'
    <2>1. Len(sent') = 0 /\ Len(Plan) \in Nat /\ sent' = <<>>
        BY <1>1, PlanFacts
    <2> QED
        BY <2>1 DEF SentIsPrefix
<1> QED
    BY <1>2, <1>3, <1>4 DEF CampaignInv

(* The plan is complete when the result of its last step arrives.          *)
LEMMA FinalAfterPlan ==
    ASSUME CampaignInv, Len(sent) \in 1 .. Len(Plan),
           NEW t \in FinalAnswers, t \in ResultsOf(Len(sent))
    PROVE  sent = Plan
<1>1. Len(sent) = Len(Plan)
    <2>1. NLinks \in Nat /\ Len(Plan) = NLinks + 2
        BY PlanFacts
    <2>2. ~ (Len(sent) <= NLinks) /\ Len(sent) # NLinks + 1
        BY <2>1 DEF ResultsOf, FinalAnswers
    <2> QED
        BY <2>1, <2>2
<1>2. sent \in Seq(Requests) /\ Plan \in Seq(Requests)
    BY PlanFacts DEF CampaignInv, TypeOK
<1> QED
    BY <1>1, <1>2, SeqEqual DEF CampaignInv, SentIsPrefix

-----------------------------------------------------------------------------
(***************************************************************************)
(* The invariant, action by action.                                        *)
(***************************************************************************)
LEMMA JobComposeKeeps ==
    ASSUME CampaignInv, TypeOK', JobCompose
    PROVE  CampaignInv'
<1>1. ComposedFrames'
    BY DEF CampaignInv, ComposedFrames, JobCompose
<1> QED
    BY <1>1, NoNewStep, SameQueue DEF JobCompose, netVars

LEMMA JobSendKeeps ==
    ASSUME CampaignInv, TypeOK', JobSend
    PROVE  CampaignInv'
<1>1. job_out = Frame("REQUEST_VERSIONS")
    BY DEF CampaignInv, ComposedFrames, JobSend
<1>2. ~ IsStep(Wire(job_out)) /\ Wire(job_out) \in Requests \cup {Torn}
    BY <1>1, StepFrames, RequestFrames DEF Wire
<1>3. ComposedFrames'
    BY DEF CampaignInv, ComposedFrames, JobSend
<1> QED
    BY <1>2, <1>3, NoNewStep, SendsNoStep, SameQueue DEF JobSend, CampaignInv

LEMMA TestVersKeeps ==
    ASSUME CampaignInv, TypeOK', HandleTestVers
    PROVE  CampaignInv'
<1>1. AskVersions
    BY DEF HandleTestVers, TestVers, TestVersClose
<1>2. ComposedFrames'
    BY <1>1 DEF CampaignInv, ComposedFrames, AskVersions
<1> QED
    BY <1>1, <1>2, NoNewStep, SendsNoStep, StepFrames, RequestFrames, SameQueue
    DEF AskVersions, CampaignInv

LEMMA AcceptKeeps ==
    ASSUME CampaignInv, TypeOK', NEW c \in Conns, Accept(c)
    PROVE  CampaignInv'
<1>1. ComposedFrames'
    BY DEF CampaignInv, ComposedFrames, Accept
<1> QED
    BY <1>1, NoNewStep, SameQueue DEF Accept

LEMMA CloseKeeps ==
    ASSUME CampaignInv, TypeOK', NEW c \in Conns, Close(c)
    PROVE  CampaignInv'
<1>1. ComposedFrames'
    BY DEF CampaignInv, ComposedFrames, Close
<1>2. \A q : FewerSteps(q, <<>>, 0) /\ FewerAnswers(q, <<>>, 0)
    BY DEF FewerSteps, FewerAnswers, StepAt, AnswerAt
<1>3. \A d \in Conns :
        /\ to_peer'[d] = IF d = c THEN <<>> ELSE to_peer[d]
        /\ from_peer'[d] = IF d = c THEN <<>> ELSE from_peer[d]
    BY DEF Close, CampaignInv, TypeOK
<1>4. \A d \in Conns : /\ FewerSteps(to_peer[d], to_peer'[d], 0)
                       /\ FewerAnswers(from_peer[d], from_peer'[d], 0)
    BY <1>2, <1>3, SameQueue
<1> QED
    BY <1>1, <1>4, NoNewStep DEF Close

(* The head of a queue is read away.                                       *)
LEMMA TailFewer ==
    ASSUME NEW S, NEW q \in Seq(S), q # <<>>
    PROVE  FewerSteps(q, Tail(q), 1) /\ FewerAnswers(q, Tail(q), 1)
BY TailShifts DEF FewerSteps, FewerAnswers, StepAt, AnswerAt

LEMMA RecvPartKeeps ==
    ASSUME CampaignInv, TypeOK', NEW c \in Conns, RecvPart(c)
    PROVE  CampaignInv'
<1>1. ComposedFrames'
    BY DEF CampaignInv, ComposedFrames, RecvPart
<1>2. FewerAnswers(from_peer[c], from_peer'[c], 1)
    BY TailFewer DEF RecvPart, CampaignInv, TypeOK
<1>3. \A d \in Conns \ {c} : from_peer'[d] = from_peer[d]
    BY DEF RecvPart, CampaignInv, TypeOK
<1>4. \A d \in Conns :
        \E r \in Nat : FewerAnswers(from_peer[d], from_peer'[d], r)
    BY <1>2, <1>3, SameQueue
<1> QED
    BY <1>1, <1>4, NoNewStep, SameQueue DEF RecvPart

LEMMA PeerNoteKeeps ==
    ASSUME CampaignInv, TypeOK', NEW c \in Conns, PeerNote(c)
    PROVE  CampaignInv'
<1>1. ComposedFrames'
    BY DEF CampaignInv, ComposedFrames, PeerNote
<1> DEFINE q == from_peer[c]
<1>2. /\ q \in Seq(Answers) /\ "REPORT_STATE" \in Answers
      /\ from_peer'[c] = Append(q, "REPORT_STATE")
    BY DEF PeerNote, CampaignInv, TypeOK, Answers
<1>3. ASSUME NEW i \in Nat, AnswerAt(Append(q, "REPORT_STATE"), i)
      PROVE  /\ AnswerAt(q, i + 0)
             /\ Append(q, "REPORT_STATE")[i] = q[i + 0]
    <2>1. "REPORT_STATE" \notin StepAnswers /\ i + 0 = i
        BY DEF StepAnswers, FinalAnswers
    <2> QED
        BY <1>2, <1>3, <2>1, AppendProperties, LenProperties DEF AnswerAt
<1>4. FewerAnswers(q, from_peer'[c], 0)
    BY <1>2, <1>3 DEF FewerAnswers
<1>5. \A d \in Conns \ {c} : from_peer'[d] = from_peer[d]
    BY DEF PeerNote, CampaignInv, TypeOK
<1>6. \A d \in Conns :
        \E r \in Nat : FewerAnswers(from_peer[d], from_peer'[d], r)
    BY <1>4, <1>5, SameQueue
<1> QED
    BY <1>1, <1>6, NoNewStep, SameQueue DEF PeerNote

(* Reading frames of which the first is not the result of a step, or is    *)
(* not handled.                                                            *)
LEMMA RecvNoStep ==
    ASSUME CampaignInv, TypeOK', ComposedFrames',
           NEW c \in Conns, NEW n \in Nat, n <= Len(from_peer[c]),
           UNCHANGED <<to_peer, bin_index, sent>>,
           from_peer' = [from_peer EXCEPT
                            ![c] = SubSeq(@, n + 1, Len(@))],
           msg_out' = msg_out \/ ~ IsStep(msg_out')
    PROVE  CampaignInv'
<1>1. FewerAnswers(from_peer[c], from_peer'[c], n)
    BY ReadShifts DEF CampaignInv, TypeOK
<1>2. \A d \in Conns \ {c} : from_peer'[d] = from_peer[d]
    BY DEF CampaignInv, TypeOK
<1>3. \A d \in Conns :
        \E r \in Nat : FewerAnswers(from_peer[d], from_peer'[d], r)
    BY <1>1, <1>2, SameQueue
<1> QED
    BY <1>3, NoNewStep, SameQueue

LEMMA RecvKeeps ==
    ASSUME CampaignInv, TypeOK', NEW c \in Conns, NEW n \in 1 .. MaxMerge,
           Recv(c, n)
    PROVE  CampaignInv'
<1> DEFINE t == from_peer[c][1]
<1>1. /\ n \in Nat \ {0} /\ n <= Len(from_peer[c])
      /\ msg_out = NoFrame
      /\ UNCHANGED <<to_peer, job_out>>
      /\ from_peer' = [from_peer EXCEPT ![c] = SubSeq(@, n + 1, Len(@))]
    BY InstallerAssumption DEF Recv, MsgIdle
<1>2. CASE /\ UNCHANGED <<bin_index, sent>>
           /\ msg_out' \in {msg_out, Frame("REQUEST_STATE")}
    <2>1. ComposedFrames' /\ (msg_out' = msg_out \/ ~ IsStep(msg_out'))
        BY <1>1, <1>2, StepFrames DEF CampaignInv, ComposedFrames
    <2> QED
        BY <1>1, <1>2, <2>1, RecvNoStep
<1>3. CASE t \in StepAnswers /\ Handle(t)
    <2>1. /\ NothingUnderWay'
          /\ Len(sent) \in 1 .. Len(Plan)
          /\ t \in ResultsOf(Len(sent))
          /\ bin_index = IndexAt(Len(sent))
        BY <1>1, <1>3, StepIsRead
    <2>2. NLinks \in Nat \ {0} /\ Len(Plan) = NLinks + 2
        BY PlanFacts
    <2>3. CASE t = "TRANSFER_PACKAGE"
        <3>1. bin_index = Len(sent) /\ Len(sent) <= NLinks
            BY <2>1, <2>2, <2>3 DEF ResultsOf, FinalAnswers, IndexAt
        <3>2. OnTransferResult
            BY <1>3, <2>3 DEF Handle
        <3>3. CASE /\ bin_index \in 0 .. NLinks - 1
                   /\ Reply(Transfer(bin_index), bin_index + 1)
            <4>1. /\ Transfer(bin_index) = Plan[Len(sent) + 1]
                  /\ bin_index + 1 = IndexAt(Len(sent) + 1)
                  /\ Len(sent) + 1 \in 1 .. Len(Plan)
                BY <2>1, <2>2, <3>1, <3>3, PlanFacts DEF IndexAt
            <4> QED
                BY <1>1, <2>1, <3>3, <4>1, NextStepComposed DEF Reply
        <3>4. CASE /\ bin_index = NLinks
                   /\ Reply(Frame("PREPARE_ACTIVATION"), -1)
            <4>1. /\ Frame("PREPARE_ACTIVATION") = Plan[Len(sent) + 1]
                  /\ -1 = IndexAt(Len(sent) + 1)
                  /\ Len(sent) + 1 \in 1 .. Len(Plan)
                BY <2>1, <2>2, <3>1, <3>4, PlanFacts DEF IndexAt
            <4> QED
                BY <1>1, <2>1, <3>4, <4>1, NextStepComposed DEF Reply
        <3> QED
            BY <2>1, <3>1, <3>2, <3>3, <3>4 DEF OnTransferResult
    <2>4. CASE t = "PREPARE_ACTIVATION"
        <3>1. Len(sent) = NLinks + 1 /\ bin_index = -1
            BY <2>1, <2>2, <2>4 DEF ResultsOf, FinalAnswers, IndexAt
        <3>2. Reply(Frame("ACTIVATE"), bin_index)
            BY <1>3, <2>4 DEF Handle
        <3>3. /\ Frame("ACTIVATE") = Plan[Len(sent) + 1]
              /\ bin_index = IndexAt(Len(sent) + 1)
              /\ Len(sent) + 1 \in 1 .. Len(Plan)
            BY <2>1, <2>2, <3>1, PlanFacts DEF IndexAt
        <3> QED
            BY <1>1, <2>1, <3>2, <3>3, NextStepComposed DEF Reply
    <2>5. CASE t \in FinalAnswers
        BY <1>1, <1>3, <2>1, <2>5, FinalEnds DEF Handle, FinalAnswers
    <2> QED
        BY <1>3, <2>3, <2>4, <2>5 DEF StepAnswers
<1>4. CASE /\ t = "REQUEST_STATE_RESULT" /\ bin_index = 0
           /\ Reply(Transfer(0), 1)
    <2>1. NothingUnderWay
        <3>1. Len(sent) >= 1 => bin_index # IndexAt(Len(sent))
            BY <1>4, IndexNotZero, LenProperties DEF CampaignInv, TypeOK
        <3> QED
            BY <3>1 DEF NothingUnderWay, CampaignInv, StepIsNext
    <2>2. \A d \in Conns, i \in Nat : ~ AnswerAt(from_peer'[d], i)
        <3>1. FewerAnswers(from_peer[c], from_peer'[c], n)
            BY <1>1, ReadShifts DEF CampaignInv, TypeOK
        <3>2. \A d \in Conns \ {c} : from_peer'[d] = from_peer[d]
            BY <1>1 DEF CampaignInv, TypeOK
        <3>3. \A i \in Nat : i + n \in Nat
            BY <1>1
        <3> QED
            BY <2>1, <3>1, <3>2, <3>3 DEF NothingUnderWay, FewerAnswers
    <2>3. NothingUnderWay'
        BY <1>1, <2>1, <2>2 DEF NothingUnderWay
    <2>4. Len(<<>>) + 1 = 1 /\ sent = <<>>
        BY <1>4 DEF CampaignInv, SentIsPrefix
    <2>5. 1 \in 1 .. Len(Plan) /\ Transfer(0) = Plan[1] /\ IndexAt(1) = 1
        BY PlanFacts DEF IndexAt
    <2> QED
        BY <1>1, <1>4, <2>3, <2>4, <2>5, NextStepComposed DEF Reply
<1> QED
    BY <1>2, <1>3, <1>4
    DEF Recv, NoReply, Handle, OnVersionsResult, OnBareVersionsResult,
        OnStateResult, StepAnswers, FinalAnswers

(* A step that reaches the wire whole is the one that was sent last.       *)
LEMMA StepSent ==
    ASSUME CampaignInv, TypeOK', ComposedFrames', IsStep(msg_out),
           NEW r \in Conns,
           to_peer' = [to_peer EXCEPT ![r] = Append(@, msg_out)],
           sent' = Append(sent, msg_out), ~ IsStep(msg_out'),
           UNCHANGED <<from_peer, bin_index>>
    PROVE  CampaignInv'
<1> DEFINE q == to_peer[r]
<1>1. /\ q \in Seq(Requests \cup {Torn}) /\ Len(q) \in Nat
      /\ sent \in Seq(Requests) /\ Len(sent) \in Nat
      /\ msg_out \in Requests
    BY LenProperties, StepFrames DEF CampaignInv, TypeOK
<1>2. /\ to_peer'[r] = Append(q, msg_out)
      /\ \A d \in Conns \ {r} : to_peer'[d] = to_peer[d]
    BY DEF CampaignInv, TypeOK
<1>3. /\ Len(Append(q, msg_out)) = Len(q) + 1
      /\ \A i \in 1 .. Len(q) : Append(q, msg_out)[i] = q[i]
      /\ Append(q, msg_out)[Len(q) + 1] = msg_out
    BY <1>1, AppendProperties
<1>4. /\ Len(sent') = Len(sent) + 1
      /\ \A i \in 1 .. Len(sent) : sent'[i] = sent[i]
      /\ sent'[Len(sent) + 1] = msg_out
    BY <1>1, AppendProperties
<1>5. /\ Len(sent) < Len(Plan)
      /\ msg_out = Plan[Len(sent) + 1]
      /\ bin_index = IndexAt(Len(sent) + 1)
    BY DEF CampaignInv, StepIsNext
<1>6. NothingUnderWay
    BY DEF CampaignInv, OneStepAtATime, NothingUnderWay
<1>7. ASSUME NEW d \in Conns, NEW i \in Nat, StepAt(to_peer'[d], i)
      PROVE  d = r /\ i = Len(q) + 1
    <2>1. d = r
        BY <1>2, <1>6, <1>7 DEF NothingUnderWay
    <2>2. i \in 1 .. Len(q) => StepAt(q, i)
        BY <1>2, <1>3, <1>7, <2>1 DEF StepAt
    <2>3. i \in 1 .. Len(q) + 1
        BY <1>2, <1>3, <1>7, <2>1 DEF StepAt
    <2> QED
        BY <1>1, <1>6, <2>1, <2>2, <2>3 DEF NothingUnderWay
<1>8. \A d \in Conns, i \in Nat : ~ AnswerAt(from_peer'[d], i)
    BY <1>6 DEF NothingUnderWay
<1>9. OneStepAtATime'
    BY <1>7, <1>8 DEF OneStepAtATime
<1>10. SentIsPrefix'
    <2>1. Len(Plan) \in Nat /\ bin_index # 0
        BY <1>1, <1>5, PlanFacts, IndexNotZero
    <2>2. ASSUME NEW k \in 1 .. Len(sent')
          PROVE  sent'[k] = Plan[k]
        BY <1>1, <1>4, <1>5 DEF CampaignInv, SentIsPrefix
    <2> QED
        BY <1>1, <1>4, <1>5, <2>1, <2>2 DEF SentIsPrefix
<1>11. StepIsNext'
    <2>1. ASSUME NEW d \in Conns, NEW i \in Nat, StepAt(to_peer'[d], i)
          PROVE  /\ Len(sent') >= 1
                 /\ to_peer'[d][i] = Plan[Len(sent')]
                 /\ bin_index' = IndexAt(Len(sent'))
        <3>1. d = r /\ i = Len(q) + 1
            BY <1>7, <2>1
        <3>2. to_peer'[d][i] = msg_out
            BY <1>2, <1>3, <3>1
        <3>3. Len(sent') = Len(sent) + 1 /\ Len(sent') >= 1
            BY <1>1, <1>4
        <3> QED
            BY <1>5, <3>2, <3>3
    <2> QED
        BY <1>8, <2>1 DEF StepIsNext
<1> QED
    BY <1>9, <1>10, <1>11 DEF CampaignInv

LEMMA MsgSendKeeps ==
    ASSUME CampaignInv, TypeOK', MsgSend
    PROVE  CampaignInv'
<1>1. /\ msg_out \in Requests /\ msg_out # NoFrame /\ msg_out' = NoFrame
      /\ SendRemote(Wire(msg_out))
      /\ UNCHANGED <<from_peer, bin_index, job_out>>
    BY DEF MsgSend, CampaignInv, TypeOK
<1>2. ~ IsStep(msg_out') /\ ComposedFrames'
    BY <1>1, StepFrames DEF CampaignInv, ComposedFrames
<1>3. msg_out = Frame("REQUEST_STATE") \/ IsStep(msg_out)
    BY <1>1 DEF CampaignInv, ComposedFrames
<1>4. \A d \in Conns : \E k \in Nat :
        FewerAnswers(from_peer[d], from_peer'[d], k)
    BY <1>1, SameQueue
<1>5. CASE ~ IsStep(Wire(msg_out))
    <2>1. sent' = sent
        <3>1. Wire(msg_out) = Torn \/ msg_out.task = "REQUEST_STATE"
            BY <1>3, <1>5 DEF Wire, Frame
        <3> QED
            BY <3>1 DEF MsgSend
    <2>2. \A d \in Conns : \E k \in Nat :
            FewerSteps(to_peer[d], to_peer'[d], k)
        BY <1>1, <1>5, WireType, SendsNoStep DEF CampaignInv
    <2> QED
        BY <1>1, <1>2, <1>4, <2>1, <2>2, NoNewStep
<1>6. CASE IsStep(Wire(msg_out)) /\ UNCHANGED to_peer
    <2>1. sent' = sent
        BY <1>6 DEF MsgSend
    <2> QED
        BY <1>1, <1>2, <1>4, <1>6, <2>1, NoNewStep, SameQueue
<1>7. CASE IsStep(Wire(msg_out)) /\ ~ UNCHANGED to_peer
    <2>1. Wire(msg_out) = msg_out /\ Wire(msg_out) # Torn
        BY <1>7, StepFrames DEF Wire
    <2>2. msg_out.task # "REQUEST_STATE"
        BY <1>7, <2>1 DEF IsStep
    <2>3. sent' = Append(sent, msg_out)
        BY <1>7, <2>1, <2>2 DEF MsgSend
    <2>4. /\ remote \in Conns
          /\ to_peer' = [to_peer EXCEPT ![remote] = Append(@, msg_out)]
        BY <1>1, <1>7, <2>1 DEF SendRemote, CampaignInv, TypeOK
    <2> QED
        BY <1>1, <1>2, <1>7, <2>1, <2>3, <2>4, StepSent
<1> QED
    BY <1>5, <1>6, <1>7

-----------------------------------------------------------------------------
(***************************************************************************)
(* What the self-installer puts into the invariant.                        *)
(***************************************************************************)
LEMMA AnswersByTask ==
    ASSUME NEW f, NEW a \in AnswersTo(f)
    PROVE  \/ f.task = "REQUEST_VERSIONS" /\ \E v \in Versions : a = <<v>>
           \/ f.task = "REQUEST_STATE" /\ a = <<"REQUEST_STATE_RESULT">>
           \/ f.task = "TRANSFER_PACKAGE" /\ a = <<"TRANSFER_PACKAGE">>
           \/ f.task = "PREPARE_ACTIVATION" /\ a = <<"PREPARE_ACTIVATION">>
           \/ f.task = "ACTIVATE" /\ a \in Finals
           \/ /\ ~ IsStep(f)
              /\ f.task \notin {"REQUEST_VERSIONS", "REQUEST_STATE"}
              /\ a = <<>>
BY DEF AnswersTo, IsStep

(* What is no step has no answer that moves a campaign on.                 *)
LEMMA NoStepNoAnswer ==
    ASSUME OneFinalEach, NEW f, ~ IsStep(f), NEW a \in AnswersTo(f),
           NEW i \in 1 .. Len(a)
    PROVE  a[i] \notin StepAnswers
<1>1. \/ \E v \in Versions : a = <<v>>
      \/ a = <<"REQUEST_STATE_RESULT">>
      \/ a = <<>>
    BY AnswersByTask DEF IsStep
<1>2. "REQUEST_STATE_RESULT" \notin StepAnswers
    BY DEF StepAnswers, FinalAnswers
<1> QED
    BY <1>1, <1>2 DEF OneFinalEach

(* A step has one such answer at the most, and it is the result of that    *)
(* step.                                                                   *)
LEMMA StepAnswered ==
    ASSUME OneFinalEach, NEW k \in 1 .. Len(Plan), NEW a \in AnswersTo(Plan[k])
    PROVE  /\ \A i \in 1 .. Len(a) :
                a[i] \in StepAnswers => a[i] \in ResultsOf(k)
           /\ \A i, j \in 1 .. Len(a) :
                a[i] \in StepAnswers /\ a[j] \in StepAnswers => i = j
<1>1. k \in 1 .. NLinks \/ k = NLinks + 1 \/ k = NLinks + 2
    BY PlanFacts
<1>2. CASE k \in 1 .. NLinks
    <2>1. Plan[k].task = "TRANSFER_PACKAGE"
        <3>1. Plan[k] = Transfer(k - 1)
            BY <1>2, PlanFacts
        <3> QED
            BY <3>1 DEF Transfer
    <2>2. a = <<"TRANSFER_PACKAGE">>
        BY <2>1, AnswersByTask DEF IsStep
    <2> QED
        BY <1>2, <2>2 DEF ResultsOf
<1>3. CASE k = NLinks + 1
    <2>1. Plan[k].task = "PREPARE_ACTIVATION"
        BY <1>3, PlanFacts DEF Frame
    <2>2. a = <<"PREPARE_ACTIVATION">>
        BY <2>1, AnswersByTask DEF IsStep
    <2>3. ResultsOf(k) = {"PREPARE_ACTIVATION"}
        BY <1>3, PlanFacts DEF ResultsOf
    <2> QED
        BY <2>2, <2>3
<1>4. CASE k = NLinks + 2
    <2>1. Plan[k].task = "ACTIVATE"
        BY <1>4, PlanFacts DEF Frame
    <2>2. a \in Finals
        BY <2>1, AnswersByTask DEF IsStep
    <2>3. ResultsOf(k) = FinalAnswers
        BY <1>4, PlanFacts DEF ResultsOf
    <2> QED
        BY <2>2, <2>3 DEF OneFinalEach
<1> QED
    BY <1>1, <1>2, <1>3, <1>4

LEMMA PeerAnswerKeeps ==
    ASSUME OneFinalEach, CampaignInv, TypeOK', NEW c \in Conns, PeerAnswer(c)
    PROVE  CampaignInv'
<1> DEFINE q == to_peer[c]
           p == from_peer[c]
           f == Head(q)
<1>1. PICK a \in AnswersTo(f) :
        from_peer' = [from_peer EXCEPT ![c] = @ \o a]
    BY DEF PeerAnswer
<1>2. /\ q \in Seq(Requests \cup {Torn}) /\ q # <<>> /\ f = q[1]
      /\ Len(q) \in Nat /\ 1 \in 1 .. Len(q)
      /\ p \in Seq(Answers) /\ Len(p) \in Nat
      /\ a \in Seq(Answers) /\ Len(a) \in Nat
    <2>1. /\ q \in Seq(Requests \cup {Torn}) /\ q # <<>>
          /\ p \in Seq(Answers)
        BY DEF PeerAnswer, CampaignInv, TypeOK
    <2>2. f = q[1] /\ Len(q) \in Nat /\ 1 \in 1 .. Len(q)
        BY <2>1, LenProperties, HeadTailProperties, EmptySeq
    <2>3. a \in Seq(Answers)
        BY AnswersType
    <2> QED
        BY <2>1, <2>2, <2>3, LenProperties
<1>3. /\ to_peer'[c] = Tail(q) /\ from_peer'[c] = p \o a
      /\ \A d \in Conns \ {c} : /\ to_peer'[d] = to_peer[d]
                               /\ from_peer'[d] = from_peer[d]
    BY <1>1 DEF PeerAnswer, CampaignInv, TypeOK
<1>4. UNCHANGED <<bin_index, sent, msg_out, job_out>> /\ ComposedFrames'
    BY DEF PeerAnswer, CampaignInv, ComposedFrames
<1>5. /\ Len(p \o a) = Len(p) + Len(a)
      /\ \A i \in 1 .. Len(p) + Len(a) :
            (p \o a)[i] = IF i <= Len(p) THEN p[i] ELSE a[i - Len(p)]
    BY <1>2, ConcatProperties
<1>6. FewerSteps(q, Tail(q), 1)
    BY <1>2, TailFewer
<1>7. CASE ~ IsStep(f)
    <2>1. \A i \in 1 .. Len(a) : a[i] \notin StepAnswers
        BY <1>7, NoStepNoAnswer
    <2>2. ASSUME NEW i \in Nat, AnswerAt(p \o a, i)
          PROVE  AnswerAt(p, i + 0) /\ (p \o a)[i] = p[i + 0]
        <3>1. i \in 1 .. Len(p) + Len(a) /\ (p \o a)[i] \in StepAnswers
            BY <1>5, <2>2 DEF AnswerAt
        <3>2. ~ (i <= Len(p)) => i - Len(p) \in 1 .. Len(a)
            BY <1>2, <3>1
        <3>3. i <= Len(p)
            BY <1>5, <2>1, <3>1, <3>2
        <3>4. i + 0 = i
            OBVIOUS
        <3> QED
            BY <1>2, <1>5, <3>1, <3>3, <3>4 DEF AnswerAt
    <2>3. FewerAnswers(p, p \o a, 0)
        BY <2>2 DEF FewerAnswers
    <2>4. \A d \in Conns : \E k \in Nat :
            FewerSteps(to_peer[d], to_peer'[d], k)
        BY <1>3, <1>6, SameQueue
    <2>5. \A d \in Conns : \E k \in Nat :
            FewerAnswers(from_peer[d], from_peer'[d], k)
        BY <1>3, <2>3, SameQueue
    <2> QED
        BY <1>4, <2>4, <2>5, NoNewStep
<1>8. CASE IsStep(f)
    <2>1. StepAt(q, 1)
        BY <1>2, <1>8 DEF StepAt
    <2>2. /\ \A d \in Conns, i \in Nat : StepAt(to_peer[d], i) => d = c /\ i = 1
          /\ \A d \in Conns, i \in Nat : ~ AnswerAt(from_peer[d], i)
          /\ ~ IsStep(msg_out)
        BY <2>1 DEF CampaignInv, OneStepAtATime
    <2>3. /\ Len(sent) \in 1 .. Len(Plan)
          /\ f = Plan[Len(sent)]
          /\ bin_index = IndexAt(Len(sent))
        <3>1. sent \in Seq(Requests) /\ Len(sent) \in Nat /\ Len(Plan) \in Nat
            BY LenProperties, PlanFacts DEF CampaignInv, TypeOK
        <3>2. /\ Len(sent) >= 1 /\ q[1] = Plan[Len(sent)]
              /\ bin_index = IndexAt(Len(sent))
            BY <2>1 DEF CampaignInv, StepIsNext
        <3>3. Len(sent) <= Len(Plan)
            BY DEF CampaignInv, SentIsPrefix
        <3> QED
            BY <1>2, <3>1, <3>2, <3>3
    <2>4. ASSUME NEW d \in Conns, NEW i \in Nat, StepAt(to_peer'[d], i)
          PROVE  FALSE
        <3>1. d = c
            BY <1>3, <2>2, <2>4
        <3>2. StepAt(q, i + 1) /\ i + 1 \in Nat
            BY <1>3, <1>6, <2>4, <3>1 DEF FewerSteps
        <3>3. i # 0
            BY <2>4 DEF StepAt
        <3> QED
            BY <2>2, <3>2, <3>3
    <2>5. ASSUME NEW d \in Conns, NEW i \in Nat, AnswerAt(from_peer'[d], i)
          PROVE  /\ d = c /\ i - Len(p) \in 1 .. Len(a)
                 /\ from_peer'[d][i] = a[i - Len(p)]
                 /\ a[i - Len(p)] \in StepAnswers
        <3>1. d = c
            BY <1>3, <2>2, <2>5
        <3>2. i \in 1 .. Len(p) + Len(a) /\ (p \o a)[i] \in StepAnswers
            BY <1>3, <1>5, <2>5, <3>1 DEF AnswerAt
        <3>3. ~ (i <= Len(p))
            <4>1. i <= Len(p) => AnswerAt(p, i)
                BY <1>2, <1>5, <3>2 DEF AnswerAt
            <4> QED
                BY <2>2, <4>1
        <3> QED
            BY <1>2, <1>3, <1>5, <3>1, <3>2, <3>3
    <2>6. /\ \A i \in 1 .. Len(a) :
                a[i] \in StepAnswers => a[i] \in ResultsOf(Len(sent))
          /\ \A i, j \in 1 .. Len(a) :
                a[i] \in StepAnswers /\ a[j] \in StepAnswers => i = j
        BY <2>3, StepAnswered
    <2>7. OneStepAtATime'
        <3>1. ASSUME NEW d \in Conns, NEW e \in Conns, NEW i \in Nat, NEW j \in Nat,
                     AnswerAt(from_peer'[d], i), AnswerAt(from_peer'[e], j)
              PROVE  d = e /\ i = j
            <4> DEFINE m == i - Len(p)
                       n == j - Len(p)
            <4>1. d = c /\ m \in 1 .. Len(a) /\ a[m] \in StepAnswers
                BY <2>5, <3>1
            <4>2. e = c /\ n \in 1 .. Len(a) /\ a[n] \in StepAnswers
                BY <2>5, <3>1
            <4>3. m = n
                BY <2>6, <4>1, <4>2
            <4> QED
                BY <1>2, <4>1, <4>2, <4>3
        <3>2. ~ IsStep(msg_out')
            BY <1>4, <2>2
        <3> QED
            BY <2>4, <3>1, <3>2 DEF OneStepAtATime
    <2>8. SentIsPrefix'
        BY <1>4 DEF CampaignInv, SentIsPrefix
    <2>9. StepIsNext'
        <3>1. ASSUME NEW d \in Conns, NEW i \in Nat, AnswerAt(from_peer'[d], i)
              PROVE  /\ Len(sent') >= 1
                     /\ from_peer'[d][i] \in ResultsOf(Len(sent'))
                     /\ bin_index' = IndexAt(Len(sent'))
            <4>1. from_peer'[d][i] \in ResultsOf(Len(sent))
                BY <2>5, <2>6, <3>1
            <4>2. sent' = sent /\ bin_index' = bin_index /\ Len(sent) >= 1
                BY <1>4, <2>3, PlanFacts
            <4> QED
                BY <2>3, <4>1, <4>2
        <3>2. ~ IsStep(msg_out')
            BY <1>4, <2>2
        <3> QED
            BY <2>4, <3>1, <3>2 DEF StepIsNext
    <2> QED
        BY <1>4, <2>7, <2>8, <2>9 DEF CampaignInv
<1> QED
    BY <1>7, <1>8

LEMMA CampaignInit == Init => CampaignInv
<1> SUFFICES ASSUME Init
             PROVE  CampaignInv
    OBVIOUS
<1>1. TypeOK
    BY TypeInit
<1>2. /\ Len(sent) = 0 /\ sent = <<>> /\ Len(Plan) \in Nat
      /\ \A c \in Conns : to_peer[c] = <<>> /\ from_peer[c] = <<>>
      /\ job_out = NoFrame /\ msg_out = NoFrame
    BY PlanFacts DEF Init
<1>3. \A c \in Conns, i \in Nat :
        ~ StepAt(to_peer[c], i) /\ ~ AnswerAt(from_peer[c], i)
    BY <1>2 DEF StepAt, AnswerAt
<1>4. ~ IsStep(msg_out)
    BY <1>2, StepFrames
<1>5. ComposedFrames
    BY <1>2 DEF ComposedFrames
<1>6. OneStepAtATime /\ StepIsNext
    BY <1>3, <1>4 DEF OneStepAtATime, StepIsNext
<1>7. SentIsPrefix
    BY <1>2 DEF SentIsPrefix
<1> QED
    BY <1>1, <1>5, <1>6, <1>7 DEF CampaignInv

LEMMA CampaignNext ==
    ASSUME OneFinalEach, CampaignInv, [Next]_vars
    PROVE  CampaignInv'
<1>1. TypeOK'
    BY TypeNext DEF CampaignInv
<1>2. CASE JobCompose
    BY <1>1, <1>2, JobComposeKeeps
<1>3. CASE JobSend
    BY <1>1, <1>3, JobSendKeeps
<1>4. CASE HandleTestVers
    BY <1>1, <1>4, TestVersKeeps
<1>5. CASE MsgSend
    BY <1>1, <1>5, MsgSendKeeps
<1>6. ASSUME NEW c \in Conns, Accept(c)
      PROVE  CampaignInv'
    BY <1>1, <1>6, AcceptKeeps
<1>7. ASSUME NEW c \in Conns, Close(c)
      PROVE  CampaignInv'
    BY <1>1, <1>7, CloseKeeps
<1>8. ASSUME NEW c \in Conns, RecvPart(c)
      PROVE  CampaignInv'
    BY <1>1, <1>8, RecvPartKeeps
<1>9. ASSUME NEW c \in Conns, NEW n \in 1 .. MaxMerge, Recv(c, n)
      PROVE  CampaignInv'
    BY <1>1, <1>9, RecvKeeps
<1>10. ASSUME NEW c \in Conns, PeerAnswer(c)
       PROVE  CampaignInv'
    BY <1>1, <1>10, PeerAnswerKeeps
<1>11. ASSUME NEW c \in Conns, PeerNote(c)
       PROVE  CampaignInv'
    BY <1>1, <1>11, PeerNoteKeeps
<1>12. CASE UNCHANGED vars
    <2>1. ComposedFrames'
        BY <1>12 DEF vars, CampaignInv, ComposedFrames
    <2> QED
        BY <1>1, <1>12, <2>1, NoNewStep, SameQueue DEF vars, netVars
<1> QED
    BY <1>2, <1>3, <1>4, <1>5, <1>6, <1>7, <1>8, <1>9, <1>10, <1>11, <1>12
    DEF Next, MsgThread, Peer

LEMMA CampaignCorrect ==
    ASSUME OneFinalEach
    PROVE  Spec => []CampaignInv
BY CampaignInit, CampaignNext, OneFinalEach, PTL DEF Spec

-----------------------------------------------------------------------------
(* Every step of the installer threads is one of the abstract campaign, or *)
(* one it does not see.                                                    *)
Abstract == <<sent, finished>>

LEMMA SendHandsOver ==
    ASSUME CampaignInv, MsgSend
    PROVE  [Promise!Next]_Abstract
<1>1. CASE sent' = sent
    BY <1>1 DEF MsgSend, Abstract
<1>2. CASE sent' # sent
    <2>1. /\ msg_out.task # "REQUEST_STATE" /\ msg_out # NoFrame
          /\ sent' = Append(sent, msg_out) /\ finished' = finished
        BY <1>2 DEF MsgSend
    <2>2. IsStep(msg_out)
        BY <2>1 DEF CampaignInv, ComposedFrames, Frame
    <2>3. Len(sent) < Len(Plan) /\ msg_out = Plan[Len(sent) + 1]
        BY <2>2 DEF CampaignInv, StepIsNext
    <2> QED
        BY <2>1, <2>3 DEF Promise!Next, Promise!HandOver
<1> QED
    BY <1>1, <1>2

LEMMA RecvFinishes ==
    ASSUME CampaignInv, NEW c \in Conns, NEW n \in 1 .. MaxMerge, Recv(c, n)
    PROVE  [Promise!Next]_Abstract
<1>1. CASE UNCHANGED <<sent, finished>>
    BY <1>1 DEF Abstract
<1>2. CASE OnFinal /\ from_peer[c][1] \in FinalAnswers
    <2>1. /\ n \in Nat \ {0} /\ n <= Len(from_peer[c])
          /\ from_peer' = [from_peer EXCEPT ![c] = SubSeq(@, n + 1, Len(@))]
          /\ UNCHANGED to_peer
        BY InstallerAssumption DEF Recv
    <2>2. /\ Len(sent) \in 1 .. Len(Plan)
          /\ from_peer[c][1] \in ResultsOf(Len(sent))
        BY <1>2, <2>1, StepIsRead DEF StepAnswers
    <2>3. sent = Plan
        BY <1>2, <2>2, FinalAfterPlan
    <2> QED
        BY <1>2, <2>3 DEF OnFinal, Promise!Next, Promise!Finish
<1> QED
    BY <1>1, <1>2
    DEF Recv, Handle, NoReply, OnTransferResult, OnVersionsResult,
        OnBareVersionsResult, OnStateResult, Reply, FinalAnswers

LEMMA CampaignStep ==
    ASSUME CampaignInv, [Next]_vars
    PROVE  [Promise!Next]_Abstract
<1>1. CASE MsgSend
    BY <1>1, SendHandsOver
<1>2. ASSUME NEW c \in Conns, NEW n \in 1 .. MaxMerge, Recv(c, n)
      PROVE  [Promise!Next]_Abstract
    BY <1>2, RecvFinishes
<1>3. CASE JobCompose \/ JobSend \/ HandleTestVers
    BY <1>3 DEF JobCompose, JobSend, HandleTestVers, TestVers, TestVersClose,
                AskVersions, Abstract
<1>4. ASSUME NEW c \in Conns, Accept(c) \/ Close(c) \/ RecvPart(c)
      PROVE  [Promise!Next]_Abstract
    BY <1>4 DEF Accept, Close, RecvPart, Abstract
<1>5. ASSUME NEW c \in Conns, Peer(c)
      PROVE  [Promise!Next]_Abstract
    BY <1>5 DEF Peer, PeerAnswer, PeerNote, Abstract
<1>6. CASE UNCHANGED vars
    BY <1>6 DEF vars, Abstract
<1> QED
    BY <1>1, <1>2, <1>3, <1>4, <1>5, <1>6 DEF Next, MsgThread

(***************************************************************************)
(* EthInstaller implements Campaign: whatever is torn in msg, closed, cut  *)
(* or sent unasked on the way, the steps reach the installer in the order  *)
(* of the plan and without a gap, and dlc_report_status_finish() is called *)
(* for a whole plan only, provided the installer ends a campaign with one  *)
(* final frame.                                                            *)
(***************************************************************************)
THEOREM PlanSafe ==
    ASSUME OneFinalEach
    PROVE  Spec => PlanInOrder
<1>1. Init => Promise!Init
    BY DEF Init, Promise!Init
<1>2. CampaignInv /\ [Next]_vars => [Promise!Next]_<<sent, finished>>
    BY CampaignStep DEF Abstract
<1>3. Spec => []CampaignInv
    BY CampaignCorrect, OneFinalEach
<1> QED
    BY <1>1, <1>2, <1>3, PTL DEF Spec, PlanInOrder, Promise!Spec

-----------------------------------------------------------------------------
LEMMA AtMostOne ==
    ASSUME NEW S, \A x, y \in S : x = y
    PROVE  \/ S = {} /\ Cardinality(S) = 0
           \/ S # {} /\ Cardinality(S) = 1
<1>1. CASE S = {}
    BY <1>1, FS_EmptySet
<1>2. CASE S # {}
    <2>1. PICK x \in S : S = {x}
        BY <1>2
    <2> QED
        BY <2>1, FS_Singleton
<1> QED
    BY <1>1, <1>2

LEMMA AtMostOneUnanswered ==
    ASSUME CampaignInv, NEW c \in Conns
    PROVE  /\ Unanswered(c) \in {0, 1}
           /\ Unanswered(c) = 0 \/ \E i \in Nat :
                StepAt(to_peer[c], i) \/ AnswerAt(from_peer[c], i)
<1> DEFINE A == {i \in 1 .. Len(to_peer[c]) :
                    to_peer[c][i].task = "TRANSFER_PACKAGE"}
           B == {i \in 1 .. Len(from_peer[c]) :
                    from_peer[c][i] = "TRANSFER_PACKAGE"}
<1>1. Len(to_peer[c]) \in Nat /\ Len(from_peer[c]) \in Nat
    BY LenProperties DEF CampaignInv, TypeOK
<1>2. \A i \in A : i \in Nat /\ StepAt(to_peer[c], i)
    BY <1>1 DEF StepAt, IsStep
<1>3. \A i \in B : i \in Nat /\ AnswerAt(from_peer[c], i)
    BY <1>1 DEF AnswerAt, StepAnswers
<1>4. Unanswered(c) = Cardinality(A) + Cardinality(B)
    BY DEF Unanswered
<1> HIDE DEF A, B
<1>5. /\ \A x, y \in A : x = y
      /\ \A x, y \in B : x = y
      /\ A = {} \/ B = {}
    BY <1>2, <1>3 DEF CampaignInv, OneStepAtATime
<1>6. /\ (A = {} /\ Cardinality(A) = 0) \/ (A # {} /\ Cardinality(A) = 1)
      /\ (B = {} /\ Cardinality(B) = 0) \/ (B # {} /\ Cardinality(B) = 1)
    BY <1>5, AtMostOne
<1>7. Unanswered(c) \in {0, 1} /\ (Unanswered(c) = 0 \/ A # {} \/ B # {})
    BY <1>4, <1>5, <1>6
<1> QED
    BY <1>2, <1>3, <1>7

LEMMA CampaignOneTransfer ==
    ASSUME CampaignInv
    PROVE  OneTransferAtATime
<1>1. ASSUME NEW c \in Conns, msg_out.task = "TRANSFER_PACKAGE"
      PROVE  Unanswered(c) = 0
    <2>1. IsStep(msg_out)
        BY <1>1 DEF IsStep
    <2> QED
        BY <2>1, AtMostOneUnanswered DEF CampaignInv, OneStepAtATime
<1>2. ASSUME NEW c \in Conns, NEW d \in Conns, c # d
      PROVE  Unanswered(c) = 0 \/ Unanswered(d) = 0
    BY <1>2, AtMostOneUnanswered DEF CampaignInv, OneStepAtATime
<1>3. \A c \in Conns : Unanswered(c) \in {0, 1}
    BY AtMostOneUnanswered
<1> HIDE DEF Unanswered
<1>4. ASSUME NEW c \in Conns
      PROVE  Unanswered(c) + (IF msg_out.task = "TRANSFER_PACKAGE"
                              THEN 1 ELSE 0) <= 1
    BY <1>1, <1>3
<1> QED
    BY <1>2, <1>4 DEF OneTransferAtATime

(***************************************************************************)
(* resp_handler asks for the next package only once the last one was       *)
(* answered: over all connections of the ECU, at most one                  *)
(* TRANSFER_PACKAGE is composed, on the wire, or answered and not read.    *)
(***************************************************************************)
THEOREM OneTransferSafe ==
    ASSUME OneFinalEach
    PROVE  Spec => []OneTransferAtATime
<1>1. CampaignInv => OneTransferAtATime
    BY CampaignOneTransfer
<1>2. Spec => []CampaignInv
    BY CampaignCorrect, OneFinalEach
<1> QED
    BY <1>1, <1>2, PTL

-----------------------------------------------------------------------------
(***************************************************************************)
(* No campaign without a question.  A request for versions leads to one    *)
(* request for the state at the most, and that to one campaign at the      *)
(* most: counting the questions under way, the campaigns finished and the  *)
(* one that runs, there are never more than requests for versions.         *)
(***************************************************************************)
IsQuestion(f) == f.task \in {"REQUEST_VERSIONS", "REQUEST_STATE"}

Starters == {"REQUEST_VERSIONS_RESULT", "REQUEST_STATE_RESULT"}

(* Where a question, or an unread answer to one, can be: composed by one   *)
(* of the threads, or the i-th frame to or from the installer at c.        *)
Place == {"job", "msg", "to", "from"} \X (Conns \cup {NoConn}) \X Nat

QuestionAt(x) ==
    \/ x = <<"job", NoConn, 0>> /\ IsQuestion(job_out)
    \/ x = <<"msg", NoConn, 0>> /\ IsQuestion(msg_out)
    \/ /\ x[1] = "to" /\ x[2] \in Conns
       /\ x[3] \in 1 .. Len(to_peer[x[2]]) /\ IsQuestion(to_peer[x[2]][x[3]])
    \/ /\ x[1] = "from" /\ x[2] \in Conns
       /\ x[3] \in 1 .. Len(from_peer[x[2]])
       /\ from_peer[x[2]][x[3]] \in Starters

Questions == {x \in Place : QuestionAt(x)}

Running == IF bin_index # 0 THEN 1 ELSE 0

AskedInv ==
    /\ IsFiniteSet(Questions)
    /\ Cardinality(Questions) + finished + Running <= nvers + ntest + nclosed

(* Where a question was before r frames from the installer at c and s      *)
(* frames to it were taken away.                                           *)
Back(x, c, r, s) ==
    IF x[1] = "from" /\ x[2] = c THEN <<"from", c, x[3] + r>>
    ELSE IF x[1] = "to" /\ x[2] = c THEN <<"to", c, x[3] + s>>
    ELSE x

LEMMA BackOne ==
    ASSUME NEW x \in Place, NEW y \in Place, NEW c, NEW r \in Nat, NEW s \in Nat,
           Back(x, c, r, s) = Back(y, c, r, s)
    PROVE  x = y
<1>1. /\ x = <<x[1], x[2], x[3]>> /\ y = <<y[1], y[2], y[3]>>
      /\ x[3] \in Nat /\ y[3] \in Nat
    BY DEF Place
<1>2. x[1] = y[1] /\ x[2] = y[2]
    BY <1>1 DEF Back
<1>3. x[3] = y[3]
    BY <1>1, <1>2 DEF Back
<1> QED
    BY <1>1, <1>2, <1>3

(* Questions are not multiplied: all of Q but one, new, come from places   *)
(* of T, and that one from another of them, src.                           *)
Moved(Q, T, c, r, s, new, src) ==
    /\ \A x \in Q : x # new => /\ Back(x, c, r, s) \in T
                               /\ new \in Q => Back(x, c, r, s) # src
    /\ new \in Q => src \in T

LEMMA QuestionsMove ==
    ASSUME NEW T, IsFiniteSet(T), NEW Q \in SUBSET Place,
           NEW c, NEW r \in Nat, NEW s \in Nat, NEW new, NEW src,
           Moved(Q, T, c, r, s, new, src)
    PROVE  IsFiniteSet(Q) /\ Cardinality(Q) <= Cardinality(T)
<1> DEFINE m == [x \in Q |-> IF x = new THEN src ELSE Back(x, c, r, s)]
<1>1. m \in [Q -> T]
    BY DEF Moved
<1>2. ASSUME NEW x \in Q, NEW y \in Q, m[x] = m[y]
      PROVE  x = y
    <2>1. CASE x # new /\ y # new
        <3>1. Back(x, c, r, s) = Back(y, c, r, s)
            BY <1>2, <2>1
        <3> QED
            BY <3>1, BackOne
    <2>2. CASE x = new \/ y = new
        BY <1>2, <2>2 DEF Moved
    <2> QED
        BY <2>1, <2>2
<1> HIDE DEF m
<1>3. m \in Injection(Q, T)
    BY <1>1, <1>2, Fun_IsInj
<1> QED
    BY <1>3, FS_Injection

LEMMA QuestionPlaces == Questions' \in SUBSET Place
BY DEF Questions, Place

(* What a step may do to the count.                                        *)
LEMMA AskedKept ==
    ASSUME AskedInv, TypeOK, TypeOK', NEW T, IsFiniteSet(T),
           IsFiniteSet(Questions'), Cardinality(Questions') <= Cardinality(T),
           Cardinality(T) + finished' + Running' + nvers + ntest + nclosed
             <= Cardinality(Questions) + finished + Running
                + nvers' + ntest' + nclosed'
    PROVE  AskedInv'
<1> DEFINE k == Cardinality(Questions)
           n == Cardinality(Questions')
           t == Cardinality(T)
<1>1. k \in Nat /\ n \in Nat /\ t \in Nat
    BY FS_CardinalityType DEF AskedInv
<1>2. /\ {finished, finished', nvers, nvers', ntest, ntest', nclosed,
       nclosed'} \subseteq Nat
    BY InstallerAssumption DEF TypeOK
<1>3. {Running, Running'} \subseteq Nat
    BY DEF Running
<1>4. /\ k + finished + Running <= nvers + ntest + nclosed /\ n <= t
      /\ t + finished' + Running' + nvers + ntest + nclosed
            <= k + finished + Running + nvers' + ntest' + nclosed'
    BY DEF AskedInv
<1> HIDE DEF k, n, t, Running
<1>5. n + finished' + Running' <= nvers' + ntest' + nclosed'
    BY <1>1, <1>2, <1>3, <1>4
<1> QED
    BY <1>5 DEF AskedInv, n

(* A frame that leaves a thread is at the end of a queue then, or lost.    *)
LEMMA SentLast ==
    ASSUME TypeOK, NEW f \in Requests \cup {Torn}, SendRemote(f),
           NEW c \in Conns, NEW i \in 1 .. Len(to_peer'[c])
    PROVE  \/ i \in 1 .. Len(to_peer[c]) /\ to_peer'[c][i] = to_peer[c][i]
           \/ /\ c = remote /\ i = Len(to_peer[remote]) + 1
              /\ to_peer'[c][i] = f
<1>1. to_peer[c] \in Seq(Requests \cup {Torn}) /\ Len(to_peer[c]) \in Nat
    BY LenProperties DEF TypeOK
<1>2. CASE to_peer'[c] = to_peer[c]
    BY <1>2
<1>3. CASE c = remote /\ to_peer'[c] = Append(to_peer[c], f)
    BY <1>1, <1>3, AppendProperties
<1> QED
    BY <1>2, <1>3 DEF SendRemote, TypeOK

LEMMA QuestionsSent ==
    ASSUME TypeOK, NEW f \in Requests \cup {Torn}, SendRemote(f),
           UNCHANGED from_peer, NEW T, IsFiniteSet(T), Questions \subseteq T,
           NEW w \in {"job", "msg", "test"},
           \A x \in {"job", "msg"} : <<x, NoConn, 0>> \in Questions' =>
                x # w /\ <<x, NoConn, 0>> \in Questions,
           IsQuestion(f) => <<w, NoConn, 0>> \in T
    PROVE  IsFiniteSet(Questions') /\ Cardinality(Questions') <= Cardinality(T)
<1> DEFINE new == <<"to", remote, Len(to_peer[remote]) + 1>>
           src == <<w, NoConn, 0>>
<1>1. ASSUME NEW x \in Questions'
      PROVE  /\ Back(x, remote, 0, 0) = x
             /\ x # src
             /\ x \in T \/ (x = new /\ IsQuestion(f))
    <2>1. x \in Place /\ x = <<x[1], x[2], x[3]>> /\ QuestionAt(x)'
        BY DEF Questions, Place
    <2>2. x[3] \in Nat
        BY <2>1 DEF Place
    <2>3. Back(x, remote, 0, 0) = x
        BY <2>1, <2>2 DEF Back
    <2>4. CASE x[1] \in {"job", "msg"}
        <3>1. x = <<x[1], NoConn, 0>>
            BY <2>1, <2>4 DEF QuestionAt
        <3> QED
            BY <2>3, <2>4, <3>1
    <2>5. CASE x[1] = "to"
        <3>1. /\ x[2] \in Conns /\ x[3] \in 1 .. Len(to_peer'[x[2]])
              /\ IsQuestion(to_peer'[x[2]][x[3]])
            BY <2>1, <2>5 DEF QuestionAt, IsQuestion
        <3>2. \/ /\ x[3] \in 1 .. Len(to_peer[x[2]])
                 /\ to_peer'[x[2]][x[3]] = to_peer[x[2]][x[3]]
              \/ /\ x[2] = remote /\ x[3] = Len(to_peer[remote]) + 1
                 /\ to_peer'[x[2]][x[3]] = f
            BY <3>1, SentLast
        <3>3. CASE /\ x[3] \in 1 .. Len(to_peer[x[2]])
                   /\ to_peer'[x[2]][x[3]] = to_peer[x[2]][x[3]]
            <4>1. x \in Questions
                BY <2>1, <2>5, <3>1, <3>3 DEF Questions, QuestionAt
            <4> QED
                BY <2>1, <2>3, <2>5, <4>1
        <3>4. CASE /\ x[2] = remote /\ x[3] = Len(to_peer[remote]) + 1
                   /\ to_peer'[x[2]][x[3]] = f
            <4>1. x = new /\ IsQuestion(f)
                BY <2>1, <2>5, <3>1, <3>4
            <4> QED
                BY <2>1, <2>3, <2>5, <4>1
        <3> QED
            BY <3>2, <3>3, <3>4
    <2>6. CASE x[1] = "from"
        <3>1. x \in Questions
            BY <2>1, <2>6 DEF Questions, QuestionAt
        <3> QED
            BY <2>1, <2>3, <2>6, <3>1
    <2> QED
        BY <2>1, <2>4, <2>5, <2>6 DEF Place
<1> HIDE DEF new, src
<1>2. src \in T \/ ~ IsQuestion(f)
    BY DEF src
<1>3. CASE IsQuestion(f)
    <2>1. Moved(Questions', T, remote, 0, 0, new, src)
        BY <1>1, <1>2, <1>3 DEF Moved
    <2> QED
        BY <2>1, QuestionPlaces, QuestionsMove
<1>4. CASE ~ IsQuestion(f)
    <2>1. Questions' \in SUBSET T
        BY <1>1, <1>4
    <2> QED
        BY <2>1, FS_Subset
<1> QED
    BY <1>3, <1>4

(* Reading n frames from c of which the first is handled.                  *)
LEMMA QuestionsRead ==
    ASSUME TypeOK, AskedInv, NEW c \in Conns, NEW n \in Nat \ {0},
           n <= Len(from_peer[c]), msg_out = NoFrame,
           UNCHANGED <<to_peer, job_out>>,
           from_peer' = [from_peer EXCEPT ![c] = SubSeq(@, n + 1, Len(@))]
    PROVE  /\ ~ IsQuestion(msg_out') =>
                /\ IsFiniteSet(Questions')
                /\ Cardinality(Questions')
                    <= Cardinality(Questions \ {<<"from", c, 1>>})
           /\ from_peer[c][1] \in Starters =>
                /\ IsFiniteSet(Questions')
                /\ Cardinality(Questions') <= Cardinality(Questions)
<1> DEFINE new == <<"msg", NoConn, 0>>
           src == <<"from", c, 1>>
<1>1. from_peer[c] \in Seq(Answers) /\ Len(from_peer[c]) \in Nat
    BY LenProperties DEF TypeOK
<1>2. ASSUME NEW x \in Questions', x # new
      PROVE  Back(x, c, n, 0) \in Questions /\ Back(x, c, n, 0) # src
    <2>1. /\ x \in Place /\ x = <<x[1], x[2], x[3]>> /\ x[3] \in Nat
          /\ QuestionAt(x)'
        BY DEF Questions, Place
    <2>2. CASE x[1] = "from" /\ x[2] = c
        <3>1. /\ x[3] \in 1 .. Len(SubSeq(from_peer[c], n + 1, Len(from_peer[c])))
              /\ SubSeq(from_peer[c], n + 1, Len(from_peer[c]))[x[3]]
                    \in Starters
            <4>1. from_peer'[c] = SubSeq(from_peer[c], n + 1, Len(from_peer[c]))
                BY DEF TypeOK
            <4>2. /\ x[3] \in 1 .. Len(from_peer'[x[2]])
                  /\ from_peer'[x[2]][x[3]] \in Starters
                BY <2>1, <2>2 DEF QuestionAt
            <4> QED
                BY <2>2, <4>1, <4>2, Zenon
        <3>2. PICK i \in Nat : i = x[3]
            BY <2>1
        <3>3. /\ i + n \in 1 .. Len(from_peer[c])
              /\ from_peer[c][i + n] \in Starters
            BY <1>1, <3>1, <3>2, SubSeqShifts, ZenonT(40)
        <3>4. Back(x, c, n, 0) = <<"from", c, i + n>>
            BY <2>2, <3>2 DEF Back
        <3>5. <<"from", c, i + n>> \in Place /\ i + n # 1
            BY <1>1, <3>1, <3>2 DEF Place
        <3>6. <<"from", c, i + n>> \in Questions
            BY <3>3, <3>5 DEF Questions, QuestionAt
        <3> QED
            BY <3>4, <3>5, <3>6
    <2>3. CASE ~ (x[1] = "from" /\ x[2] = c)
        <3>1. Back(x, c, n, 0) = x
            BY <2>1, <2>3 DEF Back
        <3>2. x # src
            BY <2>3
        <3>3. \A d \in Conns \ {c} : from_peer'[d] = from_peer[d]
            BY DEF TypeOK
        <3>4. QuestionAt(x)
            BY <1>2, <2>1, <2>3, <3>3 DEF QuestionAt
        <3> QED
            BY <2>1, <3>1, <3>2, <3>4 DEF Questions
    <2> QED
        BY <2>2, <2>3
<1>3. IsFiniteSet(Questions) /\ IsFiniteSet(Questions \ {src})
    BY FS_RemoveElement DEF AskedInv
<1>4. new \in Questions' => IsQuestion(msg_out')
    BY DEF Questions, QuestionAt
<1>5. from_peer[c][1] \in Starters => src \in Questions
    BY <1>1 DEF Questions, QuestionAt, Place
<1> HIDE DEF new, src
<1>6. ASSUME ~ IsQuestion(msg_out')
      PROVE  Moved(Questions', Questions \ {src}, c, n, 0, new, src)
    BY <1>2, <1>4, <1>6 DEF Moved
<1>7. ASSUME from_peer[c][1] \in Starters
      PROVE  Moved(Questions', Questions, c, n, 0, new, src)
    BY <1>2, <1>5, <1>7 DEF Moved
<1>8. n \in Nat /\ 0 \in Nat
    OBVIOUS
<1>9. ASSUME ~ IsQuestion(msg_out')
      PROVE  /\ IsFiniteSet(Questions')
             /\ Cardinality(Questions') <= Cardinality(Questions \ {src})
    BY <1>3, <1>6, <1>8, <1>9, QuestionPlaces, QuestionsMove
<1>10. ASSUME from_peer[c][1] \in Starters
       PROVE  /\ IsFiniteSet(Questions')
              /\ Cardinality(Questions') <= Cardinality(Questions)
    BY <1>3, <1>7, <1>8, <1>10, QuestionPlaces, QuestionsMove
<1> QED
    BY <1>9, <1>10 DEF src

LEMMA RecvAsked ==
    ASSUME CampaignInv, AskedInv, TypeOK', NEW c \in Conns,
           NEW n \in 1 .. MaxMerge, Recv(c, n)
    PROVE  AskedInv'
<1> DEFINE t == from_peer[c][1]
           src == <<"from", c, 1>>
<1>1. /\ n \in Nat \ {0} /\ n <= Len(from_peer[c]) /\ msg_out = NoFrame
      /\ UNCHANGED <<to_peer, job_out, nvers, ntest,
                   nclosed>>
      /\ from_peer' = [from_peer EXCEPT ![c] = SubSeq(@, n + 1, Len(@))]
      /\ TypeOK
    BY InstallerAssumption DEF Recv, MsgIdle, boundVars, testVars, CampaignInv
<1>2. /\ ~ IsQuestion(msg_out') =>
            /\ IsFiniteSet(Questions')
            /\ Cardinality(Questions') <= Cardinality(Questions \ {src})
      /\ t \in Starters =>
            /\ IsFiniteSet(Questions')
            /\ Cardinality(Questions') <= Cardinality(Questions)
    BY <1>1, QuestionsRead
<1>3. /\ IsFiniteSet(Questions) /\ IsFiniteSet(Questions \ {src})
      /\ Cardinality(Questions) \in Nat
      /\ Cardinality(Questions \ {src}) <= Cardinality(Questions)
      /\ src \in Questions =>
            Cardinality(Questions \ {src}) = Cardinality(Questions) - 1
      /\ Cardinality(Questions \ {src}) \in Nat
    <2> HIDE DEF src
    <2>1. IsFiniteSet(Questions) /\ Cardinality(Questions) \in Nat
        BY FS_CardinalityType DEF AskedInv
    <2>2. /\ IsFiniteSet(Questions \ {src})
          /\ Cardinality(Questions \ {src}) =
                IF src \in Questions THEN Cardinality(Questions) - 1
                ELSE Cardinality(Questions)
        BY <2>1, FS_RemoveElement
    <2>3. Cardinality(Questions \ {src}) \in Nat
        BY <2>2, FS_CardinalityType
    <2> QED
        BY <2>1, <2>2, <2>3
<1>4. ~ IsQuestion(NoFrame) /\ \A i : ~ IsQuestion(Transfer(i))
    BY DEF IsQuestion, NoFrame, Frame, Transfer
<1>5. {finished, nvers, ntest, nclosed} \subseteq Nat
    BY <1>1, InstallerAssumption DEF TypeOK
<1> DEFINE k == Cardinality(Questions)
           l == Cardinality(Questions \ {src})
(* What is read is nothing a campaign is waiting for.                      *)
<1>6. CASE UNCHANGED <<msg_out, bin_index, finished>>
    <2>1. /\ IsFiniteSet(Questions') /\ Cardinality(Questions') <= l
          /\ Running' = Running /\ finished' = finished
        BY <1>1, <1>2, <1>4, <1>6 DEF Running
    <2>2. l + finished' + Running' + nvers + ntest + nclosed
            <= k + finished + Running + nvers' + ntest' + nclosed'
        <3>1. l <= k /\ l \in Nat /\ k \in Nat /\ Running \in Nat
            BY <1>3 DEF Running
        <3> HIDE DEF k, l
        <3> QED
            BY <1>1, <1>5, <2>1, <3>1
    <2> QED
        BY <1>1, <1>3, <2>1, <2>2, AskedKept
(* The answer to REQUEST_VERSIONS becomes a question again.                *)
<1>7. CASE t = "REQUEST_VERSIONS_RESULT" /\ OnVersionsResult
    <2>1. /\ IsFiniteSet(Questions') /\ Cardinality(Questions') <= k
          /\ Running' = Running /\ finished' = finished
        BY <1>2, <1>7 DEF Starters, OnVersionsResult, Running
    <2>2. k + finished' + Running' + nvers + ntest + nclosed
            <= k + finished + Running + nvers' + ntest' + nclosed'
        <3>1. k \in Nat /\ Running \in Nat
            BY <1>3 DEF Running
        <3> HIDE DEF k
        <3> QED
            BY <1>1, <1>5, <2>1, <3>1
    <2> QED
        BY <1>1, <1>3, <2>1, <2>2, AskedKept
(* The answer to REQUEST_STATE becomes a campaign.                         *)
<1>8. CASE /\ t = "REQUEST_STATE_RESULT" /\ bin_index = 0
           /\ Reply(Transfer(0), 1)
    <2>1. /\ msg_out' = Transfer(0) /\ bin_index' = 1 /\ finished' = finished
        BY <1>8 DEF Reply
    <2>2. src \in Questions
        <3>1. 1 \in 1 .. Len(from_peer[c])
            <4>1. Len(from_peer[c]) \in Nat
                BY <1>1, LenProperties DEF TypeOK
            <4> QED
                BY <1>1, <4>1
        <3> QED
            BY <1>8, <3>1 DEF Questions, QuestionAt, Place, Starters
    <2>3. /\ IsFiniteSet(Questions') /\ Cardinality(Questions') <= l
          /\ Running = 0 /\ Running' = 1 /\ l = k - 1
        BY <1>2, <1>3, <1>4, <1>8, <2>1, <2>2 DEF Running
    <2>4. l + finished' + Running' + nvers + ntest + nclosed
            <= k + finished + Running + nvers' + ntest' + nclosed'
        <3>1. k \in Nat
            BY <1>3
        <3> HIDE DEF k, l
        <3> QED
            BY <1>1, <1>5, <2>1, <2>3, <3>1
    <2> QED
        BY <1>1, <1>3, <2>3, <2>4, AskedKept
(* The result of a step: a campaign runs, and goes on or is over.          *)
<1>9. CASE t \in StepAnswers /\ Handle(t)
    <2>1. bin_index # 0
        <3>1. /\ Len(sent) \in 1 .. Len(Plan)
              /\ bin_index = IndexAt(Len(sent))
            BY <1>1, <1>9, StepIsRead
        <3>2. Len(sent) \in Nat \ {0}
            BY <3>1, PlanFacts
        <3> QED
            BY <3>1, <3>2, IndexNotZero
    <2>2. CASE finished' = finished /\ ~ IsQuestion(msg_out')
        <3>1. /\ IsFiniteSet(Questions') /\ Cardinality(Questions') <= l
              /\ Running = 1 /\ Running' \in {0, 1}
            BY <1>2, <2>1, <2>2 DEF Running
        <3>2. l + finished' + Running' + nvers + ntest + nclosed
                <= k + finished + Running + nvers' + ntest' + nclosed'
            <4>1. l <= k /\ l \in Nat /\ k \in Nat
                BY <1>3
            <4>2. /\ nvers' = nvers /\ ntest' = ntest /\ nclosed' = nclosed
                  /\ finished' = finished
                BY <1>1, <2>2
            <4>3. /\ Running' <= Running
                  /\ Running \in Nat /\ Running' \in Nat
                BY <3>1
            <4> HIDE DEF k, l
            <4> QED
                BY <1>5, <4>1, <4>2, <4>3
        <3> QED
            BY <1>1, <1>3, <3>1, <3>2, AskedKept
    <2>3. CASE OnFinal
        <3>1. /\ bin_index' = 0 /\ finished' = finished + 1
              /\ ~ IsQuestion(msg_out')
            BY <1>1, <1>4, <2>3 DEF OnFinal
        <3>2. /\ IsFiniteSet(Questions') /\ Cardinality(Questions') <= l
              /\ Running = 1 /\ Running' = 0
            BY <1>2, <2>1, <3>1 DEF Running
        <3>3. l + finished' + Running' + nvers + ntest + nclosed
                <= k + finished + Running + nvers' + ntest' + nclosed'
            <4>1. l <= k /\ l \in Nat /\ k \in Nat
                BY <1>3
            <4>2. UNCHANGED <<nvers, ntest, nclosed>>
                BY <1>1
            <4>3. finished' + Running' = finished + Running
                BY <1>5, <3>1, <3>2
            <4>4. finished' \in Nat /\ Running \in Nat /\ Running' \in Nat
                BY <1>5, <3>1, <3>2
            <4> HIDE DEF k, l
            <4> QED
                BY <1>5, <4>1, <4>2, <4>3, <4>4
        <3> QED
            BY <1>1, <1>3, <3>2, <3>3, AskedKept
    <2>4. CASE OnTransferResult \/ Reply(Frame("ACTIVATE"), bin_index)
        <3>1. ~ IsQuestion(Frame("ACTIVATE"))
              /\ ~ IsQuestion(Frame("PREPARE_ACTIVATION"))
            BY DEF IsQuestion, Frame
        <3> QED
            BY <1>1, <1>4, <2>2, <2>4, <3>1
            DEF OnTransferResult, Reply, NoReply
    <2> QED
        BY <1>9, <2>3, <2>4 DEF Handle, StepAnswers, FinalAnswers
<1>10. CASE OnBareVersionsResult \/ NoReply
    BY <1>6, <1>10 DEF OnBareVersionsResult, NoReply
<1>11. CASE t = "REQUEST_STATE_RESULT" /\ OnStateResult
    BY <1>8, <1>10, <1>11 DEF OnStateResult
<1>12. ASSUME Handle(t)
       PROVE  AskedInv'
    BY <1>7, <1>9, <1>10, <1>11, <1>12 DEF Handle, StepAnswers, FinalAnswers
<1> QED
    BY <1>10, <1>12 DEF Recv

(* A step that asks nothing and neither begins nor ends a campaign.        *)
LEMMA UnaskedKept ==
    ASSUME AskedInv, TypeOK, TypeOK', IsFiniteSet(Questions'),
           Cardinality(Questions') <= Cardinality(Questions),
           UNCHANGED <<bin_index, finished, nvers, ntest,
                   nclosed>>
    PROVE  AskedInv'
<1>1. IsFiniteSet(Questions) /\ Cardinality(Questions) \in Nat
    BY FS_CardinalityType DEF AskedInv
<1>2. {finished, nvers, ntest, nclosed} \subseteq Nat /\ Running \in Nat
    BY InstallerAssumption DEF TypeOK, Running
<1>3. Running' = Running
    BY DEF Running
<1> DEFINE k == Cardinality(Questions)
<1>4. k + finished' + Running' + nvers + ntest + nclosed
        <= k + finished + Running + nvers' + ntest' + nclosed'
    <2>1. k \in Nat
        BY <1>1
    <2> HIDE DEF k
    <2> QED
        BY <1>2, <1>3, <2>1
<1> QED
    BY <1>1, <1>4, AskedKept

(* One that asks once more.                                                *)
LEMMA OneMoreAsked ==
    ASSUME AskedInv, TypeOK, TypeOK', NEW x, IsFiniteSet(Questions'),
           Cardinality(Questions') <= Cardinality(Questions \cup {x}),
           UNCHANGED <<bin_index, finished>>,
           nvers' + ntest' + nclosed' = nvers + ntest + nclosed + 1
    PROVE  AskedInv'
<1>1. IsFiniteSet(Questions) /\ Cardinality(Questions) \in Nat
    BY FS_CardinalityType DEF AskedInv
<1>2. /\ IsFiniteSet(Questions \cup {x})
      /\ Cardinality(Questions \cup {x}) =
            IF x \in Questions THEN Cardinality(Questions)
            ELSE Cardinality(Questions) + 1
    BY <1>1, FS_AddElement
<1>3. {finished, nvers, ntest, nclosed,
       nvers', ntest', nclosed'} \subseteq Nat /\ Running \in Nat
    BY InstallerAssumption DEF TypeOK, Running
<1>4. Running' = Running
    BY DEF Running
<1> DEFINE k == Cardinality(Questions)
           l == Cardinality(Questions \cup {x})
<1>5. l + finished' + Running' + nvers + ntest + nclosed
        <= k + finished + Running + nvers' + ntest' + nclosed'
    <2>1. k \in Nat /\ l \in Nat /\ l <= k + 1
        BY <1>1, <1>2
    <2> HIDE DEF k, l
    <2> QED
        BY <1>3, <1>4, <2>1
<1> QED
    BY <1>2, <1>5, AskedKept

(* The installer answers a question once, and nothing else with an answer  *)
(* to one.                                                                 *)
LEMMA QuestionAnswered ==
    ASSUME FinalsAreReports, NEW f, NEW a \in AnswersTo(f)
    PROVE  /\ IsQuestion(f) => Len(a) = 1
           /\ ~ IsQuestion(f) => \A i \in 1 .. Len(a) : a[i] \notin Starters
<1>1. ASSUME IsQuestion(f)
      PROVE  Len(a) = 1
    <2>1. a = <<"REQUEST_STATE_RESULT">> \/ \E v \in Versions : a = <<v>>
        BY <1>1, AnswersByTask DEF IsQuestion, IsStep
    <2> QED
        BY <2>1
<1>2. ASSUME ~ IsQuestion(f), NEW i \in 1 .. Len(a)
      PROVE  a[i] \notin Starters
    <2>1. \/ a = <<"TRANSFER_PACKAGE">> \/ a = <<"PREPARE_ACTIVATION">>
          \/ a \in Finals \/ a = <<>>
        BY <1>2, AnswersByTask DEF IsQuestion
    <2>2. CASE a \in Finals
        BY <1>2, <2>2 DEF FinalsAreReports, FinalAnswers, Starters
    <2>3. CASE a = <<"TRANSFER_PACKAGE">> \/ a = <<"PREPARE_ACTIVATION">>
        BY <1>2, <2>3 DEF Starters
    <2>4. CASE a = <<>>
        BY <1>2, <2>4
    <2> QED
        BY <2>1, <2>2, <2>3, <2>4
<1> QED
    BY <1>1, <1>2

LEMMA PeerAnswerAsked ==
    ASSUME FinalsAreReports, TypeOK, AskedInv, TypeOK', NEW c \in Conns,
           PeerAnswer(c)
    PROVE  AskedInv'
<1> DEFINE q == to_peer[c]
           p == from_peer[c]
           new == <<"from", c, Len(p) + 1>>
           src == <<"to", c, 1>>
<1>1. PICK a \in AnswersTo(Head(q)) :
        from_peer' = [from_peer EXCEPT ![c] = @ \o a]
    BY DEF PeerAnswer
<1>2. /\ q \in Seq(Requests \cup {Torn}) /\ q # <<>> /\ Head(q) = q[1]
      /\ Len(q) \in Nat /\ 1 \in 1 .. Len(q)
      /\ p \in Seq(Answers) /\ Len(p) \in Nat
      /\ a \in Seq(Answers) /\ Len(a) \in Nat
    <2>1. /\ q \in Seq(Requests \cup {Torn}) /\ q # <<>>
          /\ p \in Seq(Answers)
        BY DEF PeerAnswer, TypeOK
    <2>2. Head(q) = q[1] /\ Len(q) \in Nat /\ 1 \in 1 .. Len(q)
        BY <2>1, LenProperties, HeadTailProperties, EmptySeq
    <2>3. a \in Seq(Answers)
        BY AnswersType
    <2> QED
        BY <2>1, <2>2, <2>3, LenProperties
<1>3. /\ to_peer'[c] = Tail(q) /\ from_peer'[c] = p \o a
      /\ \A d \in Conns \ {c} : /\ to_peer'[d] = to_peer[d]
                               /\ from_peer'[d] = from_peer[d]
      /\ UNCHANGED <<job_out, msg_out, bin_index, finished, nvers, ntest,
                   nclosed>>
    BY <1>1 DEF PeerAnswer, TypeOK, boundVars, testVars
<1>4. /\ IsQuestion(q[1]) => Len(a) = 1
      /\ ~ IsQuestion(q[1]) => \A i \in 1 .. Len(a) : a[i] \notin Starters
    BY <1>2, QuestionAnswered
<1> HIDE DEF q, p
<1>5. ASSUME NEW x \in Questions', x # new
      PROVE  Back(x, c, 0, 1) \in Questions /\ Back(x, c, 0, 1) # src
    <2>1. /\ x \in Place /\ x = <<x[1], x[2], x[3]>> /\ x[3] \in Nat
          /\ QuestionAt(x)'
        BY DEF Questions, Place
    <2>2. CASE x[1] = "to" /\ x[2] = c
        <3>1. x[3] \in 1 .. Len(Tail(q)) /\ IsQuestion(Tail(q)[x[3]])
            <4>1. /\ x[3] \in 1 .. Len(to_peer'[x[2]])
                  /\ IsQuestion(to_peer'[x[2]][x[3]])
                BY <2>1, <2>2 DEF QuestionAt, IsQuestion
            <4>2. to_peer'[x[2]] = Tail(q)
                BY <1>3, <2>2
            <4> QED
                BY <4>1, <4>2
        <3>2. PICK i \in Nat : i = x[3]
            BY <2>1
        <3>3. i + 1 \in 1 .. Len(q) /\ IsQuestion(q[i + 1])
            BY <1>2, <3>1, <3>2, TailShifts
        <3>4. Back(x, c, 0, 1) = <<"to", c, i + 1>>
            BY <2>2, <3>2 DEF Back
        <3>5. <<"to", c, i + 1>> \in Place /\ i + 1 # 1
            BY <3>1, <3>2 DEF Place
        <3>6. <<"to", c, i + 1>> \in Questions
            BY <3>3, <3>5 DEF Questions, QuestionAt, q
        <3> QED
            BY <3>4, <3>5, <3>6
    <2>3. CASE x[1] = "from" /\ x[2] = c
        <3>1. x[3] \in 1 .. Len(p \o a) /\ (p \o a)[x[3]] \in Starters
            BY <1>3, <2>1, <2>3 DEF QuestionAt
        <3>2. PICK i \in Nat : i = x[3]
            BY <2>1
        <3>3. /\ Len(p \o a) = Len(p) + Len(a)
              /\ i \in 1 .. Len(p) + Len(a)
              /\ (p \o a)[i] = IF i <= Len(p) THEN p[i] ELSE a[i - Len(p)]
            BY <1>2, <3>1, <3>2, ConcatProperties
        <3>4. i \in 1 .. Len(p) /\ p[i] \in Starters
            <4>1. ASSUME i > Len(p)
                  PROVE  FALSE
                <5>1. i - Len(p) \in 1 .. Len(a) /\ a[i - Len(p)] \in Starters
                    BY <1>2, <3>1, <3>2, <3>3, <4>1
                <5>2. Len(a) = 1
                    BY <1>4, <5>1
                <5>3. i = Len(p) + 1
                    BY <1>2, <3>3, <4>1, <5>2
                <5> QED
                    BY <1>5, <2>1, <2>3, <3>2, <5>3
            <4> QED
                BY <1>2, <3>1, <3>2, <3>3, <4>1
        <3>5. Back(x, c, 0, 1) = x
            <4>1. x[3] + 0 = x[3]
                BY <2>1
            <4> QED
                BY <2>1, <2>3, <4>1 DEF Back
        <3>6. x \in Questions /\ x # src
            BY <2>1, <2>3, <3>2, <3>4 DEF Questions, QuestionAt, p
        <3> QED
            BY <3>5, <3>6
    <2>4. CASE ~ (x[1] \in {"to", "from"} /\ x[2] = c)
        <3>1. Back(x, c, 0, 1) = x
            BY <2>4 DEF Back
        <3>2. x # src
            BY <2>4
        <3>3. QuestionAt(x)
            BY <1>3, <2>1, <2>4 DEF QuestionAt, IsQuestion
        <3> QED
            BY <2>1, <3>1, <3>2, <3>3 DEF Questions
    <2> QED
        BY <2>2, <2>3, <2>4
<1>6. new \in Questions' => src \in Questions
    <2>1. ASSUME new \in Questions'
          PROVE  IsQuestion(q[1])
        <3>1. /\ Len(p) + 1 \in 1 .. Len(p \o a)
              /\ (p \o a)[Len(p) + 1] \in Starters
            BY <1>3, <2>1 DEF Questions, QuestionAt
        <3>2. /\ Len(p \o a) = Len(p) + Len(a)
              /\ \A i \in 1 .. Len(p) + Len(a) :
                (p \o a)[i] = IF i <= Len(p) THEN p[i] ELSE a[i - Len(p)]
            BY <1>2, ConcatProperties, Zenon
        <3>3. PICK l \in Nat : l = Len(p)
            BY <1>2
        <3>4. l + 1 \in 1 .. l + Len(a) /\ ~ (l + 1 <= l) /\ l + 1 - l = 1
            BY <3>1, <3>2, <3>3
        <3>5. 1 \in 1 .. Len(a) /\ a[1] \in Starters
            BY <1>2, <3>1, <3>2, <3>3, <3>4
        <3> QED
            BY <1>4, <3>5
    <2> QED
        BY <1>2, <2>1 DEF Questions, QuestionAt, Place, q
<1> HIDE DEF new, src
<1>7. Moved(Questions', Questions, c, 0, 1, new, src)
    BY <1>5, <1>6 DEF Moved
<1>8. /\ IsFiniteSet(Questions') /\ IsFiniteSet(Questions)
      /\ Cardinality(Questions') <= Cardinality(Questions)
    BY <1>7, QuestionPlaces, QuestionsMove DEF AskedInv
<1> QED
    BY <1>3, <1>8, UnaskedKept

LEMMA PlacesKept ==
    ASSUME AskedInv, TypeOK, TypeOK', Questions' \subseteq Questions,
           UNCHANGED <<bin_index, finished, nvers, ntest,
                   nclosed>>
    PROVE  AskedInv'
<1>1. IsFiniteSet(Questions') /\ Cardinality(Questions') <= Cardinality(Questions)
    BY FS_Subset DEF AskedInv
<1> QED
    BY <1>1, UnaskedKept

LEMMA JobComposeAsked ==
    ASSUME AskedInv, TypeOK, TypeOK', JobCompose
    PROVE  AskedInv'
<1> DEFINE new == <<"job", NoConn, 0>>
<1>1. /\ UNCHANGED <<to_peer, from_peer, msg_out, bin_index, finished, ntest,
                    nclosed>>
      /\ nvers' = nvers + 1
    BY DEF JobCompose, netVars, testVars
<1>2. Questions' \subseteq Questions \cup {new}
    BY <1>1 DEF Questions, QuestionAt, IsQuestion
<1>3. IsFiniteSet(Questions \cup {new})
    BY FS_AddElement DEF AskedInv
<1> HIDE DEF new
<1>4. /\ IsFiniteSet(Questions')
      /\ Cardinality(Questions') <= Cardinality(Questions \cup {new})
    BY <1>2, <1>3, FS_Subset
<1>5. nvers' + ntest' + nclosed' = nvers + ntest + nclosed + 1
    <2>1. {nvers, ntest, nclosed} \subseteq Nat
        BY InstallerAssumption DEF TypeOK
    <2>2. nvers' = nvers + 1 /\ ntest' = ntest /\ nclosed' = nclosed
        BY <1>1
    <2> QED
        BY <2>1, <2>2
<1> QED
    BY <1>1, <1>4, <1>5, OneMoreAsked

LEMMA JobSendAsked ==
    ASSUME CampaignInv, AskedInv, TypeOK, TypeOK', JobSend
    PROVE  AskedInv'
<1>1. /\ job_out = Frame("REQUEST_VERSIONS") /\ job_out' = NoFrame
      /\ Wire(job_out) \in Requests \cup {Torn}
      /\ SendRemote(Wire(job_out))
      /\ UNCHANGED <<from_peer, msg_out, bin_index, finished, nvers, ntest,
                   nclosed>>
    BY RequestFrames
    DEF CampaignInv, ComposedFrames, JobSend, Wire, boundVars, testVars
<1>2. /\ <<"job", NoConn, 0>> \in Questions
      /\ <<"job", NoConn, 0>> \notin Questions'
      /\ <<"msg", NoConn, 0>> \in Questions' => <<"msg", NoConn, 0>> \in Questions
    BY <1>1 DEF Questions, QuestionAt, Place, IsQuestion, Frame, NoFrame
<1>3. IsFiniteSet(Questions)
    BY DEF AskedInv
<1>4. /\ IsFiniteSet(Questions')
      /\ Cardinality(Questions') <= Cardinality(Questions)
    BY <1>1, <1>2, <1>3, QuestionsSent
<1> QED
    BY <1>1, <1>4, UnaskedKept

LEMMA TestVersAsked ==
    ASSUME AskedInv, TypeOK, TypeOK', HandleTestVers
    PROVE  AskedInv'
<1> DEFINE src == <<"test", NoConn, 0>>
           f == Frame("REQUEST_VERSIONS")
<1>1. /\ f \in Requests \cup {Torn} /\ SendRemote(f)
      /\ UNCHANGED <<from_peer, job_out, msg_out, bin_index, finished, nvers>>
      /\ \/ ntest' = ntest + 1 /\ nclosed' = nclosed
         \/ ntest' = ntest /\ nclosed' = nclosed + 1
    BY RequestFrames DEF HandleTestVers, TestVers, TestVersClose, AskVersions
<1>2. \A x \in {"job", "msg"} : <<x, NoConn, 0>> \in Questions' =>
        x # "test" /\ <<x, NoConn, 0>> \in Questions
    BY <1>1 DEF Questions, QuestionAt, Place, IsQuestion
<1>3. /\ IsFiniteSet(Questions \cup {src}) /\ src \in Questions \cup {src}
      /\ Questions \subseteq Questions \cup {src}
    BY FS_AddElement DEF AskedInv
<1> HIDE DEF f
<1>4. /\ IsFiniteSet(Questions')
      /\ Cardinality(Questions') <= Cardinality(Questions \cup {src})
    BY <1>1, <1>2, <1>3, QuestionsSent
<1>5. {nvers, ntest, nclosed} \subseteq Nat
    BY InstallerAssumption DEF TypeOK
<1>6. nvers' = nvers
    BY <1>1
<1>7. nvers' + ntest' + nclosed' = nvers + ntest + nclosed + 1
    <2>1. CASE ntest' = ntest + 1 /\ nclosed' = nclosed
        BY <1>5, <1>6, <2>1
    <2>2. CASE ntest' = ntest /\ nclosed' = nclosed + 1
        BY <1>5, <1>6, <2>2
    <2> QED
        BY <1>1, <2>1, <2>2
<1>8. UNCHANGED <<bin_index, finished>>
    BY <1>1
<1> QED
    BY <1>4, <1>7, <1>8, OneMoreAsked

LEMMA MsgSendAsked ==
    ASSUME AskedInv, TypeOK, TypeOK', MsgSend
    PROVE  AskedInv'
<1>1. /\ msg_out \in Requests /\ msg_out' = NoFrame
      /\ Wire(msg_out) \in {msg_out, Torn}
      /\ SendRemote(Wire(msg_out))
      /\ UNCHANGED <<from_peer, job_out, bin_index, finished, nvers, ntest,
                   nclosed>>
    BY DEF TypeOK, MsgSend, Wire, boundVars, testVars
<1>2. /\ IsQuestion(msg_out) => <<"msg", NoConn, 0>> \in Questions
      /\ <<"msg", NoConn, 0>> \notin Questions'
      /\ <<"job", NoConn, 0>> \in Questions' => <<"job", NoConn, 0>> \in Questions
    BY <1>1 DEF Questions, QuestionAt, Place, IsQuestion, Frame, NoFrame
<1>3. IsQuestion(Wire(msg_out)) => <<"msg", NoConn, 0>> \in Questions
    BY <1>1, <1>2 DEF IsQuestion, Torn, Frame
<1>4. IsFiniteSet(Questions)
    BY DEF AskedInv
<1>5. /\ IsFiniteSet(Questions')
      /\ Cardinality(Questions') <= Cardinality(Questions)
    BY <1>1, <1>2, <1>3, <1>4, QuestionsSent
<1> QED
    BY <1>1, <1>5, UnaskedKept

LEMMA CloseAsked ==
    ASSUME AskedInv, TypeOK, TypeOK', NEW c \in Conns, Close(c)
    PROVE  AskedInv'
<1>1. /\ \A d \in Conns :
            /\ to_peer'[d] = IF d = c THEN <<>> ELSE to_peer[d]
            /\ from_peer'[d] = IF d = c THEN <<>> ELSE from_peer[d]
      /\ UNCHANGED <<job_out, msg_out, bin_index, finished, nvers, ntest,
                   nclosed>>
    BY DEF Close, TypeOK, boundVars, testVars
<1>2. 1 .. Len(<<>>) = {}
    OBVIOUS
<1>3. Questions' \subseteq Questions
    BY <1>1, <1>2 DEF Questions, QuestionAt, IsQuestion
<1> QED
    BY <1>1, <1>3, PlacesKept

LEMMA AcceptAsked ==
    ASSUME AskedInv, TypeOK, TypeOK', NEW c \in Conns, Accept(c)
    PROVE  AskedInv'
<1>1. UNCHANGED <<to_peer, from_peer, job_out, msg_out, bin_index, finished,
                  nvers, ntest,
                   nclosed>>
    BY DEF Accept, boundVars, testVars
<1>2. Questions' \subseteq Questions
    BY <1>1 DEF Questions, QuestionAt, IsQuestion
<1> QED
    BY <1>1, <1>2, PlacesKept

LEMMA RecvPartAsked ==
    ASSUME AskedInv, TypeOK, TypeOK', NEW c \in Conns, RecvPart(c)
    PROVE  AskedInv'
<1>1. /\ from_peer' = [from_peer EXCEPT ![c] = Tail(@)] /\ from_peer[c] # <<>>
      /\ UNCHANGED <<to_peer, job_out, msg_out, bin_index, finished, nvers,
                     ntest, nclosed>>
    BY DEF RecvPart, boundVars, testVars
<1>2. /\ from_peer[c] \in Seq(Answers) /\ Len(from_peer[c]) \in Nat
      /\ from_peer'[c] = Tail(from_peer[c])
      /\ \A d \in Conns \ {c} : from_peer'[d] = from_peer[d]
    BY <1>1, LenProperties DEF TypeOK
<1> DEFINE none == <<"none", NoConn, 0>>
<1>3. ASSUME NEW x \in Questions'
      PROVE  Back(x, c, 1, 0) \in Questions /\ x # none
    <2>1. /\ x \in Place /\ x = <<x[1], x[2], x[3]>> /\ x[3] \in Nat
          /\ QuestionAt(x)'
        BY DEF Questions, Place
    <2>2. x # none
        BY <2>1 DEF Place
    <2>3. CASE x[1] = "from" /\ x[2] = c
        <3>1. /\ x[3] \in 1 .. Len(from_peer'[x[2]])
              /\ from_peer'[x[2]][x[3]] \in Starters
            BY <2>1, <2>3 DEF QuestionAt
        <3>2. from_peer'[x[2]] = Tail(from_peer[c])
            BY <1>2, <2>3
        <3>3. PICK i \in Nat : i = x[3]
            BY <2>1
        <3>4. /\ i + 1 \in 1 .. Len(from_peer[c])
              /\ from_peer[c][i + 1] \in Starters
            <4>1. i \in 1 .. Len(Tail(from_peer[c]))
                BY <3>1, <3>2, <3>3
            <4>2. Tail(from_peer[c])[i] \in Starters
                BY <3>1, <3>2, <3>3
            <4> QED
                BY <1>1, <1>2, <4>1, <4>2, TailShifts
        <3>5. Back(x, c, 1, 0) = <<"from", c, i + 1>>
            BY <2>3, <3>3 DEF Back
        <3>6. <<"from", c, i + 1>> \in Place
            BY DEF Place
        <3>7. <<"from", c, i + 1>> \in Questions
            BY <3>4, <3>6 DEF Questions, QuestionAt
        <3> QED
            BY <2>2, <3>5, <3>7
    <2>4. CASE ~ (x[1] = "from" /\ x[2] = c)
        <3>1. Back(x, c, 1, 0) = x
            BY <2>1, <2>4 DEF Back
        <3>2. QuestionAt(x)
            BY <1>1, <1>2, <2>1, <2>4 DEF QuestionAt, IsQuestion
        <3> QED
            BY <2>1, <2>2, <3>1, <3>2 DEF Questions
    <2> QED
        BY <2>3, <2>4
<1> HIDE DEF none
<1>4. Moved(Questions', Questions, c, 1, 0, none, none)
    BY <1>3 DEF Moved
<1>5. /\ IsFiniteSet(Questions') /\ IsFiniteSet(Questions)
      /\ Cardinality(Questions') <= Cardinality(Questions)
    BY <1>4, QuestionPlaces, QuestionsMove DEF AskedInv
<1> QED
    BY <1>1, <1>5, UnaskedKept

LEMMA PeerNoteAsked ==
    ASSUME AskedInv, TypeOK, TypeOK', NEW c \in Conns, PeerNote(c)
    PROVE  AskedInv'
<1>1. /\ from_peer' = [from_peer EXCEPT ![c] = Append(@, "REPORT_STATE")]
      /\ UNCHANGED <<to_peer, job_out, msg_out, bin_index, finished, nvers,
                     ntest, nclosed>>
    BY DEF PeerNote, testVars
<1>2. ASSUME NEW d \in Conns, NEW i \in 1 .. Len(from_peer'[d]),
             from_peer'[d][i] \in Starters
      PROVE  i \in 1 .. Len(from_peer[d]) /\ from_peer[d][i] \in Starters
    <2>1. from_peer[d] \in Seq(Answers) /\ Len(from_peer[d]) \in Nat
        BY LenProperties DEF TypeOK
    <2>2. CASE d # c
        BY <1>1, <1>2, <2>2 DEF TypeOK
    <2>3. CASE d = c
        <3>1. from_peer'[d] = Append(from_peer[d], "REPORT_STATE")
            BY <1>1, <2>3 DEF TypeOK
        <3>2. "REPORT_STATE" \notin Starters /\ "REPORT_STATE" \in Answers
            BY DEF Starters, Answers
        <3> QED
            BY <1>2, <2>1, <3>1, <3>2, AppendProperties
    <2> QED
        BY <2>2, <2>3
<1>3. Questions' \subseteq Questions
    BY <1>1, <1>2 DEF Questions, QuestionAt, IsQuestion
<1> QED
    BY <1>1, <1>3, PlacesKept

(* The process may die without any of this changing.                       *)
askedVars ==
    <<conn, to_peer, from_peer, bin_index, msg, job_out, msg_out, finished,
      nvers, ntest, nclosed, sent>>

LEMMA AskedUnchanged ==
    ASSUME AskedInv, TypeOK, TypeOK', UNCHANGED askedVars
    PROVE  AskedInv'
<1>1. Questions' \subseteq Questions
    BY DEF askedVars, Questions, QuestionAt, IsQuestion
<1> QED
    BY <1>1, PlacesKept DEF askedVars

(* Another part of the process may end it.                                 *)
LEMMA UpAloneCampaign ==
    ASSUME CampaignInv, up' \in BOOLEAN,
           UNCHANGED <<netVars, appVars, bin_index, g_vers, msg, job_out,
                       msg_out, finished, boundVars, sent>>
    PROVE  CampaignInv'
<1>1. TypeOK'
    BY DEF CampaignInv, TypeOK, netVars, appVars, boundVars, testVars
<1>2. ComposedFrames'
    BY DEF CampaignInv, ComposedFrames
<1> QED
    BY <1>1, <1>2, NoNewStep, SameQueue DEF netVars

LEMMA UpAloneAsked ==
    ASSUME CampaignInv, AskedInv, up' \in BOOLEAN,
           UNCHANGED <<netVars, appVars, bin_index, g_vers, msg, job_out,
                       msg_out, finished, boundVars, sent>>
    PROVE  AskedInv'
<1>1. TypeOK /\ TypeOK'
    BY DEF CampaignInv, TypeOK, netVars, appVars, boundVars, testVars
<1>2. UNCHANGED askedVars
    BY DEF askedVars, netVars, boundVars, testVars
<1> QED
    BY <1>1, <1>2, AskedUnchanged

LEMMA AskedInit == Init => AskedInv
<1> SUFFICES ASSUME Init
             PROVE  AskedInv
    OBVIOUS
<1>1. ~ IsQuestion(NoFrame) /\ 1 .. Len(<<>>) = {}
    BY DEF IsQuestion, NoFrame, Frame
<1>2. Questions = {}
    BY <1>1 DEF Init, Questions, QuestionAt
<1>3. IsFiniteSet(Questions) /\ Cardinality(Questions) = 0
    BY <1>2, FS_EmptySet
<1>4. finished = 0 /\ Running = 0 /\ nvers = 0 /\ ntest = 0 /\ nclosed = 0
    BY DEF Init, Running
<1> QED
    BY <1>3, <1>4 DEF AskedInv

LEMMA AskedNext ==
    ASSUME FinalsAreReports, CampaignInv, AskedInv, [Next]_vars
    PROVE  AskedInv'
<1>1. TypeOK /\ TypeOK'
    BY TypeNext DEF CampaignInv
<1>2. CASE JobCompose
    BY <1>1, <1>2, JobComposeAsked
<1>3. CASE JobSend
    BY <1>1, <1>3, JobSendAsked
<1>4. CASE HandleTestVers
    BY <1>1, <1>4, TestVersAsked
<1>5. CASE MsgSend
    BY <1>1, <1>5, MsgSendAsked
<1>6. ASSUME NEW c \in Conns, Accept(c)
      PROVE  AskedInv'
    BY <1>1, <1>6, AcceptAsked
<1>7. ASSUME NEW c \in Conns, Close(c)
      PROVE  AskedInv'
    BY <1>1, <1>7, CloseAsked
<1>8. ASSUME NEW c \in Conns, RecvPart(c)
      PROVE  AskedInv'
    BY <1>1, <1>8, RecvPartAsked
<1>9. ASSUME NEW c \in Conns, NEW n \in 1 .. MaxMerge, Recv(c, n)
      PROVE  AskedInv'
    BY <1>1, <1>9, RecvAsked
<1>10. ASSUME NEW c \in Conns, PeerAnswer(c)
       PROVE  AskedInv'
    BY <1>1, <1>10, PeerAnswerAsked
<1>11. ASSUME NEW c \in Conns, PeerNote(c)
       PROVE  AskedInv'
    BY <1>1, <1>11, PeerNoteAsked
<1>12. CASE UNCHANGED vars
    <2>1. UNCHANGED askedVars
        BY <1>12 DEF vars, askedVars, netVars, boundVars, testVars
    <2> QED
        BY <1>1, <2>1, AskedUnchanged
<1> QED
    BY <1>2, <1>3, <1>4, <1>5, <1>6, <1>7, <1>8, <1>9, <1>10, <1>11, <1>12
    DEF Next, MsgThread, Peer

LEMMA AskedBound ==
    ASSUME CampaignInv, AskedInv
    PROVE  finished + (IF bin_index # 0 THEN 1 ELSE 0)
             <= nvers + ntest + nclosed
<1> DEFINE k == Cardinality(Questions)
           run == IF bin_index # 0 THEN 1 ELSE 0
<1>1. /\ k \in Nat /\ run \in Nat
      /\ {finished, nvers, ntest, nclosed} \subseteq Nat
    BY InstallerAssumption, FS_CardinalityType
    DEF AskedInv, CampaignInv, TypeOK
<1>2. k + finished + run <= nvers + ntest + nclosed
    BY DEF AskedInv, Running
<1> HIDE DEF k, run
<1>3. finished + run <= nvers + ntest + nclosed
    BY <1>1, <1>2
<1> QED
    BY <1>3 DEF run
=============================================================================
