-------------------------- MODULE DlcReportProofs --------------------------
(* Proofs about DlcReport, for every number of report threads, every report *)
(* text and address that fits its buffer and every value of the bounds.    *)
EXTENDS DlcReport, SequenceTheorems, TLAPS

(* Every string may stand for a character; the two the module names are    *)
(* listed because STRING is opaque to the provers.                         *)
Chars == STRING \cup {NUL, ":8019"}

Buffer(n) == [1 .. n -> Chars]

Cut == UNION {Prefixes(a) : a \in Addresses}

Pcs == {"none", "memset", "body", "address", "tail", "popen", "end"}

ThreadRecord == [pc : Pcs, kind : Kinds, len : 0 .. IpSize, to : Seq(Chars)]

TypeInv ==
    /\ cmd \in Buffer(CmdSize)
    /\ thread \in [Threads -> ThreadRecord]
    /\ asked \in [Threads -> Kinds]
    /\ DOMAIN posted = Threads
    /\ DOMAIN link = {"pc", "copy", "to", "of"}
    /\ \A t \in Threads : thread[t].pc # "none" => asked[t] = thread[t].kind
    /\ \A t \in Threads : thread[t].pc # "end" => posted[t] = <<>>

(* tlc_ip holds what was written of the last client's address and is clear *)
(* from there on.                                                          *)
AddressInv ==
    /\ client \in Addresses
    /\ written \in 0 .. Len(client)
    /\ tlc_ip \in Buffer(IpSize)
    /\ \A i \in 1 .. IpSize :
        tlc_ip[i] = IF i <= written THEN client[i] ELSE NUL

(* While a report is alone in cmd, nobody else is in there.                *)
LoneInv ==
    \A t \in lone :
        /\ t \in Threads
        /\ thread[t].pc \notin {"none", "memset"}
        /\ InCmd(t) => \A u \in Threads \ {t} : ~ InCmd(u)

(* What t has printed: its text, m characters of the address a in the len  *)
(* it has left room for, and the end.                                      *)
Printed(t, a, m) ==
    LET B == Body[thread[t].kind]
        n == thread[t].len
    IN  \A i \in 1 .. CmdSize :
            cmd[i] = IF i <= Len(B) THEN B[i]
                     ELSE IF i <= Len(B) + n
                     THEN IF i - Len(B) <= m THEN a[i - Len(B)] ELSE NUL
                     ELSE IF i = Len(B) + n + 1 /\ thread[t].pc = "popen"
                     THEN ":8019" ELSE NUL

InBody(t) ==
    thread[t].pc = "body" => cmd = Blanks(CmdSize)

InAddress(t) ==
    thread[t].pc = "address" =>
        /\ \E a \in Addresses : thread[t].len <= Len(a)
        /\ \A i \in 1 .. CmdSize :
            cmd[i] = IF i <= Len(Body[thread[t].kind])
                     THEN Body[thread[t].kind][i] ELSE NUL
        /\ t \in calm =>
            /\ thread[t].to = client /\ Written
            /\ thread[t].len = Len(client)

InTail(t) ==
    thread[t].pc \in {"tail", "popen"} =>
        /\ \E a \in Addresses : thread[t].len <= Len(a)
        /\ \E a \in Addresses : \E m \in 0 .. Len(a) :
            /\ Printed(t, a, m)
            /\ t \in calm => /\ thread[t].to = a
                             /\ m = Len(a) /\ thread[t].len = Len(a)

AtEnd(t) ==
    Posted(t) =>
        /\ \E a \in Cut, e \in Prefixes(Tail4) :
            posted[t] = Body[asked[t]] \o a \o e
        /\ t \in calm => posted[t] = Body[asked[t]] \o thread[t].to \o Tail4

ReportInv == \A t \in lone : InBody(t) /\ InAddress(t) /\ InTail(t) /\ AtEnd(t)

LinkInv ==
    /\ link.pc = "copied" =>
        /\ link.copy \in Cut
        /\ "link" \in calm =>
            /\ link.copy = client /\ link.of = client /\ Written
    /\ link.pc = "done" =>
        /\ link.to \in Cut
        /\ "link" \in calm => link.to = link.of

DlcInv ==
    /\ TypeInv
    /\ AddressInv
    /\ LoneInv
    /\ ReportInv
    /\ LinkInv

(***************************************************************************)
(* Strings and buffers.                                                    *)
(***************************************************************************)
LEMMA SizeFacts ==
    /\ IpSize \in Nat /\ CmdSize \in Nat
    /\ \A k \in Kinds : /\ Body[k] \in Seq(Chars) /\ Len(Body[k]) \in Nat
                        /\ \A i \in 1 .. Len(Body[k]) : Body[k][i] # NUL
    /\ \A a \in Addresses : /\ a \in Seq(Chars) /\ Len(a) \in Nat
                            /\ 1 <= Len(a) /\ Len(a) < IpSize
                            /\ \A i \in 1 .. Len(a) : a[i] # NUL
<1>1. ASSUME NEW k \in Kinds
      PROVE  /\ Body[k] \in Seq(Chars) /\ Len(Body[k]) \in Nat
             /\ \A i \in 1 .. Len(Body[k]) : Body[k][i] # NUL
    <2>0. Body[k] \in Seq(STRING) /\ NUL \notin ToSet(Body[k])
        BY ReportAssumption
    <2>1. Body[k] \in Seq(Chars) /\ NUL \notin ToSet(Body[k])
        BY <2>0 DEF Chars
    <2> QED
        BY <2>1, LenProperties DEF ToSet
<1>2. ASSUME NEW a \in Addresses
      PROVE  /\ a \in Seq(Chars) /\ Len(a) \in Nat
             /\ 1 <= Len(a) /\ Len(a) < IpSize
             /\ \A i \in 1 .. Len(a) : a[i] # NUL
    <2>0. a \in Seq(STRING) /\ NUL \notin ToSet(a)
        BY ReportAssumption
    <2>1. /\ a \in Seq(Chars) /\ NUL \notin ToSet(a)
          /\ Len(a) \in 1 .. IpSize - 1 /\ IpSize \in Nat
        BY <2>0, ReportAssumption DEF Chars
    <2> QED
        BY <2>1, LenProperties DEF ToSet
<1> QED
    BY <1>1, <1>2, ReportAssumption

LEMMA BlanksType ==
    ASSUME NEW n \in Nat
    PROVE  Blanks(n) \in Buffer(n) /\ \A i \in 1 .. n : Blanks(n)[i] = NUL
<1>1. NUL \in Chars
    BY DEF Chars
<1> QED
    BY <1>1 DEF Blanks, Buffer

LEMMA PutType ==
    ASSUME NEW n \in Nat, NEW b \in Buffer(n), NEW off \in Nat,
           NEW s \in Seq(Chars)
    PROVE  /\ Put(b, off, s) \in Buffer(n)
           /\ \A i \in 1 .. n :
                Put(b, off, s)[i] = IF i - off \in 1 .. Len(s)
                                    THEN s[i - off] ELSE b[i]
<1>1. DOMAIN b = 1 .. n /\ DOMAIN s = 1 .. Len(s) /\ Len(s) \in Nat
    BY LenProperties DEF Buffer
<1>2. \A i \in 1 .. n :
        Put(b, off, s)[i] = IF i - off \in 1 .. Len(s)
                            THEN s[i - off] ELSE b[i]
    BY <1>1 DEF Put
<1>3. \A i \in 1 .. n : i - off \in 1 .. Len(s) => s[i - off] \in Chars
    BY ElementOfSeq
<1>4. \A i \in 1 .. n : b[i] \in Chars
    BY DEF Buffer
<1>5. DOMAIN Put(b, off, s) = 1 .. n
    BY <1>1 DEF Put
<1>6. Put(b, off, s) = [i \in 1 .. n |-> IF i - off \in 1 .. Len(s)
                                         THEN s[i - off] ELSE b[i]]
    BY <1>1 DEF Put
<1> QED
    BY <1>2, <1>3, <1>4, <1>6 DEF Buffer

(* What a buffer holds up to its first NUL.                                *)
LEMMA StringType ==
    ASSUME NEW n \in Nat, NEW b \in Buffer(n), NEW l \in Nat, l < n,
           b[l + 1] = NUL, \A i \in 1 .. l : b[i] # NUL
    PROVE  /\ Strlen(b) = l
           /\ String(b) \in Seq(Chars) /\ Len(String(b)) = l
           /\ \A i \in 1 .. l : String(b)[i] = b[i]
<1>1. /\ b \in Seq(Chars) /\ Len(b) = n /\ DOMAIN b = 1 .. n
      /\ l + 1 \in 1 .. n
    BY DEF Buffer
<1>2. NUL \in ToSet(b)
    BY <1>1 DEF ToSet
<1>3. \A i \in DOMAIN b :
        (b[i] = NUL /\ \A k \in 1 .. i - 1 : b[k] # NUL) <=> i = l + 1
    <2> SUFFICES ASSUME NEW i \in 1 .. n
                 PROVE  (b[i] = NUL /\ \A k \in 1 .. i - 1 : b[k] # NUL)
                            <=> i = l + 1
        BY <1>1
    <2>1. CASE i = l + 1
        <3>1. 1 .. i - 1 = 1 .. l
            BY <2>1
        <3> QED
            BY <2>1, <3>1
    <2>2. CASE i < l + 1
        <3>1. i \in 1 .. l
            BY <2>2
        <3> QED
            BY <2>2, <3>1
    <2>3. CASE l + 1 < i
        <3>1. l + 1 \in 1 .. i - 1
            BY <2>3
        <3> QED
            BY <2>3, <3>1
    <2> QED
        BY <2>1, <2>2, <2>3
<1>4. (CHOOSE i \in DOMAIN b : b[i] = NUL /\ \A k \in 1 .. i - 1 : b[k] # NUL)
        = l + 1
    <2> DEFINE c == CHOOSE i \in DOMAIN b :
                        b[i] = NUL /\ \A k \in 1 .. i - 1 : b[k] # NUL
    <2>1. \E i \in DOMAIN b : b[i] = NUL /\ \A k \in 1 .. i - 1 : b[k] # NUL
        BY <1>1, <1>3
    <2>2. c \in DOMAIN b /\ b[c] = NUL /\ \A k \in 1 .. c - 1 : b[k] # NUL
        BY <2>1
    <2> HIDE DEF c
    <2>3. c = l + 1
        BY <1>3, <2>2
    <2> QED
        BY <2>3 DEF c
<1>5. Strlen(b) = l
    <2>1. Strlen(b) =
            (CHOOSE i \in DOMAIN b : b[i] = NUL
                                    /\ \A k \in 1 .. i - 1 : b[k] # NUL) - 1
        BY <1>2, Zenon DEF Strlen
    <2>2. Strlen(b) = (l + 1) - 1
        BY <1>4, <2>1, Zenon
    <2> QED
        BY <2>2
<1>6. \A i \in 1 .. l : b[i] \in Chars
    BY DEF Buffer
<1>7. String(b) = SubSeq(b, 1, l)
    BY <1>5 DEF String
<1>8. /\ SubSeq(b, 1, l) \in Seq(Chars) /\ Len(SubSeq(b, 1, l)) = l
      /\ \A i \in 1 .. l : SubSeq(b, 1, l)[i] = b[i]
    BY <1>1, <1>6, SubSeqProperties
<1> QED
    BY <1>5, <1>7, <1>8

(* Prefixes.                                                               *)
LEMMA PrefixType ==
    ASSUME NEW a \in Seq(Chars), NEW l \in 0 .. Len(a)
    PROVE  /\ SubSeq(a, 1, l) \in Prefixes(a)
           /\ SubSeq(a, 1, l) \in Seq(Chars)
           /\ Len(SubSeq(a, 1, l)) = l
           /\ \A i \in 1 .. l : SubSeq(a, 1, l)[i] = a[i]
<1>1. Len(a) \in Nat /\ l \in Nat
    BY LenProperties
<1>2. \A i \in 1 .. l : a[i] \in Chars
    BY <1>1, ElementOfSeq
<1> QED
    BY <1>1, <1>2, SubSeqProperties DEF Prefixes

LEMMA WholePrefix ==
    ASSUME NEW a \in Seq(Chars)
    PROVE  SubSeq(a, 1, Len(a)) = a
<1>1. /\ Len(a) \in Nat /\ Len(a) \in 0 .. Len(a)
    BY LenProperties
<1>2. /\ SubSeq(a, 1, Len(a)) \in Seq(Chars)
      /\ Len(SubSeq(a, 1, Len(a))) = Len(a)
      /\ \A i \in 1 .. Len(a) : SubSeq(a, 1, Len(a))[i] = a[i]
    BY <1>1, PrefixType
<1> QED
    BY <1>2, SeqEqual

(* tlc_ip, read as a string, is the part of the address written so far.    *)
LEMMA AddressString ==
    ASSUME AddressInv
    PROVE  /\ Strlen(tlc_ip) = written
           /\ String(tlc_ip) = SubSeq(client, 1, written)
           /\ String(tlc_ip) \in Cut
           /\ Written => String(tlc_ip) = client
<1>1. /\ client \in Seq(Chars) /\ Len(client) \in Nat
      /\ Len(client) < IpSize /\ IpSize \in Nat
      /\ written \in Nat /\ written <= Len(client)
      /\ \A i \in 1 .. Len(client) : client[i] # NUL
      /\ tlc_ip \in Buffer(IpSize)
    BY SizeFacts DEF AddressInv
<1>2. /\ \A i \in 1 .. written : tlc_ip[i] = client[i] /\ tlc_ip[i] # NUL
      /\ tlc_ip[written + 1] = NUL /\ written < IpSize
    BY <1>1 DEF AddressInv
<1>3. /\ Strlen(tlc_ip) = written
      /\ String(tlc_ip) \in Seq(Chars) /\ Len(String(tlc_ip)) = written
      /\ \A i \in 1 .. written : String(tlc_ip)[i] = tlc_ip[i]
    BY <1>1, <1>2, StringType
<1>4. /\ SubSeq(client, 1, written) \in Prefixes(client)
      /\ SubSeq(client, 1, written) \in Seq(Chars)
      /\ Len(SubSeq(client, 1, written)) = written
      /\ \A i \in 1 .. written : SubSeq(client, 1, written)[i] = client[i]
    BY <1>1, PrefixType
<1>5. String(tlc_ip) = SubSeq(client, 1, written)
    BY <1>2, <1>3, <1>4, SeqEqual
<1>6. client \in Addresses
    BY DEF AddressInv
<1> QED
    BY <1>1, <1>3, <1>4, <1>5, <1>6, WholePrefix DEF Cut, Written

(***************************************************************************)
(* What a step leaves alone.                                               *)
(***************************************************************************)
Reported(t) == InBody(t) /\ InAddress(t) /\ InTail(t) /\ AtEnd(t)

LEMMA ReportKept ==
    ASSUME NEW t, Reported(t),
           thread'[t] = thread[t], posted'[t] = posted[t],
           asked'[t] = asked[t], t \in calm' => t \in calm,
           InCmd(t) => cmd' = cmd,
           t \in calm' /\ thread[t].pc = "address" =>
                UNCHANGED <<client, written>>
    PROVE  Reported(t)'
<1>1. InBody(t)'
    BY DEF Reported, InBody, InCmd
<1>2. InAddress(t)'
    BY DEF Reported, InAddress, InCmd, Written
<1>3. InTail(t)'
    BY DEF Reported, InTail, InCmd, Printed
<1>4. AtEnd(t)'
    BY DEF Reported, AtEnd, Posted
<1> QED
    BY <1>1, <1>2, <1>3, <1>4 DEF Reported

LEMMA LinkKept ==
    ASSUME LinkInv, UNCHANGED link, "link" \in calm' => "link" \in calm,
           "link" \in calm' /\ link.pc = "copied" =>
                UNCHANGED <<client, written>>
    PROVE  LinkInv'
BY DEF LinkInv, Written

(***************************************************************************)
(* The HTTP thread writes the address.                                     *)
(***************************************************************************)
LEMMA SetAddressStays ==
    ASSUME DlcInv, NEW a \in Hosts, SetAddress(a)
    PROVE  AddressInv'
<1>1. a \in Addresses /\ Len(a) \in Nat /\ IpSize \in Nat
    BY SizeFacts DEF Addresses
<1>2. client' = a /\ written' = 0 /\ tlc_ip' = Blanks(IpSize)
    BY DEF SetAddress
<1>3. written' \in 0 .. Len(client')
    BY <1>1, <1>2
<1>4. /\ tlc_ip' \in Buffer(IpSize)
      /\ \A i \in 1 .. IpSize : tlc_ip'[i] = NUL
    BY <1>1, <1>2, BlanksType
<1>5. \A i \in 1 .. IpSize : ~(i <= written')
    BY <1>1, <1>2
<1> QED
    BY <1>1, <1>2, <1>3, <1>4, <1>5 DEF AddressInv

LEMMA WriteCharStays ==
    ASSUME DlcInv, WriteChar
    PROVE  AddressInv'
<1> DEFINE c == client[written + 1]
           last == written + 1 = Len(client)
           s == <<c>> \o (IF last THEN <<NUL>> ELSE <<>>)
<1>1. /\ client \in Seq(Chars) /\ Len(client) \in Nat
      /\ Len(client) < IpSize /\ IpSize \in Nat
      /\ written \in Nat /\ written < Len(client)
      /\ written + 1 \in 1 .. Len(client)
      /\ tlc_ip \in Buffer(IpSize)
      /\ client' = client /\ written' = written + 1
      /\ tlc_ip' = Put(tlc_ip, written, s)
    BY SizeFacts DEF DlcInv, AddressInv, WriteChar, Written
<1>2. c \in Chars /\ NUL \in Chars
    BY <1>1, ElementOfSeq DEF Chars
<1> HIDE DEF c, last
<1>3. /\ s \in Seq(Chars) /\ Len(s) \in Nat /\ 1 <= Len(s) /\ Len(s) <= 2
      /\ s[1] = c
      /\ 2 \in 1 .. Len(s) => s[2] = NUL
    BY <1>2
<1> HIDE DEF s
<1>4. /\ tlc_ip' \in Buffer(IpSize)
      /\ \A i \in 1 .. IpSize :
            tlc_ip'[i] = IF i - written \in 1 .. Len(s)
                         THEN s[i - written] ELSE tlc_ip[i]
    <2>1. /\ IpSize \in Nat /\ tlc_ip \in Buffer(IpSize)
          /\ written \in Nat /\ s \in Seq(Chars)
        BY <1>1, <1>3
    <2>2. /\ Put(tlc_ip, written, s) \in Buffer(IpSize)
          /\ \A i \in 1 .. IpSize :
                Put(tlc_ip, written, s)[i] = IF i - written \in 1 .. Len(s)
                                             THEN s[i - written] ELSE tlc_ip[i]
        BY <2>1, PutType, SMTT(20)
    <2>3. tlc_ip' = Put(tlc_ip, written, s)
        BY <1>1
    <2> QED
        BY <2>2, <2>3, Zenon
<1>5. ASSUME NEW i \in 1 .. IpSize
      PROVE  tlc_ip'[i] = IF i <= written' THEN client'[i] ELSE NUL
    <2>1. tlc_ip[i] = IF i <= written THEN client[i] ELSE NUL
        BY DEF DlcInv, AddressInv
    <2>2. CASE i <= written
        <3>1. i - written \notin 1 .. Len(s)
            BY <1>1, <1>3, <2>2
        <3>2. i <= written'
            BY <1>1, <2>2
        <3> QED
            BY <1>1, <1>4, <2>1, <2>2, <3>1, <3>2
    <2>3. CASE i = written + 1
        <3>1. i - written = 1 /\ 1 \in 1 .. Len(s)
            BY <1>1, <1>3, <2>3
        <3>2. tlc_ip'[i] = c
            BY <1>3, <1>4, <3>1
        <3> QED
            BY <1>1, <2>3, <3>2 DEF c
    <2>4. CASE i = written + 2
        <3>1. i - written = 2 /\ ~(i <= written) /\ ~(i <= written')
            BY <1>1, <2>4
        <3>2. tlc_ip'[i] = NUL
            BY <1>3, <1>4, <2>1, <3>1
        <3> QED
            BY <3>1, <3>2
    <2>5. CASE i > written + 2
        <3>1. /\ i - written \notin 1 .. Len(s)
              /\ ~(i <= written) /\ ~(i <= written')
            BY <1>1, <1>3, <2>5
        <3> QED
            BY <1>4, <2>1, <3>1
    <2> QED
        BY <1>1, <2>2, <2>3, <2>4, <2>5
<1>6. client' \in Addresses /\ written' \in 0 .. Len(client')
    BY <1>1 DEF DlcInv, AddressInv
<1> QED
    BY <1>4, <1>5, <1>6 DEF AddressInv

LEMMA AddressStepStays ==
    ASSUME DlcInv, AddressInv',
           UNCHANGED <<reportVars, link>>, calm' = calm \ Readers
    PROVE  DlcInv'
<1>1. TypeInv'
    BY DEF DlcInv, TypeInv, reportVars
<1>2. LoneInv'
    BY DEF DlcInv, LoneInv, InCmd, reportVars
<1>3. ReportInv'
    <2>1. UNCHANGED <<lone, cmd, thread, posted, asked>>
        BY DEF reportVars
    <2> SUFFICES ASSUME NEW t \in lone
                 PROVE  Reported(t)'
        BY <2>1 DEF ReportInv, Reported
    <2>2. Reported(t) /\ t \in Threads
        BY DEF DlcInv, ReportInv, Reported, LoneInv
    <2>3. t \in calm' => t \in calm /\ thread[t].pc # "address"
        BY <2>2 DEF Readers
    <2> QED
        BY <2>1, <2>2, <2>3, ReportKept
<1>4. LinkInv'
    <2>1. "link" \in calm' => "link" \in calm /\ link.pc # "copied"
        BY DEF Readers
    <2> QED
        BY <2>1, LinkKept DEF DlcInv
<1> QED
    BY <1>1, <1>2, <1>3, <1>4 DEF DlcInv

LEMMA HttpStays ==
    ASSUME DlcInv, WriteChar \/ \E a \in Hosts : SetAddress(a)
    PROVE  DlcInv'
BY SetAddressStays, WriteCharStays, AddressStepStays DEF SetAddress, WriteChar

(***************************************************************************)
(* The report threads.                                                     *)
(***************************************************************************)

(* A thread inside cmd takes its next step; what it must show of its own   *)
(* report is left to each action.                                          *)
LEMMA PrintStepStays ==
    ASSUME DlcInv, NEW t \in Threads, InCmd(t),
           thread' \in [Threads -> ThreadRecord],
           \A u \in Threads \ {t} : /\ thread'[u] = thread[u]
                                    /\ posted'[u] = posted[u],
           thread'[t].pc \notin {"none", "memset"},
           thread'[t].kind = thread[t].kind,
           thread'[t].pc # "end" => posted'[t] = posted[t],
           cmd' \in Buffer(CmdSize), DOMAIN posted' = Threads,
           calm' \in {calm, calm \ {t}}, "link" \in calm' => "link" \in calm,
           UNCHANGED <<ipVars, link, lone, asked>>,
           t \in lone => Reported(t)'
    PROVE  DlcInv'
<1>1. TypeInv'
    <2>1. TypeInv
        BY DEF DlcInv
    <2>2. thread[t].pc # "none" /\ thread[t].pc # "end"
        BY DEF InCmd
    <2>3. \A u \in Threads : thread'[u].pc # "none" => asked'[u] = thread'[u].kind
        BY <2>1, <2>2 DEF TypeInv
    <2>4. \A u \in Threads : thread'[u].pc # "end" => posted'[u] = <<>>
        BY <2>1, <2>2 DEF TypeInv
    <2> QED
        BY <2>1, <2>3, <2>4 DEF TypeInv
<1>2. AddressInv'
    BY DEF DlcInv, AddressInv, ipVars
<1>3. LoneInv'
    BY DEF DlcInv, LoneInv, InCmd
<1>4. ReportInv'
    <2> SUFFICES ASSUME NEW u \in lone, u # t
                 PROVE  Reported(u)'
        BY DEF ReportInv, Reported
    <2>1. Reported(u) /\ u \in Threads /\ ~ InCmd(u)
        BY DEF DlcInv, ReportInv, Reported, LoneInv
    <2>2. thread[u].pc # "address"
        BY <2>1 DEF InCmd
    <2> QED
        BY <2>1, <2>2, ReportKept
<1>5. LinkInv'
    BY LinkKept DEF DlcInv, ipVars
<1> QED
    BY <1>1, <1>2, <1>3, <1>4, <1>5 DEF DlcInv

LEMMA MoveType ==
    ASSUME DlcInv, NEW t \in Threads, NEW p \in Pcs,
           thread' = [thread EXCEPT ![t].pc = p]
    PROVE  /\ thread' \in [Threads -> ThreadRecord]
           /\ \A u \in Threads \ {t} : thread'[u] = thread[u]
           /\ thread'[t].pc = p
           /\ thread'[t].kind = thread[t].kind
           /\ thread'[t].len = thread[t].len
           /\ thread'[t].to = thread[t].to
<1>1. thread \in [Threads -> ThreadRecord] /\ thread[t] \in ThreadRecord
    BY DEF DlcInv, TypeInv
<1> QED
    BY <1>1 DEF ThreadRecord

(* What the report in cmd is made of.                                      *)
LEMMA BodyFacts ==
    ASSUME DlcInv, NEW t \in Threads
    PROVE  /\ thread[t].kind \in Kinds
           /\ thread[t].len \in Nat /\ thread[t].len <= IpSize
           /\ Body[thread[t].kind] \in Seq(Chars)
           /\ Len(Body[thread[t].kind]) \in Nat
           /\ cmd \in Buffer(CmdSize) /\ CmdSize \in Nat
BY SizeFacts DEF DlcInv, TypeInv, ThreadRecord

LEMMA ReportStays ==
    ASSUME DlcInv, NEW t \in Threads, NEW k \in Kinds, Report(t, k)
    PROVE  DlcInv'
<1>1. /\ thread[t].pc = "none" /\ t \notin lone
      /\ thread' = [thread EXCEPT ![t] = Thread("memset", k)]
      /\ asked' = [asked EXCEPT ![t] = k]
      /\ UNCHANGED <<ipVars, cmd, posted, fds, lone, link, calm>>
    BY DEF DlcInv, LoneInv, Report, Start
<1>2. Thread("memset", k) \in ThreadRecord /\ Thread("memset", k).pc = "memset"
      /\ Thread("memset", k).kind = k
    BY SizeFacts DEF Thread, ThreadRecord, Pcs
<1>3. TypeInv
    BY DEF DlcInv
<1>4. /\ thread' \in [Threads -> ThreadRecord] /\ asked' \in [Threads -> Kinds]
      /\ \A u \in Threads \ {t} : thread'[u] = thread[u] /\ asked'[u] = asked[u]
      /\ thread'[t].pc = "memset" /\ thread'[t].kind = k /\ asked'[t] = k
    BY <1>1, <1>2, <1>3 DEF TypeInv
<1>5. TypeInv'
    BY <1>1, <1>3, <1>4 DEF TypeInv
<1>6. AddressInv'
    BY <1>1 DEF DlcInv, AddressInv, ipVars
<1>7. LoneInv'
    BY <1>1, <1>4 DEF DlcInv, LoneInv, InCmd
<1>8. ReportInv'
    <2> SUFFICES ASSUME NEW u \in lone
                 PROVE  Reported(u)'
        BY <1>1 DEF ReportInv, Reported
    <2>1. Reported(u) /\ u \in Threads /\ u # t
        BY <1>1 DEF DlcInv, ReportInv, Reported, LoneInv
    <2>2. UNCHANGED <<cmd, posted, calm, client, written>>
        BY <1>1 DEF ipVars
    <2> QED
        BY <1>4, <2>1, <2>2, ReportKept
<1>9. LinkInv'
    BY <1>1, LinkKept DEF DlcInv, ipVars
<1> QED
    BY <1>5, <1>6, <1>7, <1>8, <1>9 DEF DlcInv

LEMMA MemsetStays ==
    ASSUME DlcInv, NEW t \in Threads, Memset(t)
    PROVE  DlcInv'
<1> DEFINE others == {u \in Threads \ {t} : InCmd(u)}
<1>1. /\ thread[t].pc = "memset" /\ t \notin lone
      /\ thread' = [thread EXCEPT ![t].pc = "body"]
      /\ cmd' = Blanks(CmdSize)
      /\ lone' = IF others = {} THEN lone \cup {t} ELSE lone \ others
      /\ UNCHANGED <<ipVars, asked, link, posted, fds, calm>>
    BY DEF DlcInv, LoneInv, Memset, Moves
<1>2. /\ thread' \in [Threads -> ThreadRecord]
      /\ \A u \in Threads \ {t} : thread'[u] = thread[u]
      /\ thread'[t].pc = "body" /\ thread'[t].kind = thread[t].kind
    <2>1. "body" \in Pcs
        BY DEF Pcs
    <2> QED
        BY <1>1, <2>1, MoveType
<1>3. TypeInv
    BY DEF DlcInv
<1>4. TypeInv'
    <2>1. cmd' \in Buffer(CmdSize)
        BY <1>1, SizeFacts, BlanksType
    <2> QED
        BY <1>1, <1>2, <1>3, <2>1 DEF TypeInv
<1>5. AddressInv'
    BY <1>1 DEF DlcInv, AddressInv, ipVars
(* Whoever stays on the list has left the buffer or is t.                  *)
<1>6. \A u \in lone' : \/ u = t /\ others = {}
                       \/ u # t /\ u \in lone /\ u \in Threads /\ ~ InCmd(u)
    BY <1>1 DEF DlcInv, LoneInv
<1>7. LoneInv'
    BY <1>2, <1>6 DEF DlcInv, LoneInv, InCmd
<1>8. ReportInv'
    <2> SUFFICES ASSUME NEW u \in lone'
                 PROVE  Reported(u)'
        BY DEF ReportInv, Reported
    <2>1. CASE u = t
        BY <1>1, <1>2, <2>1
        DEF Reported, InBody, InAddress, InTail, AtEnd, Posted
    <2>2. CASE u # t
        <3>1. /\ Reported(u) /\ ~ InCmd(u) /\ u \in Threads
              /\ thread[u].pc # "address"
            BY <1>6, <2>2 DEF DlcInv, ReportInv, Reported, InCmd
        <3> QED
            BY <1>1, <1>2, <2>2, <3>1, ReportKept
    <2> QED
        BY <2>1, <2>2
<1>9. LinkInv'
    BY <1>1, LinkKept DEF DlcInv, ipVars
<1> QED
    BY <1>4, <1>5, <1>7, <1>8, <1>9 DEF DlcInv

LEMMA PrintBodyStays ==
    ASSUME DlcInv, NEW t \in Threads, PrintBody(t)
    PROVE  DlcInv'
<1> DEFINE B == Body[thread[t].kind]
<1>1. /\ thread[t].pc = "body" /\ InCmd(t)
      /\ thread' = [thread EXCEPT ![t].pc = "address",
                                  ![t].len = Strlen(tlc_ip),
                                  ![t].to = client]
      /\ cmd' = Put(cmd, 0, B)
      /\ calm' = IF Written THEN calm ELSE calm \ {t}
      /\ UNCHANGED <<ipVars, posted, fds, lone, asked, link>>
    BY DEF PrintBody, InCmd
<1>2. /\ Strlen(tlc_ip) = written /\ client \in Addresses
      /\ client \in Seq(Chars) /\ written \in Nat /\ Len(client) \in Nat
      /\ written <= Len(client) /\ written \in 0 .. IpSize
    BY AddressString, SizeFacts DEF DlcInv, AddressInv
<1>3. /\ thread' \in [Threads -> ThreadRecord]
      /\ \A u \in Threads \ {t} : thread'[u] = thread[u]
      /\ thread'[t].pc = "address" /\ thread'[t].kind = thread[t].kind
      /\ thread'[t].len = written /\ thread'[t].to = client
    <2>1. thread \in [Threads -> ThreadRecord] /\ thread[t] \in ThreadRecord
        BY DEF DlcInv, TypeInv
    <2>2. "address" \in Pcs
        BY DEF Pcs
    <2> QED
        BY <1>1, <1>2, <2>1, <2>2 DEF ThreadRecord
<1>4. B \in Seq(Chars) /\ Len(B) \in Nat /\ cmd \in Buffer(CmdSize)
      /\ CmdSize \in Nat
    BY BodyFacts
<1> HIDE DEF B
<1>5. /\ cmd' \in Buffer(CmdSize)
      /\ \A i \in 1 .. CmdSize :
            cmd'[i] = IF i - 0 \in 1 .. Len(B) THEN B[i - 0] ELSE cmd[i]
    <2>1. /\ Put(cmd, 0, B) \in Buffer(CmdSize)
          /\ \A i \in 1 .. CmdSize :
                Put(cmd, 0, B)[i] = IF i - 0 \in 1 .. Len(B)
                                    THEN B[i - 0] ELSE cmd[i]
        BY <1>4, PutType
    <2>2. cmd' = Put(cmd, 0, B)
        BY <1>1
    <2> QED
        BY <2>1, <2>2, Zenon
<1>6. ASSUME t \in lone
      PROVE  Reported(t)'
    <2>1. cmd = Blanks(CmdSize)
        BY <1>1, <1>6 DEF DlcInv, ReportInv, InBody
    <2>2. \A i \in 1 .. CmdSize : cmd[i] = NUL
        BY <1>4, <2>1, BlanksType
    <2>3. \A i \in 1 .. CmdSize :
            cmd'[i] = IF i <= Len(B) THEN B[i] ELSE NUL
        BY <1>4, <1>5, <2>2
    <2>4. \A i \in 1 .. CmdSize :
            cmd'[i] = IF i <= Len(Body[thread'[t].kind])
                      THEN Body[thread'[t].kind][i] ELSE NUL
        BY <1>3, <2>3 DEF B
    <2>5. t \in calm' => Written /\ client' = client /\ written' = written
        BY <1>1 DEF ipVars
    <2>6. InAddress(t)'
        BY <1>2, <1>3, <2>4, <2>5 DEF InAddress, Written
    <2> QED
        BY <1>3, <2>6 DEF Reported, InBody, InTail, AtEnd, Posted
<1>7. /\ calm' \in {calm, calm \ {t}}
      /\ "link" \in calm' => "link" \in calm
      /\ DOMAIN posted' = Threads
    BY <1>1 DEF DlcInv, TypeInv
<1> QED
    BY <1>1, <1>3, <1>5, <1>6, <1>7, PrintStepStays

LEMMA PrintAddressStays ==
    ASSUME DlcInv, NEW t \in Threads, PrintAddress(t)
    PROVE  DlcInv'
<1> DEFINE B == Body[thread[t].kind]
           n == thread[t].len
           s == SubSeq(tlc_ip, 1, n)
<1>1. /\ thread[t].pc = "address" /\ InCmd(t)
      /\ thread' = [thread EXCEPT ![t].pc = "tail"]
      /\ cmd' = Put(cmd, Len(B), s)
      /\ UNCHANGED <<ipVars, posted, fds, lone, asked, link, calm>>
    BY DEF PrintAddress, Moves, InCmd
<1>2. /\ thread' \in [Threads -> ThreadRecord]
      /\ \A u \in Threads \ {t} : thread'[u] = thread[u]
      /\ thread'[t].pc = "tail" /\ thread'[t].kind = thread[t].kind
      /\ thread'[t].len = thread[t].len /\ thread'[t].to = thread[t].to
    <2>1. "tail" \in Pcs
        BY DEF Pcs
    <2> QED
        BY <1>1, <2>1, MoveType
<1>3. /\ B \in Seq(Chars) /\ Len(B) \in Nat /\ cmd \in Buffer(CmdSize)
      /\ CmdSize \in Nat /\ n \in Nat /\ n <= IpSize
    BY BodyFacts
<1>4. /\ tlc_ip \in Buffer(IpSize) /\ IpSize \in Nat
      /\ client \in Addresses /\ Len(client) \in Nat /\ written \in 0 .. Len(client)
      /\ \A i \in 1 .. IpSize :
            tlc_ip[i] = IF i <= written THEN client[i] ELSE NUL
    BY SizeFacts DEF DlcInv, AddressInv
<1> HIDE DEF B, n
<1>5. s \in Seq(Chars) /\ Len(s) = n /\ \A i \in 1 .. n : s[i] = tlc_ip[i]
    <2>1. tlc_ip \in Seq(Chars) /\ Len(tlc_ip) = IpSize
        BY <1>4 DEF Buffer
    <2>2. n \in 0 .. Len(tlc_ip)
        BY <1>3, <1>4, <2>1
    <2> QED
        BY <2>1, <2>2, PrefixType
<1> HIDE DEF s
<1>6. /\ cmd' \in Buffer(CmdSize)
      /\ \A i \in 1 .. CmdSize :
            cmd'[i] = IF i - Len(B) \in 1 .. n
                      THEN tlc_ip[i - Len(B)] ELSE cmd[i]
    <2>1. PICK off \in Nat : off = Len(B)
        BY <1>3
    <2>2. s \in Seq(Chars) /\ cmd \in Buffer(CmdSize) /\ CmdSize \in Nat
        BY <1>3, <1>5
    <2>3. /\ Put(cmd, off, s) \in Buffer(CmdSize)
          /\ \A i \in 1 .. CmdSize :
                Put(cmd, off, s)[i] = IF i - off \in 1 .. Len(s)
                                      THEN s[i - off] ELSE cmd[i]
        BY <2>2, PutType
    <2>4. cmd' = Put(cmd, off, s)
        BY <1>1, <2>1
    <2>5. /\ cmd' \in Buffer(CmdSize)
          /\ \A i \in 1 .. CmdSize :
                cmd'[i] = IF i - off \in 1 .. Len(s) THEN s[i - off] ELSE cmd[i]
        BY <2>3, <2>4, Zenon
    <2> QED
        BY <1>3, <1>5, <2>1, <2>5
<1>7. ASSUME t \in lone
      PROVE  Reported(t)'
    <2>1. InAddress(t)
        BY <1>7 DEF DlcInv, ReportInv
    <2>2. /\ \E a \in Addresses : n <= Len(a)
          /\ \A i \in 1 .. CmdSize :
                cmd[i] = IF i <= Len(B) THEN B[i] ELSE NUL
          /\ t \in calm => /\ thread[t].to = client /\ Written
                           /\ n = Len(client)
        BY <1>1, <2>1 DEF InAddress, B, n
    <2>3. ASSUME NEW i \in 1 .. CmdSize
          PROVE  cmd'[i] = IF i <= Len(B) THEN B[i]
                           ELSE IF i <= Len(B) + n
                           THEN IF i - Len(B) <= written
                                THEN client[i - Len(B)] ELSE NUL
                           ELSE NUL
        <3>1. cmd'[i] = IF i - Len(B) \in 1 .. n
                        THEN tlc_ip[i - Len(B)] ELSE cmd[i]
            BY <1>6
        <3>2. CASE i <= Len(B)
            <4>1. i - Len(B) \notin 1 .. n
                BY <1>3, <3>2
            <4> QED
                BY <2>2, <3>1, <3>2, <4>1
        <3>3. CASE ~(i <= Len(B)) /\ i <= Len(B) + n
            <4>1. i - Len(B) \in 1 .. n /\ i - Len(B) \in 1 .. IpSize
                BY <1>3, <1>4, <3>3
            <4>2. tlc_ip[i - Len(B)] = IF i - Len(B) <= written
                                       THEN client[i - Len(B)] ELSE NUL
                BY <1>4, <4>1
            <4> QED
                BY <3>1, <3>3, <4>1, <4>2
        <3>4. CASE ~(i <= Len(B)) /\ ~(i <= Len(B) + n)
            <4>1. i - Len(B) \notin 1 .. n
                BY <1>3, <3>4
            <4> QED
                BY <2>2, <3>1, <3>4, <4>1
        <3> QED
            BY <3>2, <3>3, <3>4
    <2>4. Printed(t, client, written)'
        <3>1. client' = client /\ written' = written
            BY <1>1 DEF ipVars
        <3>2. Len(Body[thread'[t].kind]) = Len(B) /\ Body[thread'[t].kind] = B
              /\ thread'[t].len = n /\ thread'[t].pc # "popen"
            BY <1>2 DEF B, n
        <3> QED
            BY <2>3, <3>1, <3>2 DEF Printed
    <2>5. client' = client /\ written' = written /\ calm' = calm
        BY <1>1 DEF ipVars
    <2>6. /\ \E a \in Addresses : thread'[t].len <= Len(a)
          /\ t \in calm' => /\ thread'[t].to = client'
                            /\ written' = Len(client')
                            /\ thread'[t].len = Len(client')
        BY <1>2, <2>2, <2>5 DEF n, Written
    <2>7. client' \in Addresses /\ written' \in 0 .. Len(client')
        BY <1>4, <2>5
    <2>8. InTail(t)'
        BY <2>4, <2>6, <2>7 DEF InTail
    <2> QED
        BY <1>2, <2>8 DEF Reported, InBody, InAddress, AtEnd, Posted
<1>8. calm' \in {calm, calm \ {t}} /\ ("link" \in calm' => "link" \in calm)
      /\ DOMAIN posted' = Threads
    BY <1>1 DEF DlcInv, TypeInv
<1> QED
    BY <1>1, <1>2, <1>6, <1>7, <1>8, PrintStepStays

LEMMA PrintTailStays ==
    ASSUME DlcInv, NEW t \in Threads, PrintTail(t)
    PROVE  DlcInv'
<1> DEFINE B == Body[thread[t].kind]
           n == thread[t].len
           s == Tail4 \o <<NUL>>
<1>1. /\ thread[t].pc = "tail" /\ InCmd(t)
      /\ thread' = [thread EXCEPT ![t].pc = "popen"]
      /\ cmd' = Put(cmd, Len(B) + n, s)
      /\ UNCHANGED <<ipVars, posted, fds, lone, asked, link, calm>>
    BY DEF PrintTail, Moves, InCmd
<1>2. /\ thread' \in [Threads -> ThreadRecord]
      /\ \A u \in Threads \ {t} : thread'[u] = thread[u]
      /\ thread'[t].pc = "popen" /\ thread'[t].kind = thread[t].kind
      /\ thread'[t].len = thread[t].len /\ thread'[t].to = thread[t].to
    <2>1. "popen" \in Pcs
        BY DEF Pcs
    <2> QED
        BY <1>1, <2>1, MoveType
<1>3. /\ B \in Seq(Chars) /\ Len(B) \in Nat /\ cmd \in Buffer(CmdSize)
      /\ CmdSize \in Nat /\ n \in Nat
    BY BodyFacts
<1>4. s \in Seq(Chars) /\ Len(s) = 2 /\ s[1] = ":8019" /\ s[2] = NUL
    <2>1. ":8019" \in Chars /\ NUL \in Chars
        BY DEF Chars
    <2> QED
        BY <2>1 DEF Tail4
<1> HIDE DEF B, n, s
<1>5. /\ cmd' \in Buffer(CmdSize)
      /\ \A i \in 1 .. CmdSize :
            cmd'[i] = IF i - (Len(B) + n) \in 1 .. Len(s)
                      THEN s[i - (Len(B) + n)] ELSE cmd[i]
    <2>1. PICK off \in Nat : off = Len(B) + n
        BY <1>3
    <2>2. s \in Seq(Chars) /\ cmd \in Buffer(CmdSize) /\ CmdSize \in Nat
        BY <1>3, <1>4
    <2>3. /\ Put(cmd, off, s) \in Buffer(CmdSize)
          /\ \A i \in 1 .. CmdSize :
                Put(cmd, off, s)[i] = IF i - off \in 1 .. Len(s)
                                      THEN s[i - off] ELSE cmd[i]
        BY <2>2, PutType
    <2>4. cmd' = Put(cmd, off, s)
        BY <1>1, <2>1
    <2>5. /\ cmd' \in Buffer(CmdSize)
          /\ \A i \in 1 .. CmdSize :
                cmd'[i] = IF i - off \in 1 .. Len(s) THEN s[i - off] ELSE cmd[i]
        BY <2>3, <2>4, Zenon
    <2> QED
        BY <2>1, <2>5
<1>6. ASSUME t \in lone
      PROVE  Reported(t)'
    <2>1. InTail(t)
        BY <1>6 DEF DlcInv, ReportInv
    <2>2. PICK a \in Addresses : \E m \in 0 .. Len(a) :
            /\ Printed(t, a, m)
            /\ t \in calm => thread[t].to = a /\ m = Len(a) /\ n = Len(a)
        BY <1>1, <2>1 DEF InTail, n
    <2>3. PICK m \in 0 .. Len(a) :
            /\ Printed(t, a, m)
            /\ t \in calm => thread[t].to = a /\ m = Len(a) /\ n = Len(a)
        BY <2>2
    <2>4. ASSUME NEW i \in 1 .. CmdSize
          PROVE  cmd'[i] = IF i <= Len(B) THEN B[i]
                           ELSE IF i <= Len(B) + n
                           THEN IF i - Len(B) <= m THEN a[i - Len(B)] ELSE NUL
                           ELSE IF i = Len(B) + n + 1 THEN ":8019" ELSE NUL
        <3>1. cmd[i] = IF i <= Len(B) THEN B[i]
                       ELSE IF i <= Len(B) + n
                       THEN IF i - Len(B) <= m THEN a[i - Len(B)] ELSE NUL
                       ELSE NUL
            BY <1>1, <2>3 DEF Printed, B, n
        <3>2. cmd'[i] = IF i - (Len(B) + n) \in 1 .. Len(s)
                        THEN s[i - (Len(B) + n)] ELSE cmd[i]
            BY <1>5
        <3>3. CASE i <= Len(B) + n
            <4>1. i - (Len(B) + n) \notin 1 .. Len(s) /\ i # Len(B) + n + 1
                BY <1>3, <1>4, <3>3
            <4> QED
                BY <3>1, <3>2, <3>3, <4>1
        <3>4. CASE i = Len(B) + n + 1
            <4>1. /\ i - (Len(B) + n) = 1 /\ 1 \in 1 .. Len(s)
                  /\ ~(i <= Len(B)) /\ ~(i <= Len(B) + n)
                BY <1>3, <1>4, <3>4
            <4> QED
                BY <1>4, <3>2, <3>4, <4>1
        <3>5. CASE i = Len(B) + n + 2
            <4>1. /\ i - (Len(B) + n) = 2 /\ 2 \in 1 .. Len(s)
                  /\ ~(i <= Len(B)) /\ ~(i <= Len(B) + n)
                  /\ i # Len(B) + n + 1
                BY <1>3, <1>4, <3>5
            <4> QED
                BY <1>4, <3>2, <4>1
        <3>6. CASE i > Len(B) + n + 2
            <4>1. /\ i - (Len(B) + n) \notin 1 .. Len(s)
                  /\ ~(i <= Len(B)) /\ ~(i <= Len(B) + n)
                  /\ i # Len(B) + n + 1
                BY <1>3, <1>4, <3>6
            <4> QED
                BY <3>1, <3>2, <4>1
        <3> QED
            BY <1>3, <3>3, <3>4, <3>5, <3>6
    <2>5. Printed(t, a, m)'
        <3>1. Len(Body[thread'[t].kind]) = Len(B) /\ Body[thread'[t].kind] = B
              /\ thread'[t].len = n /\ thread'[t].pc = "popen"
            BY <1>2 DEF B, n
        <3> QED
            BY <2>4, <3>1 DEF Printed
    <2>6. calm' = calm
        BY <1>1
    <2>7. /\ \E b \in Addresses : thread'[t].len <= Len(b)
          /\ t \in calm' => /\ thread'[t].to = a
                            /\ m = Len(a) /\ thread'[t].len = Len(a)
        BY <1>1, <1>2, <2>1, <2>3, <2>6 DEF InTail, n
    <2>8. InTail(t)'
        BY <2>5, <2>7 DEF InTail
    <2> QED
        BY <1>2, <2>8 DEF Reported, InBody, InAddress, AtEnd, Posted
<1>7. calm' \in {calm, calm \ {t}} /\ ("link" \in calm' => "link" \in calm)
      /\ DOMAIN posted' = Threads
    BY <1>1 DEF DlcInv, TypeInv
<1> QED
    BY <1>1, <1>2, <1>5, <1>6, <1>7, PrintStepStays

Command(b, k, a, m, n) ==
    \A i \in 1 .. CmdSize :
        b[i] = IF i <= Len(Body[k]) THEN Body[k][i]
               ELSE IF i <= Len(Body[k]) + n
               THEN IF i - Len(Body[k]) <= m THEN a[i - Len(Body[k])] ELSE NUL
               ELSE IF i = Len(Body[k]) + n + 1 THEN ":8019" ELSE NUL

(* The command as the shell gets it: the text, what the buffer holds of    *)
(* the address, and, if that is whole, the end.                            *)
LEMMA CommandString ==
    ASSUME NEW k \in Kinds, NEW a \in Addresses, NEW m \in 0 .. Len(a),
           NEW n \in Nat, NEW b \in Buffer(CmdSize),
           Len(Body[k]) + n + 2 <= CmdSize,
           Command(b, k, a, m, n)
    PROVE  /\ n <= m => String(b) = Body[k] \o SubSeq(a, 1, n) \o Tail4
           /\ ~(n <= m) => String(b) = Body[k] \o SubSeq(a, 1, m) \o <<>>
<1> DEFINE B == Body[k]
<1>1. /\ B \in Seq(Chars) /\ Len(B) \in Nat /\ CmdSize \in Nat
      /\ \A i \in 1 .. Len(B) : B[i] # NUL
      /\ a \in Seq(Chars) /\ Len(a) \in Nat /\ m \in Nat /\ m <= Len(a)
      /\ \A i \in 1 .. Len(a) : a[i] # NUL
    BY SizeFacts
<1>2. \A i \in 1 .. CmdSize :
            b[i] = IF i <= Len(B) THEN B[i]
                   ELSE IF i <= Len(B) + n
                   THEN IF i - Len(B) <= m THEN a[i - Len(B)] ELSE NUL
                   ELSE IF i = Len(B) + n + 1 THEN ":8019" ELSE NUL
    BY DEF Command
<1>3. Len(B) + n + 2 <= CmdSize
    OBVIOUS
<1> HIDE DEF B
<1>4. PICK w \in Nat : w = Len(B)
    BY <1>1
<1>5. CASE n <= m
    <2> DEFINE A == SubSeq(a, 1, n)
               BA == B \o A
               c == BA \o Tail4
    <2>1. A \in Seq(Chars) /\ Len(A) = n /\ \A i \in 1 .. n : A[i] = a[i]
        <3>1. n \in 0 .. Len(a)
            BY <1>1, <1>5
        <3> QED
            BY <1>1, <3>1, PrefixType
    <2> HIDE DEF A
    <2>2. Tail4 \in Seq(Chars) /\ Len(Tail4) = 1 /\ Tail4[1] = ":8019"
        BY DEF Tail4, Chars
    <2>3. /\ BA \in Seq(Chars) /\ Len(BA) = w + n
          /\ \A i \in 1 .. w + n : BA[i] = IF i <= w THEN B[i] ELSE A[i - w]
        <3>1. B \in Seq(Chars) /\ A \in Seq(Chars)
            BY <1>1, <2>1
        <3>2. /\ B \o A \in Seq(Chars) /\ Len(B \o A) = Len(B) + Len(A)
              /\ \A i \in 1 .. Len(B) + Len(A) :
                    (B \o A)[i] = IF i <= Len(B) THEN B[i] ELSE A[i - Len(B)]
            BY <3>1, ConcatProperties, Zenon
        <3>3. Len(B) = w /\ Len(A) = n
            BY <1>4, <2>1
        <3> QED
            BY <3>2, <3>3, Zenon
    <2> HIDE DEF BA
    <2>4. /\ c \in Seq(Chars) /\ Len(c) = w + n + 1
          /\ \A i \in 1 .. w + n + 1 :
                c[i] = IF i <= w + n THEN BA[i] ELSE Tail4[i - (w + n)]
        <3>1. PICK T \in Seq(Chars) : T = Tail4 /\ Len(T) = 1
            BY <2>2
        <3>2. /\ BA \o T \in Seq(Chars) /\ Len(BA \o T) = Len(BA) + Len(T)
              /\ \A i \in 1 .. Len(BA) + Len(T) :
                    (BA \o T)[i] = IF i <= Len(BA) THEN BA[i]
                                  ELSE T[i - Len(BA)]
            BY <2>3, ConcatProperties, Zenon
        <3>3. Len(BA) + Len(T) = w + n + 1 /\ Len(BA) = w + n
            BY <1>4, <2>3, <3>1
        <3>4. c = BA \o T
            BY <3>1
        <3> QED
            BY <3>1, <3>2, <3>3, <3>4
    <2> HIDE DEF c
    <2>5. PICK l \in Nat : l = w + n + 1
        BY <1>4
    <2>6. ASSUME NEW i \in 1 .. l
          PROVE  b[i] = c[i] /\ b[i] # NUL
        <3>1. i \in 1 .. CmdSize /\ i \in 1 .. w + n + 1
            BY <1>1, <1>3, <1>4, <2>5
        <3>2. CASE i <= w
            <4>1. i \in 1 .. w + n /\ i <= Len(B) /\ i \in 1 .. Len(B) /\ i <= w + n
                BY <1>1, <1>4, <3>2
            <4>2. b[i] = B[i] /\ B[i] # NUL
                BY <1>1, <1>2, <3>1, <4>1
            <4>3. c[i] = B[i]
                BY <2>3, <2>4, <3>1, <3>2, <4>1
            <4> QED
                BY <4>2, <4>3
        <3>3. CASE ~(i <= w) /\ i <= w + n
            <4>1. /\ i \in 1 .. w + n /\ i - w \in 1 .. n /\ i - w <= m
                  /\ i - w \in 1 .. Len(a)
                  /\ ~(i <= Len(B)) /\ i <= Len(B) + n /\ i - Len(B) = i - w
                BY <1>1, <1>4, <1>5, <3>3
            <4>2. b[i] = a[i - w] /\ a[i - w] # NUL
                BY <1>1, <1>2, <3>1, <4>1
            <4>3. c[i] = A[i - w] /\ A[i - w] = a[i - w]
                BY <2>1, <2>3, <2>4, <3>1, <3>3, <4>1
            <4> QED
                BY <4>2, <4>3
        <3>4. CASE i = w + n + 1
            <4>1. /\ ~(i <= Len(B)) /\ ~(i <= Len(B) + n) /\ i = Len(B) + n + 1
                  /\ ~(i <= w + n) /\ i - (w + n) = 1
                <5>1. w \in Nat /\ n \in Nat /\ Len(B) = w /\ i = w + n + 1
                    BY <1>4, <3>4
                <5> QED
                    BY <5>1
            <4>2. b[i] = ":8019"
                BY <1>2, <3>1, <4>1
            <4>3. c[i] = ":8019"
                BY <2>2, <2>4, <3>1, <4>1
            <4> QED
                BY <4>2, <4>3 DEF NUL
        <3> QED
            BY <1>4, <2>5, <3>2, <3>3, <3>4
    <2>7. b[l + 1] = NUL /\ l < CmdSize
        <3>1. /\ l + 1 \in 1 .. CmdSize /\ ~(l + 1 <= Len(B)) /\ l < CmdSize
              /\ ~(l + 1 <= Len(B) + n) /\ l + 1 # Len(B) + n + 1
            BY <1>1, <1>3, <1>4, <2>5
        <3> QED
            BY <1>2, <3>1
    <2>8. /\ String(b) \in Seq(Chars) /\ Len(String(b)) = l
          /\ \A i \in 1 .. l : String(b)[i] = b[i]
        <3>1. \A i \in 1 .. l : b[i] # NUL
            BY <2>6
        <3>2. CmdSize \in Nat /\ l < CmdSize /\ b[l + 1] = NUL
            BY <1>1, <2>7
        <3> QED
            BY <3>1, <3>2, StringType
    <2>9. Len(c) = l
        BY <2>4, <2>5
    <2>10. String(b) = c
        <3>1. \A i \in 1 .. l : String(b)[i] = c[i]
            BY <2>6, <2>8
        <3> QED
            BY <2>4, <2>8, <2>9, <3>1, SeqEqual
    <2> QED
        BY <1>5, <2>10 DEF c, BA, A, B
<1>6. CASE ~(n <= m)
    <2> DEFINE A == SubSeq(a, 1, m)
               c == B \o A \o <<>>
    <2>1. A \in Seq(Chars) /\ Len(A) = m /\ \A i \in 1 .. m : A[i] = a[i]
        BY <1>1, PrefixType
    <2> HIDE DEF A
    <2>2. /\ B \o A \in Seq(Chars) /\ Len(B \o A) = w + m
          /\ \A i \in 1 .. w + m :
                (B \o A)[i] = IF i <= w THEN B[i] ELSE A[i - w]
        <3>1. B \in Seq(Chars) /\ A \in Seq(Chars)
            BY <1>1, <2>1
        <3>2. /\ B \o A \in Seq(Chars) /\ Len(B \o A) = Len(B) + Len(A)
              /\ \A i \in 1 .. Len(B) + Len(A) :
                    (B \o A)[i] = IF i <= Len(B) THEN B[i] ELSE A[i - Len(B)]
            BY <3>1, ConcatProperties, Zenon
        <3>3. Len(B) = w /\ Len(A) = m
            BY <1>4, <2>1
        <3> QED
            BY <3>2, <3>3, Zenon
    <2>3. c = B \o A
        BY <2>2, ConcatEmptySeq
    <2> HIDE DEF c
    <2>4. PICK l \in Nat : l = w + m
        BY <1>1, <1>4
    <2>5. ASSUME NEW i \in 1 .. l
          PROVE  b[i] = c[i] /\ b[i] # NUL
        <3>1. i \in 1 .. CmdSize /\ i \in 1 .. w + m
            BY <1>1, <1>3, <1>4, <1>6, <2>4
        <3>2. CASE i <= w
            <4>1. i <= Len(B) /\ i \in 1 .. Len(B)
                BY <1>1, <1>4, <3>2
            <4>2. b[i] = B[i] /\ B[i] # NUL
                BY <1>1, <1>2, <3>1, <4>1
            <4>3. c[i] = B[i]
                BY <2>2, <2>3, <3>1, <3>2
            <4> QED
                BY <4>2, <4>3
        <3>3. CASE ~(i <= w)
            <4>1. /\ i - w \in 1 .. m /\ i - w <= m /\ i - w \in 1 .. Len(a)
                  /\ ~(i <= Len(B)) /\ i <= Len(B) + n /\ i - Len(B) = i - w
                BY <1>1, <1>4, <1>6, <2>4, <3>3
            <4>2. b[i] = a[i - w] /\ a[i - w] # NUL
                BY <1>1, <1>2, <3>1, <4>1
            <4>3. c[i] = A[i - w] /\ A[i - w] = a[i - w]
                BY <2>1, <2>2, <2>3, <3>1, <3>3, <4>1
            <4> QED
                BY <4>2, <4>3
        <3> QED
            BY <3>2, <3>3
    <2>6. b[l + 1] = NUL /\ l < CmdSize
        <3>1. /\ l + 1 \in 1 .. CmdSize /\ ~(l + 1 <= Len(B)) /\ l < CmdSize
              /\ l + 1 <= Len(B) + n /\ ~(l + 1 - Len(B) <= m)
            BY <1>1, <1>3, <1>4, <1>6, <2>4
        <3> QED
            BY <1>2, <3>1
    <2>7. /\ String(b) \in Seq(Chars) /\ Len(String(b)) = l
          /\ \A i \in 1 .. l : String(b)[i] = b[i]
        <3>1. \A i \in 1 .. l : b[i] # NUL
            BY <2>5
        <3>2. CmdSize \in Nat /\ l < CmdSize /\ b[l + 1] = NUL
            BY <1>1, <2>6
        <3> QED
            BY <3>1, <3>2, StringType
    <2>8. c \in Seq(Chars) /\ Len(c) = l
        BY <2>2, <2>3, <2>4
    <2>9. String(b) = c
        <3>1. \A i \in 1 .. l : String(b)[i] = c[i]
            BY <2>5, <2>7
        <3> QED
            BY <2>7, <2>8, <3>1, SeqEqual
    <2> QED
        BY <1>6, <2>9 DEF c, A, B
<1> QED
    BY <1>5, <1>6

LEMMA TailPrefixes == Tail4 \in Prefixes(Tail4) /\ <<>> \in Prefixes(Tail4)
<1>1. Tail4 \in Seq(Chars) /\ Len(Tail4) = 1
    BY DEF Tail4, Chars
<1>2. /\ SubSeq(Tail4, 1, 0) \in Prefixes(Tail4)
      /\ SubSeq(Tail4, 1, 0) \in Seq(Chars)
      /\ Len(SubSeq(Tail4, 1, 0)) = 0
    BY <1>1, PrefixType
<1>3. SubSeq(Tail4, 1, 1) \in Prefixes(Tail4) /\ SubSeq(Tail4, 1, 1) = Tail4
    <2>1. 1 \in 0 .. Len(Tail4)
        BY <1>1
    <2> QED
        BY <1>1, <2>1, PrefixType, WholePrefix
<1>4. SubSeq(Tail4, 1, 0) = <<>>
    BY <1>2, EmptySeq
<1> QED
    BY <1>2, <1>3, <1>4

LEMMA PopenStays ==
    ASSUME DlcInv, NEW t \in Threads, Popen(t)
    PROVE  DlcInv'
<1> DEFINE k == thread[t].kind
           n == thread[t].len
<1>1. /\ thread[t].pc = "popen" /\ InCmd(t)
      /\ thread' = [thread EXCEPT ![t].pc = "end"]
      /\ \/ posted' = [posted EXCEPT ![t] = String(cmd)]
         \/ posted' = posted
      /\ UNCHANGED <<ipVars, cmd, lone, asked, link, calm>>
    BY DEF Popen, Moves, InCmd
<1>2. /\ thread' \in [Threads -> ThreadRecord]
      /\ \A u \in Threads \ {t} : thread'[u] = thread[u]
      /\ thread'[t].pc = "end" /\ thread'[t].kind = k
      /\ thread'[t].len = n /\ thread'[t].to = thread[t].to
    <2>1. "end" \in Pcs
        BY DEF Pcs
    <2> QED
        BY <1>1, <2>1, MoveType
<1>3. /\ cmd \in Buffer(CmdSize) /\ n \in Nat /\ k \in Kinds /\ CmdSize \in Nat
      /\ cmd' \in Buffer(CmdSize) /\ Len(Body[k]) \in Nat
    BY <1>1, BodyFacts
<1>4. /\ DOMAIN posted = Threads /\ posted[t] = <<>> /\ asked[t] = k
      /\ asked'[t] = k
    BY <1>1 DEF DlcInv, TypeInv
<1>5. /\ DOMAIN posted' = Threads
      /\ \A u \in Threads \ {t} : posted'[u] = posted[u]
      /\ posted'[t] \in {<<>>, String(cmd)}
    BY <1>1, <1>4
<1> HIDE DEF k, n
<1>6. ASSUME t \in lone
      PROVE  Reported(t)'
    <2>1. InTail(t)
        BY <1>6 DEF DlcInv, ReportInv
    <2>2. PICK a0 \in Addresses : n <= Len(a0)
        BY <1>1, <2>1 DEF InTail, n
    <2>3. Len(Body[k]) + n + 2 <= CmdSize
        <3>1. /\ Len(Body[k]) + Len(a0) + 2 <= CmdSize
              /\ Len(a0) \in Nat
            BY <1>3, ReportAssumption, SizeFacts
        <3> QED
            BY <1>3, <2>2, <3>1
    <2>4. PICK a \in Addresses : \E m \in 0 .. Len(a) :
            /\ Printed(t, a, m)
            /\ t \in calm => thread[t].to = a /\ m = Len(a) /\ n = Len(a)
        BY <1>1, <2>1 DEF InTail, n
    <2>5. PICK m \in 0 .. Len(a) :
            /\ Printed(t, a, m)
            /\ t \in calm => thread[t].to = a /\ m = Len(a) /\ n = Len(a)
        BY <2>4
    <2>6. a \in Seq(Chars) /\ Len(a) \in Nat /\ m \in Nat /\ m <= Len(a)
        BY SizeFacts
    <2>7. /\ n <= m => String(cmd) = Body[k] \o SubSeq(a, 1, n) \o Tail4
          /\ ~(n <= m) => String(cmd) = Body[k] \o SubSeq(a, 1, m) \o <<>>
        <3>1. Command(cmd, k, a, m, n)
            BY <1>1, <2>5 DEF Printed, Command, k, n
        <3> QED
            BY <1>3, <2>3, <3>1, CommandString
    <2>8. \E x \in Cut, e \in Prefixes(Tail4) :
            String(cmd) = Body[k] \o x \o e
        <3>1. CASE n <= m
            <4>1. n \in 0 .. Len(a)
                BY <1>3, <2>6, <3>1
            <4>2. SubSeq(a, 1, n) \in Cut
                BY <2>6, <4>1, PrefixType DEF Cut
            <4> QED
                BY <2>7, <3>1, <4>2, TailPrefixes
        <3>2. CASE ~(n <= m)
            <4>1. SubSeq(a, 1, m) \in Cut
                BY <2>6, PrefixType DEF Cut
            <4> QED
                BY <2>7, <3>2, <4>1, TailPrefixes
        <3> QED
            BY <3>1, <3>2
    <2>9. t \in calm => String(cmd) = Body[k] \o thread[t].to \o Tail4
        <3> SUFFICES ASSUME t \in calm
                     PROVE  String(cmd) = Body[k] \o thread[t].to \o Tail4
            OBVIOUS
        <3>1. thread[t].to = a /\ n = Len(a) /\ n <= m
            BY <2>5, <2>6
        <3>2. SubSeq(a, 1, n) = a
            BY <2>6, <3>1, WholePrefix
        <3> QED
            BY <2>7, <3>1, <3>2
    <2>10. Posted(t)' => posted'[t] = String(cmd)
        BY <1>5 DEF Posted
    <2>11. calm' = calm
        BY <1>1
    <2>12. AtEnd(t)'
        BY <1>2, <1>4, <2>8, <2>9, <2>10, <2>11 DEF AtEnd
    <2> QED
        BY <1>2, <2>12 DEF Reported, InBody, InAddress, InTail
<1>7. calm' \in {calm, calm \ {t}} /\ ("link" \in calm' => "link" \in calm)
    BY <1>1
<1>8. thread'[t].kind = thread[t].kind
    BY <1>2 DEF k
<1> QED
    BY <1>1, <1>2, <1>3, <1>5, <1>6, <1>7, <1>8, PrintStepStays

(***************************************************************************)
(* The installer message thread prepares a link.                           *)
(***************************************************************************)
LEMMA LinkStepStays ==
    ASSUME DlcInv, LinkInv', UNCHANGED <<ipVars, reportVars>>,
           DOMAIN link' = {"pc", "copy", "to", "of"},
           \A t \in Threads : t \in calm' => t \in calm
    PROVE  DlcInv'
<1>1. UNCHANGED <<client, written, tlc_ip, cmd, thread, posted, lone, asked>>
    BY DEF ipVars, reportVars
<1>2. TypeInv'
    BY <1>1 DEF DlcInv, TypeInv
<1>3. AddressInv'
    BY <1>1 DEF DlcInv, AddressInv
<1>4. LoneInv'
    BY <1>1 DEF DlcInv, LoneInv, InCmd
<1>5. ReportInv'
    <2> SUFFICES ASSUME NEW t \in lone
                 PROVE  Reported(t)'
        BY <1>1 DEF ReportInv, Reported
    <2>1. Reported(t) /\ t \in Threads
        BY DEF DlcInv, ReportInv, Reported, LoneInv
    <2> QED
        BY <1>1, <2>1, ReportKept
<1> QED
    BY <1>2, <1>3, <1>4, <1>5 DEF DlcInv

LEMMA LinkCopyStays ==
    ASSUME DlcInv, LinkCopy
    PROVE  DlcInv'
<1>1. /\ link' = [pc |-> "copied", copy |-> String(tlc_ip), to |-> <<>>,
                  of |-> client]
      /\ calm' = IF Written THEN calm ELSE calm \ {"link"}
      /\ UNCHANGED <<ipVars, reportVars>>
    BY DEF LinkCopy
<1>2. String(tlc_ip) \in Cut /\ (Written => String(tlc_ip) = client)
    BY AddressString DEF DlcInv
<1>3. "link" \in calm' => Written
    BY <1>1
<1>4. LinkInv'
    <2>1. client' = client /\ (Written' <=> Written)
        BY <1>1 DEF ipVars, Written
    <2> QED
        BY <1>1, <1>2, <1>3, <2>1 DEF LinkInv
<1>5. DOMAIN link' = {"pc", "copy", "to", "of"}
    BY <1>1
<1>6. \A t \in Threads : t \in calm' => t \in calm
    BY <1>1
<1> QED
    BY <1>1, <1>4, <1>5, <1>6, LinkStepStays

(* A prefix of what was copied is a prefix of the address it was of.       *)
LEMMA CutAgain ==
    ASSUME NEW x \in Cut, NEW l \in Nat, l <= Len(x)
    PROVE  SubSeq(x, 1, l) \in Cut
<1>1. PICK a \in Addresses : x \in Prefixes(a)
    BY DEF Cut
<1>2. a \in Seq(Chars) /\ Len(a) \in Nat
    BY SizeFacts
<1>3. PICK n \in 0 .. Len(a) : x = SubSeq(a, 1, n)
    BY <1>1, <1>2 DEF Prefixes
<1>4. /\ x \in Seq(Chars) /\ Len(x) = n
      /\ \A i \in 1 .. n : x[i] = a[i]
    BY <1>2, <1>3, PrefixType
<1>5. l \in 0 .. Len(x) /\ l \in 0 .. Len(a) /\ l <= n
    BY <1>2, <1>4
<1> DEFINE y == SubSeq(x, 1, l)
           z == SubSeq(a, 1, l)
<1>6. y \in Seq(Chars) /\ Len(y) = l /\ \A i \in 1 .. l : y[i] = x[i]
    BY <1>4, <1>5, PrefixType
<1>7. /\ z \in Seq(Chars) /\ Len(z) = l /\ \A i \in 1 .. l : z[i] = a[i]
      /\ z \in Prefixes(a)
    BY <1>2, <1>5, PrefixType
<1> HIDE DEF y, z
<1>8. \A i \in 1 .. l : y[i] = z[i]
    BY <1>2, <1>4, <1>5, <1>6, <1>7
<1>9. y = z
    BY <1>6, <1>7, <1>8, SeqEqual
<1> QED
    BY <1>7, <1>9 DEF Cut, y

LEMMA LinkGoesOnStays ==
    ASSUME DlcInv, LinkGoesOn
    PROVE  DlcInv'
<1> DEFINE l == Strlen(tlc_ip)
           to == IF l <= Len(link.copy) THEN SubSeq(link.copy, 1, l)
                 ELSE link.copy
<1>1. /\ link.pc = "copied"
      /\ link' = [link EXCEPT !.pc = "done", !.copy = <<>>, !.to = to]
      /\ UNCHANGED <<ipVars, reportVars, calm>>
    BY DEF LinkGoesOn
<1>2. l = written /\ l \in Nat /\ client \in Seq(Chars)
    BY AddressString, SizeFacts DEF DlcInv, AddressInv
<1>3. /\ link.copy \in Cut
      /\ "link" \in calm => link.copy = client /\ link.of = client /\ Written
    BY <1>1 DEF DlcInv, LinkInv
<1> HIDE DEF l
<1>4. to \in Cut
    BY <1>2, <1>3, CutAgain
<1>5. "link" \in calm => to = link.of
    <2> SUFFICES ASSUME "link" \in calm
                 PROVE  to = link.of
        OBVIOUS
    <2>1. link.copy = client /\ link.of = client /\ l = Len(client)
        BY <1>2, <1>3 DEF Written
    <2>2. SubSeq(client, 1, l) = client
        BY <1>2, <2>1, WholePrefix
    <2> QED
        BY <2>1, <2>2
<1> HIDE DEF to
<1>6. /\ link'.pc = "done" /\ link'.to = to /\ link'.of = link.of
      /\ DOMAIN link' = {"pc", "copy", "to", "of"} /\ calm' = calm
    <2>1. DOMAIN link = {"pc", "copy", "to", "of"}
        BY DEF DlcInv, TypeInv
    <2> QED
        BY <1>1, <2>1
<1>7. LinkInv'
    BY <1>4, <1>5, <1>6 DEF LinkInv
<1> QED
    BY <1>1, <1>6, <1>7, LinkStepStays

(***************************************************************************)
(* The theorems.                                                           *)
(***************************************************************************)
LEMMA DlcInit == Init => DlcInv
<1> SUFFICES ASSUME Init
             PROVE  DlcInv
    OBVIOUS
<1>1. /\ Loopback \in Addresses /\ Loopback \in Seq(Chars)
      /\ Len(Loopback) \in Nat /\ Len(Loopback) < IpSize
      /\ IpSize \in Nat /\ CmdSize \in Nat
    BY SizeFacts DEF Addresses
<1>2. TypeInv
    <2>1. (CHOOSE k \in Kinds : TRUE) \in Kinds
        BY ReportAssumption
    <2>2. cmd \in Buffer(CmdSize)
        BY <1>1, BlanksType DEF Init
    <2>3. thread \in [Threads -> ThreadRecord]
        BY <1>1, <2>1 DEF Init, Thread, ThreadRecord, Pcs
    <2>4. asked \in [Threads -> Kinds]
        BY <2>1 DEF Init
    <2>5. \A t \in Threads : thread[t].pc = "none" /\ posted[t] = <<>>
        BY DEF Init, Thread
    <2>6. DOMAIN posted = Threads /\ DOMAIN link = {"pc", "copy", "to", "of"}
        BY DEF Init, NoLink
    <2> QED
        BY <2>2, <2>3, <2>4, <2>5, <2>6 DEF TypeInv
<1>3. AddressInv
    <2>1. client = Loopback /\ written = Len(Loopback)
          /\ tlc_ip = Put(Blanks(IpSize), 0, Loopback)
        BY DEF Init
    <2>2. /\ Blanks(IpSize) \in Buffer(IpSize)
          /\ \A i \in 1 .. IpSize : Blanks(IpSize)[i] = NUL
        BY <1>1, BlanksType
    <2> DEFINE b == Blanks(IpSize)
    <2> HIDE DEF b
    <2>3. b \in Buffer(IpSize) /\ \A i \in 1 .. IpSize : b[i] = NUL
        BY <2>2 DEF b
    <2>4. /\ Put(b, 0, Loopback) \in Buffer(IpSize)
          /\ \A i \in 1 .. IpSize :
                Put(b, 0, Loopback)[i] = IF i - 0 \in 1 .. Len(Loopback)
                                         THEN Loopback[i - 0] ELSE b[i]
        BY <1>1, <2>3, PutType
    <2>5. tlc_ip = Put(b, 0, Loopback)
        BY <2>1 DEF b
    <2>6. /\ tlc_ip \in Buffer(IpSize)
          /\ \A i \in 1 .. IpSize :
                tlc_ip[i] = IF i - 0 \in 1 .. Len(Loopback)
                            THEN Loopback[i - 0] ELSE b[i]
        BY <2>4, <2>5, Zenon
    <2>7. \A i \in 1 .. IpSize :
            tlc_ip[i] = IF i <= Len(Loopback) THEN Loopback[i] ELSE NUL
        BY <1>1, <2>3, <2>6
    <2> QED
        BY <1>1, <2>1, <2>6, <2>7 DEF AddressInv
<1>4. lone = {} /\ link.pc = "none"
    BY DEF Init, NoLink
<1>5. LoneInv /\ ReportInv /\ LinkInv
    BY <1>4 DEF LoneInv, ReportInv, LinkInv
<1> QED
    BY <1>2, <1>3, <1>5 DEF DlcInv

LEMMA DlcInductive == DlcInv /\ [Next]_vars => DlcInv'
<1> SUFFICES ASSUME DlcInv, [Next]_vars
             PROVE  DlcInv'
    OBVIOUS
<1>1. CASE \/ WriteChar
           \/ \E a \in Hosts :
                \/ \E again \in BOOLEAN : PkgNew(a, again) \/ TestLive(a, again)
                \/ LiveCloses(a)
    <2>1. WriteChar \/ \E a \in Hosts : SetAddress(a)
        BY <1>1 DEF PkgNew, TestLive, LiveCloses
    <2> QED
        BY <2>1, HttpStays
<1>2. ASSUME NEW t \in Threads, ReportStep(t)
      PROVE  DlcInv'
    BY <1>2, MemsetStays, PrintBodyStays, PrintAddressStays, PrintTailStays,
       PopenStays DEF ReportStep
<1>3. ASSUME NEW t \in Threads, NEW k \in Kinds, Report(t, k)
      PROVE  DlcInv'
    BY <1>3, ReportStays
<1>4. CASE LinkCopy
    BY <1>4, LinkCopyStays
<1>5. CASE LinkGoesOn
    BY <1>5, LinkGoesOnStays
<1>6. CASE UNCHANGED vars
    <2>1. /\ UNCHANGED <<ipVars, reportVars>> /\ link' = link /\ calm' = calm
          /\ client' = client /\ written' = written
        BY <1>6 DEF vars, ipVars
    <2>2. LinkInv' /\ DOMAIN link' = {"pc", "copy", "to", "of"}
        BY <2>1, LinkKept DEF DlcInv, TypeInv
    <2> QED
        BY <2>1, <2>2, LinkStepStays
<1> QED
    BY <1>1, <1>2, <1>3, <1>4, <1>5, <1>6 DEF Next

LEMMA DlcCorrect == Spec => []DlcInv
BY DlcInit, DlcInductive, PTL DEF Spec

(* A report nobody ran into is posted as it was asked for, and, if nothing *)
(* rewrote tlc_ip while it was printed, to the host that had it written    *)
(* last: by a request of /pkg/new or /test/live, or by the closing of a    *)
(* connection of its /test/live (dlc_report_thread; mg_http_handler and    *)
(* handle_test_live at MG_EV_CLOSE).                                       *)
THEOREM ReportSafe == Spec => []LoneReportArrives
<1>1. DlcInv => LoneReportArrives
    BY DEF DlcInv, ReportInv, AtEnd, LoneReportArrives
<1> QED
    BY <1>1, DlcCorrect, PTL

(* Neither a report nor a link is ever put together from two addresses     *)
(* (mg_sock_addr_to_str against dlc_report_thread and                      *)
(* bs_eth_installer_req_pkg_new).                                          *)
THEOREM AddressSafe == Spec => []AddressNotMixed
<1>1. DlcInv => AddressNotMixed
    BY DEF DlcInv, ReportInv, AtEnd, LinkInv, AddressNotMixed, Cut
<1> QED
    BY <1>1, DlcCorrect, PTL
=============================================================================
