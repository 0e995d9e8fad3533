---------------------------- MODULE MgConnProofs ----------------------------
(* Proofs about MgConn, for every number of connections, size of the       *)
(* replies and value of the bounds.                                        *)
EXTENDS MgConn, SequenceTheorems, TLAPS

(***************************************************************************)
(* The invariant.  The list of the manager and what the loop has still to  *)
(* visit hold a connection once at the most, and none that is closed; the  *)
(* bytes counted in sent are the head of the buffer the loop is at; only   *)
(* an error closes a connection whose buffer is not empty.                 *)
(***************************************************************************)
Distinct(s) == \A i, j \in 1 .. Len(s) : s[i] = s[j] => i = j

Listed(s, c) == \E i \in 1 .. Len(s) : s[i] = c

ListInv ==
    /\ Distinct(active) /\ Distinct(todo)
    /\ \A c \in gone : ~ Listed(active, c) /\ ~ Listed(todo, c)
    /\ \A c \in Conns : client[c] = "new" => c \notin gone /\ ~ Listed(active, c)

(* The bytes of a buffer that are already sent.                            *)
Skip(c) == IF Inside(c) THEN sent ELSE 0

LoopInv ==
    /\ pc \notin {"select", "poll"} => todo # <<>>
    /\ pc # "remove" => sent = 0
    /\ pc = "remove" => sent <= Len(send_mbuf[Head(todo)])

FailInv == \A c \in Conns : "CLOSE_IMMEDIATELY" \in flags[c] => c \in failed

ConnInv ==
    /\ TypeOK
    /\ ListInv
    /\ LoopInv
    /\ FailInv
    /\ StreamIntact
    /\ AnswersBeforeClose

-----------------------------------------------------------------------------
(***************************************************************************)
(* Sequences: of bytes, and without repetition.                            *)
(***************************************************************************)
LEMMA NumbersType ==
    ASSUME NEW a \in Nat, NEW n \in Nat
    PROVE  /\ Numbers(a, n) \in Seq(Nat)
           /\ Len(Numbers(a, n)) = n
           /\ \A i \in 1 .. n : Numbers(a, n)[i] = a + i
BY DEF Numbers

LEMMA NumbersConcat ==
    ASSUME NEW a \in Nat, NEW n \in Nat
    PROVE  Numbers(0, a) \o Numbers(a, n) = Numbers(0, a + n)
<1> DEFINE s == Numbers(0, a) \o Numbers(a, n)
           t == Numbers(0, a + n)
<1>1. /\ Numbers(0, a) \in Seq(Nat) /\ Len(Numbers(0, a)) = a
      /\ \A i \in 1 .. a : Numbers(0, a)[i] = 0 + i
      /\ Numbers(a, n) \in Seq(Nat) /\ Len(Numbers(a, n)) = n
      /\ \A i \in 1 .. n : Numbers(a, n)[i] = a + i
    BY NumbersType
<1>2. /\ t \in Seq(Nat) /\ Len(t) = a + n
      /\ \A i \in 1 .. a + n : t[i] = 0 + i
    BY NumbersType
<1>3. /\ s \in Seq(Nat) /\ Len(s) = a + n
      /\ \A i \in 1 .. a + n :
            s[i] = IF i <= a THEN Numbers(0, a)[i] ELSE Numbers(a, n)[i - a]
    <2> DEFINE u == Numbers(0, a)
               v == Numbers(a, n)
    <2>1. u \in Seq(Nat) /\ Len(u) = a /\ v \in Seq(Nat) /\ Len(v) = n
        BY <1>1
    <2> HIDE DEF u, v
    <2>2. /\ u \o v \in Seq(Nat) /\ Len(u \o v) = Len(u) + Len(v)
          /\ \A i \in 1 .. Len(u) + Len(v) :
                (u \o v)[i] = IF i <= Len(u) THEN u[i] ELSE v[i - Len(u)]
        BY <2>1, ConcatProperties
    <2>3. /\ u \o v \in Seq(Nat) /\ Len(u \o v) = a + n
          /\ \A i \in 1 .. a + n :
                (u \o v)[i] = IF i <= a THEN u[i] ELSE v[i - a]
        BY <2>1, <2>2
    <2> QED
        BY <2>3, Zenon DEF u, v
<1>4. ASSUME NEW i \in 1 .. a + n
      PROVE  s[i] = t[i]
    <2>1. CASE i <= a
        BY <1>1, <1>2, <1>3, <2>1
    <2>2. CASE ~ (i <= a)
        <3>1. i - a \in 1 .. n /\ a + (i - a) = i
            BY <2>2
        <3>2. s[i] = Numbers(a, n)[i - a]
            BY <1>3, <2>2, Zenon
        <3>3. Numbers(a, n)[i - a] = a + (i - a)
            BY <1>1, <3>1, Zenon
        <3>4. t[i] = i
            BY <1>2
        <3> QED
            BY <3>1, <3>2, <3>3, <3>4, Zenon
    <2> QED
        BY <2>1, <2>2
<1> HIDE DEF s, t
<1>5. s = t
    BY <1>2, <1>3, <1>4, SeqEqual
<1> QED
    BY <1>5 DEF s, t

(* What is left of a buffer after k bytes, and what mbuf_append and        *)
(* mbuf_remove do to it.                                                   *)
Rest(s, k) == SubSeq(s, 1 + k, Len(s))

LEMMA RestType ==
    ASSUME NEW s \in Seq(Nat), NEW k \in Nat
    PROVE  /\ Rest(s, k) \in Seq(Nat)
           /\ Len(Rest(s, k)) = IF k <= Len(s) THEN Len(s) - k ELSE 0
           /\ \A i \in 1 .. Len(s) - k : Rest(s, k)[i] = s[k + i]
<1>1. Len(s) \in Nat /\ \A i \in 1 + k .. Len(s) : s[i] \in Nat
    BY LenProperties, ElementOfSeq
<1> QED
    BY <1>1, SubSeqProperties DEF Rest

LEMMA RestAll ==
    ASSUME NEW s \in Seq(Nat)
    PROVE  Rest(s, 0) = s
BY SubSeqFull DEF Rest

LEMMA RestAppend ==
    ASSUME NEW s \in Seq(Nat), NEW t \in Seq(Nat), NEW k \in 0 .. Len(s)
    PROVE  Rest(s \o t, k) = Rest(s, k) \o t
<1>1. /\ Len(s) \in Nat /\ Len(t) \in Nat /\ k \in Nat
      /\ s \o t \in Seq(Nat) /\ Len(s \o t) = Len(s) + Len(t)
      /\ \A i \in 1 .. Len(s) + Len(t) :
            (s \o t)[i] = IF i <= Len(s) THEN s[i] ELSE t[i - Len(s)]
    BY LenProperties, ConcatProperties
<1>2. /\ Rest(s \o t, k) \in Seq(Nat)
      /\ Len(Rest(s \o t, k)) = Len(s) + Len(t) - k
      /\ \A i \in 1 .. Len(s) + Len(t) - k : Rest(s \o t, k)[i] = (s \o t)[k + i]
    <2>1. PICK u : u = s \o t
        OBVIOUS
    <2>2. u \in Seq(Nat) /\ Len(u) = Len(s) + Len(t)
        BY <1>1, <2>1, Zenon
    <2>3. /\ Rest(u, k) \in Seq(Nat)
          /\ Len(Rest(u, k)) = IF k <= Len(u) THEN Len(u) - k ELSE 0
          /\ \A i \in 1 .. Len(u) - k : Rest(u, k)[i] = u[k + i]
        BY <1>1, <2>2, RestType
    <2>4. k <= Len(u) /\ Len(u) - k = Len(s) + Len(t) - k
        BY <1>1, <2>2
    <2>5. /\ Rest(u, k) \in Seq(Nat)
          /\ Len(Rest(u, k)) = Len(s) + Len(t) - k
          /\ \A i \in 1 .. Len(s) + Len(t) - k : Rest(u, k)[i] = u[k + i]
        BY <2>2, <2>3, <2>4
    <2> QED
        BY <2>1, <2>5, Zenon
<1>3. /\ Rest(s, k) \in Seq(Nat)
      /\ Len(Rest(s, k)) = Len(s) - k
      /\ \A i \in 1 .. Len(s) - k : Rest(s, k)[i] = s[k + i]
    BY <1>1, RestType
<1>4. /\ Rest(s, k) \o t \in Seq(Nat)
      /\ Len(Rest(s, k) \o t) = Len(s) - k + Len(t)
      /\ \A i \in 1 .. Len(s) - k + Len(t) :
            (Rest(s, k) \o t)[i] = IF i <= Len(s) - k THEN Rest(s, k)[i]
                                   ELSE t[i - (Len(s) - k)]
    <2> DEFINE u == Rest(s, k)
    <2>1. u \in Seq(Nat) /\ Len(u) = Len(s) - k
        BY <1>3
    <2> HIDE DEF u
    <2>2. /\ u \o t \in Seq(Nat) /\ Len(u \o t) = Len(u) + Len(t)
          /\ \A i \in 1 .. Len(u) + Len(t) :
                (u \o t)[i] = IF i <= Len(u) THEN u[i] ELSE t[i - Len(u)]
        BY <2>1, ConcatProperties
    <2>3. /\ u \o t \in Seq(Nat) /\ Len(u \o t) = Len(s) - k + Len(t)
          /\ \A i \in 1 .. Len(s) - k + Len(t) :
                (u \o t)[i] = IF i <= Len(s) - k THEN u[i]
                               ELSE t[i - (Len(s) - k)]
        BY <2>1, <2>2
    <2> QED
        BY <2>3 DEF u
<1>5. ASSUME NEW i \in 1 .. Len(s) + Len(t) - k
      PROVE  Rest(s \o t, k)[i] = (Rest(s, k) \o t)[i]
    <2>1. Rest(s \o t, k)[i] = (s \o t)[k + i]
        BY <1>2
    <2>2. i \in 1 .. Len(s) - k + Len(t) /\ k + i \in 1 .. Len(s) + Len(t)
        BY <1>1
    <2>3. CASE i <= Len(s) - k
        <3>1. i \in 1 .. Len(s) - k /\ k + i <= Len(s)
            BY <1>1, <2>3
        <3>2. (s \o t)[k + i] = s[k + i]
            BY <1>1, <2>2, <3>1
        <3>3. (Rest(s, k) \o t)[i] = s[k + i]
            BY <1>3, <1>4, <2>2, <3>1
        <3> QED
            BY <2>1, <3>2, <3>3
    <2>4. CASE ~ (i <= Len(s) - k)
        <3>1. ~ (k + i <= Len(s)) /\ (k + i) - Len(s) = i - (Len(s) - k)
            BY <1>1, <2>4
        <3>2. (s \o t)[k + i] = t[(k + i) - Len(s)]
            BY <1>1, <2>2, <3>1
        <3>3. (Rest(s, k) \o t)[i] = t[i - (Len(s) - k)]
            BY <1>4, <2>2, <2>4
        <3> QED
            BY <2>1, <3>1, <3>2, <3>3
    <2> QED
        BY <2>3, <2>4
<1>6. Len(Rest(s \o t, k)) = Len(Rest(s, k) \o t)
    BY <1>1, <1>2, <1>4
<1> QED
    BY <1>2, <1>4, <1>5, <1>6, SeqEqual

LEMMA RestSplit ==
    ASSUME NEW s \in Seq(Nat), NEW n \in 0 .. Len(s)
    PROVE  /\ SubSeq(s, 1, n) \in Seq(Nat)
           /\ SubSeq(s, 1, n) \o Rest(s, n) = s
<1>1. Len(s) \in Nat /\ \A i \in 1 .. n : s[i] \in Nat
    BY LenProperties, ElementOfSeq
<1>2. SubSeq(s, 1, n) \in Seq(Nat)
    BY <1>1, SubSeqProperties
<1>3. SubSeq(s, 1, n) \o SubSeq(s, n + 1, Len(s)) = SubSeq(s, 1, Len(s))
    <2>1. 1 \in 1 .. Len(s) + 1 /\ n \in 1 - 1 .. Len(s) /\ Len(s) \in n .. Len(s)
        BY <1>1
    <2> QED
        BY <2>1, ConcatAdjacentSubSeq
<1>4. n + 1 = 1 + n
    BY <1>1
<1> QED
    BY <1>2, <1>3, <1>4, SubSeqFull DEF Rest

LEMMA TailDistinct ==
    ASSUME NEW S, NEW q \in Seq(S), q # <<>>, Distinct(q)
    PROVE  /\ Tail(q) \in Seq(S) /\ Head(q) \in S
           /\ Distinct(Tail(q))
           /\ Listed(q, Head(q)) /\ ~ Listed(Tail(q), Head(q))
           /\ \A c : Listed(Tail(q), c) => Listed(q, c)
<1>1. /\ Tail(q) \in Seq(S) /\ Head(q) \in S /\ Head(q) = q[1]
      /\ Len(q) \in Nat \ {0} /\ Len(Tail(q)) = Len(q) - 1
      /\ \A i \in 1 .. Len(Tail(q)) : Tail(q)[i] = q[i + 1]
    <2>1. Len(q) \in Nat \ {0} /\ Len(Tail(q)) = Len(q) - 1
        BY EmptySeq, HeadTailProperties
    <2> QED
        BY <2>1, HeadTailProperties
<1>2. \A i \in 1 .. Len(Tail(q)) :
        i + 1 \in 1 .. Len(q) /\ i + 1 # 1 /\ Tail(q)[i] = q[i + 1]
    BY <1>1
<1>3. Distinct(Tail(q))
    BY <1>1, <1>2 DEF Distinct
<1>4. 1 \in 1 .. Len(q)
    BY <1>1
<1>5. Listed(q, Head(q)) /\ ~ Listed(Tail(q), Head(q))
    BY <1>1, <1>2, <1>4 DEF Distinct, Listed
<1>6. \A c : Listed(Tail(q), c) => Listed(q, c)
    BY <1>2 DEF Listed
<1> QED
    BY <1>1, <1>3, <1>5, <1>6

(* mg_remove_conn takes out the connection and nothing else.               *)
LEMMA RemoveDistinct ==
    ASSUME NEW S, NEW q \in Seq(S), NEW k \in 1 .. Len(q), Distinct(q)
    PROVE  /\ RemoveAt(q, k) \in Seq(S)
           /\ Distinct(RemoveAt(q, k))
           /\ ~ Listed(RemoveAt(q, k), q[k])
           /\ \A c : Listed(RemoveAt(q, k), c) => Listed(q, c)
<1> DEFINE u == SubSeq(q, 1, k - 1)
           v == SubSeq(q, k + 1, Len(q))
           r == u \o v
<1>1. /\ Len(q) \in Nat /\ k \in Nat \ {0} /\ k <= Len(q)
      /\ \A i \in 1 .. k - 1 : q[i] \in S
      /\ \A i \in k + 1 .. Len(q) : q[i] \in S
    BY LenProperties, ElementOfSeq
<1>2. /\ u \in Seq(S) /\ Len(u) = k - 1
      /\ \A i \in 1 .. k - 1 : u[i] = q[i]
    <2>1. /\ u \in Seq(S) /\ Len(u) = IF 1 <= k - 1 THEN k - 1 - 1 + 1 ELSE 0
          /\ \A i \in 1 .. k - 1 - 1 + 1 : u[i] = q[1 + i - 1]
        BY <1>1, SubSeqProperties
    <2> QED
        BY <1>1, <2>1
<1>3. /\ v \in Seq(S) /\ Len(v) = Len(q) - k
      /\ \A i \in 1 .. Len(q) - k : v[i] = q[k + i]
    <2>1. /\ v \in Seq(S)
          /\ Len(v) = IF k + 1 <= Len(q) THEN Len(q) - (k + 1) + 1 ELSE 0
          /\ \A i \in 1 .. Len(q) - (k + 1) + 1 : v[i] = q[(k + 1) + i - 1]
        BY <1>1, SubSeqProperties
    <2> QED
        BY <1>1, <2>1
<1> HIDE DEF u, v
<1>4. /\ r \in Seq(S) /\ Len(r) = Len(u) + Len(v)
      /\ \A i \in 1 .. Len(u) + Len(v) :
            r[i] = IF i <= Len(u) THEN u[i] ELSE v[i - Len(u)]
    BY <1>2, <1>3, ConcatProperties
<1> HIDE DEF r
<1>5. Len(r) = Len(q) - 1
    BY <1>1, <1>2, <1>3, <1>4
<1> DEFINE At(i) == IF i < k THEN i ELSE i + 1
<1>6. ASSUME NEW i \in 1 .. Len(r)
      PROVE  At(i) \in 1 .. Len(q) /\ At(i) # k /\ r[i] = q[At(i)]
    <2>1. CASE i < k
        <3>1. r[i] = u[i] /\ i \in 1 .. k - 1
            BY <1>1, <1>2, <1>4, <2>1
        <3> QED
            BY <1>1, <1>2, <2>1, <3>1
    <2>2. CASE ~ (i < k)
        <3>1. r[i] = v[i - (k - 1)] /\ i - (k - 1) \in 1 .. Len(q) - k
            BY <1>1, <1>2, <1>4, <1>5, <2>2
        <3>2. v[i - (k - 1)] = q[k + (i - (k - 1))] /\ k + (i - (k - 1)) = i + 1
            BY <1>1, <1>3, <3>1
        <3> QED
            BY <1>1, <1>5, <2>2, <3>1, <3>2
    <2> QED
        BY <2>1, <2>2
<1>7. \A i, j \in 1 .. Len(r) : At(i) = At(j) => i = j
    BY <1>1, <1>5
<1> HIDE DEF At
<1>8. Distinct(r) /\ ~ Listed(r, q[k]) /\ \A c : Listed(r, c) => Listed(q, c)
    BY <1>6, <1>7 DEF Distinct, Listed
<1> QED
    BY <1>4, <1>8 DEF r, u, v, RemoveAt

(* mg_add_conn puts a connection before the others.                        *)
LEMMA AddDistinct ==
    ASSUME NEW S, NEW q \in Seq(S), NEW c \in S, Distinct(q), ~ Listed(q, c)
    PROVE  /\ <<c>> \o q \in Seq(S)
           /\ Distinct(<<c>> \o q)
           /\ \A d : Listed(<<c>> \o q, d) => d = c \/ Listed(q, d)
<1> DEFINE u == <<c>>
           r == u \o q
<1>1. u \in Seq(S) /\ Len(u) = 1 /\ u[1] = c /\ Len(q) \in Nat
    BY LenProperties
<1> HIDE DEF u
<1>2. /\ r \in Seq(S) /\ Len(r) = Len(u) + Len(q)
      /\ \A i \in 1 .. Len(u) + Len(q) :
            r[i] = IF i <= Len(u) THEN u[i] ELSE q[i - Len(u)]
    BY <1>1, ConcatProperties
<1> HIDE DEF r
<1>3. ASSUME NEW i \in 1 .. Len(r)
      PROVE  \/ i = 1 /\ r[i] = c
             \/ i # 1 /\ i - 1 \in 1 .. Len(q) /\ r[i] = q[i - 1]
    BY <1>1, <1>2
<1>4. \A i, j \in 1 .. Len(r) : i - 1 = j - 1 => i = j
    BY <1>1, <1>2
<1>5. ASSUME NEW i \in 1 .. Len(r), NEW j \in 1 .. Len(r), r[i] = r[j]
      PROVE  i = j
    <2>1. CASE i = 1 \/ j = 1
        BY <1>3, <1>5, <2>1, SMTT(30) DEF Listed
    <2>2. CASE i # 1 /\ j # 1
        <3>1. i - 1 = j - 1
            BY <1>3, <1>5, <2>2, SMTT(30) DEF Distinct
        <3> QED
            BY <1>4, <3>1
    <2> QED
        BY <2>1, <2>2
<1>6. ASSUME NEW d, Listed(r, d), d # c
      PROVE  Listed(q, d)
    BY <1>3, <1>6, SMTT(30) DEF Listed
<1>7. Distinct(r) /\ \A d : Listed(r, d) => d = c \/ Listed(q, d)
    BY <1>5, <1>6, Zenon DEF Distinct
<1> QED
    BY <1>2, <1>7, Zenon DEF r, u

-----------------------------------------------------------------------------
(***************************************************************************)
(* Type correctness.                                                       *)
(***************************************************************************)
LEMMA AppendType ==
    ASSUME TypeOK, NEW c \in Conns, NEW n \in Nat, MbufAppend(c, n)
    PROVE  send_mbuf' \in [Conns -> Seq(Nat)] /\ asked' \in [Conns -> Nat]
<1>1. send_mbuf[c] \o Numbers(asked[c], n) \in Seq(Nat)
    BY NumbersType, ConcatProperties DEF TypeOK
<1> QED
    BY <1>1 DEF MbufAppend, TypeOK

(* The connection the loop is at, and what it still has to visit.          *)
LEMMA VisitFacts ==
    ASSUME TypeOK, ListInv, NEW c, NEW stage, Visits(c, stage)
    PROVE  /\ c \in Conns /\ c = Head(todo) /\ todo # <<>> /\ c \notin gone
           /\ Tail(todo) \in Seq(Conns)
           /\ Distinct(Tail(todo)) /\ ~ Listed(Tail(todo), c)
           /\ \A d : Listed(Tail(todo), d) => Listed(todo, d)
<1>1. todo \in Seq(Conns) /\ todo # <<>> /\ c = Head(todo) /\ Distinct(todo)
    BY DEF Visits, TypeOK, ListInv
<1> QED
    BY <1>1, TailDistinct DEF ListInv

LEMMA TypeKeeps ==
    ASSUME ConnInv, [Next]_vars
    PROVE  TypeOK'
<1> USE DEF ConnInv
<1>1. ASSUME NEW c \in Conns, Ask(c)
      PROVE  TypeOK'
    <2>1. asks[c] + 1 <= MaxAsks[c]
        <3>1. asks[c] \in Nat /\ MaxAsks[c] \in Nat /\ asks[c] < MaxAsks[c]
            BY <1>1, ConnAssumption DEF Ask, TypeOK
        <3> QED
            BY <3>1
    <2>2. /\ asks' \in [Conns -> Nat] /\ unread' \in [Conns -> Nat]
          /\ \A d \in Conns : asks'[d] <= MaxAsks[d]
        <3>1. /\ asks \in [Conns -> Nat] /\ unread \in [Conns -> Nat]
              /\ \A d \in Conns : asks[d] <= MaxAsks[d]
            BY DEF TypeOK
        <3>2. /\ asks' = [asks EXCEPT ![c] = @ + 1]
              /\ unread' = [unread EXCEPT ![c] = @ + 1]
            BY <1>1 DEF Ask
        <3> QED
            BY <2>1, <3>1, <3>2
    <2>3. UNCHANGED <<up, client, spoilt, loopVars, bufVars, endVars, otherVars>>
        BY <1>1 DEF Ask
    <2> QED
        BY <2>2, <2>3 DEF TypeOK, loopVars, bufVars, endVars, otherVars
<1>2. ASSUME NEW c \in Conns, Leave(c, "shut") \/ Leave(c, "reset")
      PROVE  TypeOK'
    BY <1>2 DEF Leave, TypeOK, loopVars, bufVars, endVars, otherVars
<1>16. ASSUME NEW c \in Conns, Garble(c)
       PROVE  TypeOK'
    BY <1>16 DEF Garble, TypeOK, loopVars, bufVars, endVars, otherVars
<1>3. ASSUME NEW c \in Conns, ForeignSend(c)
      PROVE  TypeOK'
    <2>1. nforeign' \in 0 .. MaxForeign
        BY <1>3, ConnAssumption DEF ForeignSend, TypeOK
    <2> QED
        BY <1>3, <2>1
        DEF ForeignSend, TypeOK, clientVars, loopVars, bufVars, endVars
<1>4. CASE ForeignSent
    <2>1. send_mbuf' \in [Conns -> Seq(Nat)] /\ asked' \in [Conns -> Nat]
        BY <1>4, AppendType, ConnAssumption DEF ForeignSent, TypeOK
    <2> QED
        BY <1>4, <2>1 DEF ForeignSent, TypeOK, clientVars, loopVars, endVars
<1>5. ASSUME NEW room \in SUBSET Conns, Select(room)
      PROVE  TypeOK'
    <2>1. ToSet(active) \subseteq Conns
        BY ElementOfSeq, LenProperties DEF TypeOK, ToSet
    <2> QED
        BY <1>5, <2>1
        DEF Select, TypeOK, clientVars, bufVars, endVars, otherVars
<1>6. CASE PollEnds
    BY <1>6 DEF PollEnds, LoopEnds, NoFds, TypeOK, clientVars, bufVars,
                endVars, otherVars
<1>7. ASSUME NEW c \in Conns, Accept(c)
      PROVE  TypeOK'
    <2>1. active' \in Seq(Conns)
        BY <1>7, AddDistinct DEF Accept, ListInv, TypeOK
    <2> QED
        BY <1>7, <2>1 DEF Accept, LoopEnds, NoFds, TypeOK, bufVars, otherVars
<1>8. ASSUME NEW c \in Conns, IfPoll(c)
      PROVE  TypeOK'
    <2>1. Tail(todo) \in Seq(Conns)
        BY <1>8, VisitFacts DEF IfPoll
    <2>2. active' \in Seq(Conns)
        BY <1>8, RemoveDistinct DEF IfPoll, ListInv, TypeOK
    <2>3. send_mbuf' \in [Conns -> Seq(Nat)]
        <3>1. <<>> \in Seq(Nat)
            BY EmptySeq
        <3>2. send_mbuf' \in {send_mbuf, [send_mbuf EXCEPT ![c] = <<>>]}
            BY <1>8 DEF IfPoll
        <3>3. send_mbuf \in [Conns -> Seq(Nat)]
            BY DEF TypeOK
        <3> QED
            BY <3>1, <3>2, <3>3
    <2>4. pc' \in {"poll", "recv", "send"} /\ todo' \in Seq(Conns)
        BY <1>8, <2>1 DEF IfPoll, Done, GoOn, TypeOK
    <2>5. /\ unread' \in [Conns -> Nat] /\ spoilt' \subseteq Conns
          /\ gone' \subseteq Conns /\ raced' \subseteq Conns
        <3>1. raced' \subseteq Conns
            BY <1>8 DEF IfPoll, TypeOK
        <3>2. gone' \in {gone, gone \cup {c}}
            BY <1>8 DEF IfPoll
        <3>3. unread' \in {unread, [unread EXCEPT ![c] = 0]}
            BY <1>8 DEF IfPoll
        <3>4. spoilt' \in {spoilt, spoilt \ {c}}
            BY <1>8 DEF IfPoll
        <3>5. unread' \in [Conns -> Nat]
            <4>1. unread \in [Conns -> Nat]
                BY DEF TypeOK
            <4> QED
                BY <3>3, <4>1
        <3>6. spoilt' \subseteq Conns /\ gone' \subseteq Conns
            BY <3>2, <3>4 DEF TypeOK
        <3> QED
            BY <3>1, <3>5, <3>6
    <2>6. UNCHANGED <<up, client, asks, sent, taken, flags, failed, foreign,
                      nforeign, fds>>
        BY <1>8 DEF IfPoll, Visits
    <2>7. asked' \in [Conns -> Nat] /\ wasted' \in [Conns -> Nat]
        <3>1. CASE UNCHANGED <<asked, wasted>>
            BY <3>1 DEF TypeOK
        <3>2. CASE \E late \in {0} \cup LateReplies(c) :
                    /\ asked' = [asked EXCEPT ![c] = @ + late]
                    /\ wasted' = [wasted EXCEPT ![c] = late]
            <4>1. {0} \cup LateReplies(c) \subseteq Nat
                BY ConnAssumption DEF LateReplies
            <4> QED
                BY <3>2, <4>1 DEF TypeOK
        <3> QED
            BY <1>8, <3>1, <3>2 DEF IfPoll
    <2> QED
        BY <2>2, <2>3, <2>4, <2>5, <2>6, <2>7 DEF TypeOK
<1>9. ASSUME NEW c \in Conns, NEW reply \in ReplySizes, NEW close \in BOOLEAN,
             Recv(c, reply, close)
      PROVE  TypeOK'
    <2>1. send_mbuf' \in [Conns -> Seq(Nat)] /\ asked' \in [Conns -> Nat]
        BY <1>9, AppendType, ConnAssumption DEF Recv
    <2>2. unread' \in [Conns -> Nat]
        BY <1>9 DEF Recv, TypeOK
    <2>3. flags' \in [Conns -> SUBSET {"SEND_AND_CLOSE", "CLOSE_IMMEDIATELY"}]
        BY <1>9 DEF Recv, TypeOK
    <2>4. /\ UNCHANGED <<up, client, spoilt, asks, sent, taken, active, gone,
                         wasted, failed, otherVars, fds, todo>>
          /\ pc' = "recv"
        BY <1>9 DEF Recv, Visits, GoOn
    <2> QED
        BY <2>1, <2>2, <2>3, <2>4 DEF TypeOK, otherVars
<1>10. ASSUME NEW c \in Conns, RecvEnds(c)
       PROVE  TypeOK'
    BY <1>10 DEF RecvEnds, Visits, GoOn, TypeOK, clientVars, bufVars, otherVars
<1>11. ASSUME NEW c \in Conns, RecvMalformed(c) \/ RecvFails(c)
       PROVE  TypeOK'
    <2>1. /\ flags' \in [Conns -> SUBSET {"SEND_AND_CLOSE", "CLOSE_IMMEDIATELY"}]
          /\ failed' \subseteq Conns
        <3>1. /\ flags \in [Conns -> SUBSET {"SEND_AND_CLOSE", "CLOSE_IMMEDIATELY"}]
              /\ failed \subseteq Conns
            BY DEF TypeOK
        <3>2. Fail(c)
            BY <1>11 DEF RecvMalformed, RecvFails
        <3> QED
            BY <3>1, <3>2 DEF Fail
    <2>2. /\ UNCHANGED <<up, clientVars, bufVars, active, gone, wasted,
                         otherVars, fds, todo>>
          /\ pc' = "send"
        BY <1>11 DEF RecvMalformed, RecvFails, Visits, GoOn
    <2> QED
        BY <2>1, <2>2 DEF TypeOK, clientVars, bufVars, otherVars
<1>12. ASSUME NEW c \in Conns, NEW n \in 1 .. Len(send_mbuf[c]), SendSome(c, n)
       PROVE  TypeOK'
    <2>1. send_mbuf[c] \in Seq(Nat) /\ Len(send_mbuf[c]) \in Nat
        BY LenProperties DEF TypeOK
    <2>2. n \in 0 .. Len(send_mbuf[c]) /\ n \in Nat
        BY <2>1
    <2>3. SubSeq(send_mbuf[c], 1, n) \in Seq(Nat)
        BY <2>1, <2>2, RestSplit
    <2>4. taken[c] \o SubSeq(send_mbuf[c], 1, n) \in Seq(Nat)
        BY <2>3, ConcatProperties DEF TypeOK
    <2>5. taken' \in [Conns -> Seq(Nat)]
        BY <1>12, <2>4 DEF SendSome, TypeOK
    <2> QED
        BY <1>12, <2>2, <2>5
        DEF SendSome, Visits, GoOn, TypeOK, clientVars, endVars, otherVars
<1>13. ASSUME NEW c \in Conns, RemoveSent(c)
       PROVE  TypeOK'
    <2>1. Tail(todo) \in Seq(Conns)
        BY <1>13, VisitFacts DEF RemoveSent
    <2>2. MbufRemove(send_mbuf[c], sent) \in Seq(Nat)
        <3>1. send_mbuf[c] \in Seq(Nat) /\ sent \in Nat /\ 1 + sent = sent + 1
            BY DEF TypeOK
        <3> QED
            BY <3>1, RestType DEF MbufRemove, Rest
    <2>3. send_mbuf' \in [Conns -> Seq(Nat)]
        BY <1>13, <2>2 DEF RemoveSent, TypeOK
    <2> QED
        BY <1>13, <2>1, <2>3
        DEF RemoveSent, Visits, Done, TypeOK, clientVars, endVars, otherVars
<1>14. ASSUME NEW c \in Conns, SendFails(c) \/ SendNothing(c)
       PROVE  TypeOK'
    <2>1. Tail(todo) \in Seq(Conns)
        BY <1>14, VisitFacts DEF SendFails, SendNothing
    <2>2. /\ flags' \in [Conns -> SUBSET {"SEND_AND_CLOSE", "CLOSE_IMMEDIATELY"}]
          /\ failed' \subseteq Conns
        <3>1. CASE SendFails(c)
            BY <3>1 DEF SendFails, Fail, TypeOK
        <3>2. CASE SendNothing(c)
            BY <3>2 DEF SendNothing, TypeOK, endVars
        <3> QED
            BY <1>14, <3>1, <3>2
    <2>3. /\ UNCHANGED <<up, clientVars, bufVars, active, gone, wasted,
                         otherVars, fds>>
          /\ pc' = "poll" /\ todo' \in Seq(Conns)
        BY <1>14, <2>1 DEF SendFails, SendNothing, Visits, Done, endVars
    <2> QED
        BY <2>2, <2>3 DEF TypeOK, clientVars, bufVars, otherVars
<1>15. CASE UNCHANGED vars
    BY <1>15 DEF vars, TypeOK, clientVars, loopVars, bufVars, endVars, otherVars
<1> QED
    BY <1>1, <1>2, <1>3, <1>4, <1>5, <1>6, <1>7, <1>8, <1>9, <1>10, <1>11,
       <1>12, <1>13, <1>14, <1>15, <1>16
    DEF Next, Loop, Handle

-----------------------------------------------------------------------------
(***************************************************************************)
(* The connections of the manager.                                         *)
(***************************************************************************)
LEMMA ListKeeps ==
    ASSUME ConnInv, [Next]_vars
    PROVE  ListInv'
<1> USE DEF ConnInv
<1>1. ASSUME UNCHANGED <<active, todo, gone, client>>
      PROVE  ListInv'
    BY <1>1 DEF ListInv, Distinct, Listed
<1>2. ASSUME NEW c \in Conns, Leave(c, "shut") \/ Leave(c, "reset")
      PROVE  ListInv'
    <2>1. \A d \in Conns : client'[d] = "new" => client[d] = "new"
        BY <1>2 DEF Leave, TypeOK
    <2> QED
        BY <1>2, <2>1 DEF Leave, loopVars, endVars, ListInv, Distinct, Listed
<1>3. ASSUME NEW room \in SUBSET Conns, Select(room)
      PROVE  ListInv'
    BY <1>3 DEF Select, clientVars, endVars, ListInv, Distinct, Listed
<1>4. ASSUME NEW c \in Conns, Accept(c)
      PROVE  ListInv'
    <2>1. /\ Distinct(active')
          /\ \A d : Listed(active', d) => d = c \/ Listed(active, d)
        BY <1>4, AddDistinct DEF Accept, ListInv, TypeOK
    <2>2. \A d \in Conns : client'[d] = "new" => client[d] = "new" /\ d # c
        BY <1>4 DEF Accept, TypeOK
    <2>3. c \notin gone /\ UNCHANGED <<gone, todo>>
        BY <1>4 DEF Accept, LoopEnds, ListInv
    <2> QED
        BY <2>1, <2>2, <2>3 DEF ListInv, Distinct, Listed
<1>5. ASSUME NEW c \in Conns, NEW stage, Visits(c, stage), Done,
             UNCHANGED <<active, gone, client>>
      PROVE  ListInv'
    <2>1. /\ Distinct(todo') /\ \A d : Listed(todo', d) => Listed(todo, d)
        BY <1>5, VisitFacts DEF Done
    <2> QED
        BY <1>5, <2>1 DEF ListInv, Distinct, Listed
<1>6. ASSUME NEW c \in Conns, IfPoll(c)
      PROVE  ListInv'
    <2>1. CASE /\ \E k \in 1 .. Len(active) :
                    active[k] = c /\ active' = RemoveAt(active, k)
               /\ gone' = gone \cup {c} /\ Done /\ UNCHANGED client
        <3>1. /\ Distinct(active') /\ ~ Listed(active', c)
              /\ \A d : Listed(active', d) => Listed(active, d)
            <4>1. active \in Seq(Conns) /\ Distinct(active)
                BY DEF ListInv, TypeOK
            <4> QED
                BY <2>1, <4>1, RemoveDistinct
        <3>2. /\ Distinct(todo') /\ ~ Listed(todo', c)
              /\ \A d : Listed(todo', d) => Listed(todo, d)
            BY <1>6, <2>1, VisitFacts DEF IfPoll, Done
        <3>3. client[c] # "new"
            <4>1. Listed(active, c)
                BY <2>1 DEF Listed
            <4> QED
                BY <4>1 DEF ListInv
        <3> QED
            BY <2>1, <3>1, <3>2, <3>3 DEF ListInv, Distinct, Listed
    <2>2. CASE UNCHANGED <<active, todo, gone, client>>
        BY <1>1, <2>2
    <2> QED
        BY <1>6, <2>1, <2>2 DEF IfPoll, GoOn
<1>7. CASE ForeignSent \/ PollEnds \/ UNCHANGED vars
    BY <1>1, <1>7 DEF ForeignSent, PollEnds, LoopEnds, vars, clientVars,
                      loopVars, endVars
<1>8. ASSUME NEW c \in Conns, \/ Ask(c) \/ Garble(c) \/ ForeignSend(c)
                              \/ RecvEnds(c) \/ RecvMalformed(c)
                              \/ RecvFails(c)
      PROVE  ListInv'
    BY <1>1, <1>8 DEF Ask, Garble, ForeignSend, RecvEnds, RecvMalformed,
                      RecvFails, GoOn, clientVars, loopVars, endVars
<1>9. ASSUME NEW c \in Conns, NEW reply \in ReplySizes, NEW close \in BOOLEAN,
             Recv(c, reply, close)
      PROVE  ListInv'
    BY <1>1, <1>9 DEF Recv, GoOn
<1>10. ASSUME NEW c \in Conns, NEW n \in 1 .. Len(send_mbuf[c]), SendSome(c, n)
       PROVE  ListInv'
    BY <1>1, <1>10 DEF SendSome, GoOn, clientVars, endVars
<1>11. ASSUME NEW c \in Conns, RemoveSent(c) \/ SendFails(c) \/ SendNothing(c)
       PROVE  ListInv'
    BY <1>5, <1>11 DEF RemoveSent, SendFails, SendNothing, clientVars, endVars
<1> QED
    BY <1>2, <1>3, <1>4, <1>6, <1>7, <1>8, <1>9, <1>10, <1>11
    DEF Next, Loop, Handle

(***************************************************************************)
(* Where the loop is in a buffer.                                          *)
(***************************************************************************)
LEMMA AppendGrows ==
    ASSUME TypeOK, NEW c \in Conns, NEW n \in Nat, MbufAppend(c, n), NEW d \in Conns
    PROVE  Len(send_mbuf'[d]) >= Len(send_mbuf[d])
<1>1. Len(send_mbuf[d]) \in Nat
    BY LenProperties DEF TypeOK
<1>2. CASE d = c
    <2>1. send_mbuf'[d] = send_mbuf[c] \o Numbers(asked[c], n)
        BY <1>2 DEF MbufAppend, TypeOK
    <2>2. /\ send_mbuf[c] \in Seq(Nat) /\ Numbers(asked[c], n) \in Seq(Nat)
          /\ Len(Numbers(asked[c], n)) = n
        BY NumbersType DEF TypeOK
    <2>3. Len(send_mbuf'[d]) = Len(send_mbuf[c]) + n
        <3>1. Len(send_mbuf[c] \o Numbers(asked[c], n))
                = Len(send_mbuf[c]) + Len(Numbers(asked[c], n))
            BY <2>2, ConcatProperties
        <3> QED
            BY <2>1, <2>2, <3>1
    <2> QED
        BY <1>1, <1>2, <2>3
<1>3. CASE d # c
    <2>1. send_mbuf'[d] = send_mbuf[d]
        BY <1>3 DEF MbufAppend, TypeOK
    <2> QED
        BY <1>1, <2>1
<1> QED
    BY <1>2, <1>3

LEMMA LoopKeeps ==
    ASSUME ConnInv, [Next]_vars
    PROVE  LoopInv'
<1> USE DEF ConnInv
<1>1. ASSUME UNCHANGED <<pc, todo, sent, send_mbuf>>
      PROVE  LoopInv'
    BY <1>1 DEF LoopInv
<1>2. ASSUME pc' \in {"select", "poll"}, sent' = 0
      PROVE  LoopInv'
    BY <1>2 DEF LoopInv
<1>3. ASSUME pc' \in {"recv", "send"}, pc # "remove", sent' = sent,
             todo # <<>>, todo' = todo
      PROVE  LoopInv'
    BY <1>3 DEF LoopInv
<1>4. ASSUME NEW c \in Conns, NEW n \in Nat, MbufAppend(c, n),
             UNCHANGED <<pc, todo, sent>>
      PROVE  LoopInv'
    <2>1. CASE pc # "remove"
        BY <1>4, <2>1 DEF LoopInv
    <2>2. CASE pc = "remove"
        <3>1. todo # <<>> /\ sent <= Len(send_mbuf[Head(todo)])
            BY <2>2 DEF LoopInv
        <3>2. Head(todo) \in Conns
            BY <3>1, HeadTailProperties DEF TypeOK
        <3>3. Len(send_mbuf'[Head(todo)]) >= Len(send_mbuf[Head(todo)])
            BY <1>4, <3>2, AppendGrows
        <3>4. /\ Len(send_mbuf[Head(todo)]) \in Nat /\ sent \in Nat
              /\ Len(send_mbuf'[Head(todo)]) \in Nat
            BY <1>4, <3>2, LenProperties, AppendType DEF TypeOK
        <3> QED
            BY <1>4, <2>2, <3>1, <3>3, <3>4 DEF LoopInv
    <2> QED
        BY <2>1, <2>2
<1>5. CASE PollEnds \/ UNCHANGED vars
    BY <1>1, <1>2, <1>5
    DEF PollEnds, LoopEnds, vars, loopVars, bufVars, LoopInv
<1>6. CASE ForeignSent
    BY <1>1, <1>4, <1>6, ConnAssumption DEF ForeignSent, loopVars, TypeOK
<1>7. ASSUME NEW room \in SUBSET Conns, Select(room)
      PROVE  LoopInv'
    BY <1>2, <1>7 DEF Select, bufVars, LoopInv
<1>8. ASSUME NEW c \in Conns, \/ Ask(c) \/ Garble(c) \/ Leave(c, "shut")
                              \/ Leave(c, "reset") \/ ForeignSend(c)
      PROVE  LoopInv'
    BY <1>1, <1>8 DEF Ask, Garble, Leave, ForeignSend, loopVars, bufVars
<1>9. ASSUME NEW c \in Conns, Accept(c)
      PROVE  LoopInv'
    BY <1>2, <1>9 DEF Accept, LoopEnds, bufVars, LoopInv
<1>10. ASSUME NEW c \in Conns, IfPoll(c)
       PROVE  LoopInv'
    BY <1>2, <1>3, <1>10 DEF IfPoll, Visits, Done, GoOn, LoopInv
<1>11. ASSUME NEW c \in Conns, NEW reply \in ReplySizes, NEW close \in BOOLEAN,
              Recv(c, reply, close)
       PROVE  LoopInv'
    BY <1>4, <1>11, ConnAssumption DEF Recv, Visits, GoOn
<1>12. ASSUME NEW c \in Conns, RecvEnds(c) \/ RecvMalformed(c) \/ RecvFails(c)
       PROVE  LoopInv'
    BY <1>3, <1>12 DEF RecvEnds, RecvMalformed, RecvFails, Visits, GoOn, bufVars
<1>13. ASSUME NEW c \in Conns, NEW n \in 1 .. Len(send_mbuf[c]), SendSome(c, n)
       PROVE  LoopInv'
    BY <1>13 DEF SendSome, Visits, GoOn, LoopInv
<1>14. ASSUME NEW c \in Conns, RemoveSent(c) \/ SendFails(c) \/ SendNothing(c)
       PROVE  LoopInv'
    BY <1>2, <1>14
    DEF RemoveSent, SendFails, SendNothing, Visits, Done, bufVars, LoopInv
<1> QED
    BY <1>5, <1>6, <1>7, <1>8, <1>9, <1>10, <1>11, <1>12, <1>13, <1>14
    DEF Next, Loop, Handle

(* Only a failed read or write, or a malformed request, asks for a         *)
(* connection to be closed at once.                                        *)
LEMMA FailKeeps ==
    ASSUME ConnInv, [Next]_vars
    PROVE  FailInv'
<1> USE DEF ConnInv
<1>1. ASSUME UNCHANGED <<flags, failed>>
      PROVE  FailInv'
    BY <1>1 DEF FailInv
<1>2. ASSUME NEW c \in Conns, UNCHANGED failed,
             flags' = [flags EXCEPT ![c] = @ \cup {"SEND_AND_CLOSE"}]
      PROVE  FailInv'
    BY <1>2 DEF FailInv, TypeOK
<1>3. ASSUME NEW c \in Conns, Fail(c)
      PROVE  FailInv'
    BY <1>3 DEF Fail, FailInv, TypeOK
<1>4. CASE ForeignSent \/ PollEnds \/ UNCHANGED vars
    BY <1>1, <1>4 DEF ForeignSent, PollEnds, vars, endVars
<1>5. ASSUME NEW room \in SUBSET Conns, Select(room)
      PROVE  FailInv'
    BY <1>1, <1>5 DEF Select, endVars
<1>6. ASSUME NEW c \in Conns,
             \/ Ask(c) \/ Garble(c) \/ Leave(c, "shut") \/ Leave(c, "reset")
             \/ ForeignSend(c) \/ Accept(c) \/ IfPoll(c)
             \/ RemoveSent(c) \/ SendNothing(c)
      PROVE  FailInv'
    BY <1>1, <1>6 DEF Ask, Garble, Leave, ForeignSend, Accept, IfPoll, RemoveSent,
                      SendNothing, endVars
<1>7. ASSUME NEW c \in Conns, NEW reply \in ReplySizes, NEW close \in BOOLEAN,
             Recv(c, reply, close)
      PROVE  FailInv'
    BY <1>1, <1>2, <1>7 DEF Recv
<1>8. ASSUME NEW c \in Conns, RecvEnds(c)
      PROVE  FailInv'
    BY <1>1, <1>2, <1>8 DEF RecvEnds
<1>9. ASSUME NEW c \in Conns, RecvMalformed(c) \/ RecvFails(c) \/ SendFails(c)
      PROVE  FailInv'
    BY <1>3, <1>9 DEF RecvMalformed, RecvFails, SendFails
<1>10. ASSUME NEW c \in Conns, NEW n \in 1 .. Len(send_mbuf[c]), SendSome(c, n)
       PROVE  FailInv'
    BY <1>1, <1>10 DEF SendSome, endVars
<1> QED
    BY <1>4, <1>5, <1>6, <1>7, <1>8, <1>9, <1>10 DEF Next, Loop, Handle

-----------------------------------------------------------------------------
(***************************************************************************)
(* The bytes.                                                              *)
(***************************************************************************)
LEMMA PendingAll ==
    ASSUME NEW c \in Conns
    PROVE  /\ TypeOK /\ sent = 0 => Pending(c) = send_mbuf[c]
           /\ TypeOK' /\ sent' = 0 => Pending(c)' = send_mbuf'[c]
<1>1. ASSUME TypeOK, sent = 0
      PROVE  Pending(c) = send_mbuf[c]
    <2>1. Pending(c) = Rest(send_mbuf[c], 0)
        BY <1>1 DEF Pending, Rest
    <2> QED
        BY <1>1, <2>1, RestAll DEF TypeOK
<1>2. ASSUME TypeOK', sent' = 0
      PROVE  Pending(c)' = send_mbuf'[c]
    <2>1. Pending(c)' = Rest(send_mbuf'[c], 0)
        BY <1>2 DEF Pending, Rest
    <2> QED
        BY <1>2, <2>1, RestAll DEF TypeOK
<1> QED
    BY <1>1, <1>2

LEMMA BytesAssociative ==
    \A s, t, u \in Seq(Nat) : (s \o t) \o u = s \o (t \o u)
BY ConcatAssociative, SMTT(30)

(* A step that moves no byte.                                              *)
LEMMA SameStream ==
    ASSUME StreamIntact, raced \subseteq raced', gone \subseteq gone',
           \A c \in Conns \ (raced' \cup gone') :
                /\ taken'[c] = taken[c] /\ asked'[c] = asked[c]
                /\ Pending(c)' = Pending(c)
    PROVE  StreamIntact'
BY DEF StreamIntact

(* mbuf_append.                                                            *)
LEMMA AppendIntact ==
    ASSUME ConnInv, TypeOK', NEW c \in Conns, NEW n \in Nat, MbufAppend(c, n),
           UNCHANGED <<pc, todo, sent, taken, raced, gone>>
    PROVE  StreamIntact'
<1>1. ASSUME NEW d \in Conns \ (raced \cup gone), d # c
      PROVE  taken'[d] \o Pending(d)' = Numbers(0, asked'[d])
    <2>1. send_mbuf'[d] = send_mbuf[d] /\ asked'[d] = asked[d]
        BY <1>1 DEF MbufAppend, ConnInv, TypeOK
    <2>2. Pending(d)' = Pending(d)
        BY <2>1 DEF Pending, Inside
    <2> QED
        BY <2>1, <2>2 DEF ConnInv, StreamIntact
<1>2. ASSUME c \notin raced \cup gone
      PROVE  taken'[c] \o Pending(c)' = Numbers(0, asked'[c])
    <2> DEFINE s == send_mbuf[c]
               t == Numbers(asked[c], n)
    <2>1. /\ send_mbuf'[c] = s \o t /\ asked'[c] = asked[c] + n
          /\ s \in Seq(Nat) /\ t \in Seq(Nat) /\ asked[c] \in Nat
          /\ taken[c] \in Seq(Nat) /\ Len(s) \in Nat /\ sent \in Nat
        BY NumbersType, LenProperties DEF MbufAppend, ConnInv, TypeOK
    <2>2. Skip(c) \in 0 .. Len(s)
        BY <2>1 DEF Skip, Inside, ConnInv, LoopInv
    <2>3. Pending(c) = Rest(s, Skip(c)) /\ Pending(c)' = Rest(s \o t, Skip(c))
        BY <2>1 DEF Pending, Rest, Skip, Inside
    <2>4. Pending(c)' = Pending(c) \o t /\ Pending(c) \in Seq(Nat)
        <3> DEFINE k == Skip(c)
        <3>1. k \in 0 .. Len(s) /\ k \in Nat
            BY <2>1, <2>2
        <3> HIDE DEF k, s, t
        <3>2. Rest(s \o t, k) = Rest(s, k) \o t /\ Rest(s, k) \in Seq(Nat)
            BY <2>1, <3>1, RestAppend, RestType
        <3> QED
            BY <2>3, <3>2 DEF k
    <2>5. taken[c] \o (Pending(c) \o t) = (taken[c] \o Pending(c)) \o t
        BY <2>1, <2>4, BytesAssociative, Zenon
    <2>6. taken[c] \o Pending(c) = Numbers(0, asked[c])
        BY <1>2 DEF ConnInv, StreamIntact
    <2>7. Numbers(0, asked[c]) \o t = Numbers(0, asked[c] + n)
        BY <2>1, NumbersConcat
    <2> QED
        BY <2>1, <2>4, <2>5, <2>6, <2>7
<1> QED
    BY <1>1, <1>2 DEF StreamIntact

(* tcp_send takes some bytes, which stay in the buffer until mbuf_remove.  *)
LEMMA SendIntact ==
    ASSUME ConnInv, TypeOK', NEW c \in Conns, NEW n \in 1 .. Len(send_mbuf[c]),
           SendSome(c, n)
    PROVE  StreamIntact'
<1> DEFINE s == send_mbuf[c]
<1>1. /\ pc = "send" /\ pc' = "remove" /\ sent = 0 /\ sent' = n
      /\ c = Head(todo)
      /\ UNCHANGED <<todo, send_mbuf, asked, raced, gone>>
      /\ taken' = [taken EXCEPT ![c] = @ \o SubSeq(s, 1, n)]
    BY DEF SendSome, Visits, GoOn, endVars, otherVars, ConnInv, LoopInv
<1>2. \A d \in Conns : Pending(d) = send_mbuf[d]
    BY <1>1, PendingAll DEF ConnInv
<1>3. ASSUME NEW d \in Conns \ (raced \cup gone), d # c
      PROVE  taken'[d] \o Pending(d)' = Numbers(0, asked'[d])
    <2>1. taken'[d] = taken[d]
        BY <1>1, <1>3 DEF ConnInv, TypeOK
    <2>2. ~ Inside(d)'
        BY <1>1, <1>3 DEF Inside
    <2>3. Pending(d)' = Rest(send_mbuf[d], 0)
        BY <1>1, <2>2 DEF Pending, Rest
    <2>4. Pending(d)' = Pending(d)
        BY <1>2, <2>3, RestAll DEF ConnInv, TypeOK
    <2> QED
        BY <1>1, <2>1, <2>4 DEF ConnInv, StreamIntact
<1>4. ASSUME c \notin raced \cup gone
      PROVE  taken'[c] \o Pending(c)' = Numbers(0, asked'[c])
    <2>1. /\ s \in Seq(Nat) /\ taken[c] \in Seq(Nat) /\ Len(s) \in Nat
          /\ n \in 0 .. Len(s) /\ n \in Nat
        BY LenProperties DEF ConnInv, TypeOK
    <2>2. Inside(c)'
        BY <1>1 DEF Inside
    <2>3. Pending(c)' = Rest(s, n)
        BY <1>1, <2>2 DEF Pending, Rest
    <2>4. taken'[c] = taken[c] \o SubSeq(s, 1, n)
        BY <1>1 DEF ConnInv, TypeOK
    <2>5. /\ SubSeq(s, 1, n) \in Seq(Nat) /\ Rest(s, n) \in Seq(Nat)
          /\ SubSeq(s, 1, n) \o Rest(s, n) = s
        BY <2>1, RestSplit, RestType
    <2>6. (taken[c] \o SubSeq(s, 1, n)) \o Rest(s, n) = taken[c] \o s
        <3>1. (taken[c] \o SubSeq(s, 1, n)) \o Rest(s, n)
                = taken[c] \o (SubSeq(s, 1, n) \o Rest(s, n))
            BY <2>1, <2>5, BytesAssociative, Zenon
        <3> QED
            BY <2>5, <3>1, Zenon
    <2>7. taken[c] \o s = Numbers(0, asked[c])
        BY <1>2, <1>4 DEF ConnInv, StreamIntact
    <2> QED
        BY <1>1, <2>3, <2>4, <2>6, <2>7
<1> QED
    BY <1>1, <1>3, <1>4 DEF StreamIntact

(* mbuf_remove takes out what the socket has taken.                        *)
LEMMA RemoveIntact ==
    ASSUME ConnInv, TypeOK', NEW c \in Conns, RemoveSent(c)
    PROVE  StreamIntact'
<1>1. /\ pc = "remove" /\ sent' = 0 /\ c = Head(todo)
      /\ UNCHANGED <<asked, taken, raced, gone>>
      /\ send_mbuf' = [send_mbuf EXCEPT ![c] = MbufRemove(@, sent)]
    BY DEF RemoveSent, Visits, Done, endVars, otherVars
<1>2. \A d \in Conns : Pending(d)' = send_mbuf'[d]
    BY <1>1, PendingAll
<1>3. ASSUME NEW d \in Conns, d # c
      PROVE  Pending(d)' = Pending(d)
    <2>1. ~ Inside(d)
        BY <1>1, <1>3 DEF Inside
    <2>2. Pending(d) = Rest(send_mbuf[d], 0)
        BY <2>1 DEF Pending, Rest
    <2>3. send_mbuf'[d] = send_mbuf[d]
        BY <1>1, <1>3 DEF ConnInv, TypeOK
    <2> QED
        BY <1>2, <2>2, <2>3, RestAll DEF ConnInv, TypeOK
<1>4. Pending(c)' = Pending(c)
    <2>1. Inside(c)
        BY <1>1 DEF Inside
    <2>2. send_mbuf'[c] = SubSeq(send_mbuf[c], sent + 1, Len(send_mbuf[c]))
        BY <1>1 DEF ConnInv, TypeOK, MbufRemove
    <2>3. sent + 1 = 1 + sent
        BY DEF ConnInv, TypeOK
    <2> QED
        BY <1>2, <2>1, <2>2, <2>3 DEF Pending
<1> QED
    BY <1>1, <1>3, <1>4, SameStream DEF ConnInv

LEMMA StreamKeeps ==
    ASSUME ConnInv, [Next]_vars, TypeOK', LoopInv'
    PROVE  StreamIntact'
<1> USE DEF ConnInv
<1>1. ASSUME UNCHANGED <<pc, todo, bufVars, gone>>, raced \subseteq raced'
      PROVE  StreamIntact'
    <2>1. \A c \in Conns : Pending(c)' = Pending(c)
        BY <1>1 DEF bufVars, Pending, Inside
    <2> QED
        BY <1>1, <2>1, SameStream DEF bufVars
<1>2. ASSUME sent = 0, sent' = 0, raced \subseteq raced', gone \subseteq gone',
             UNCHANGED taken,
             \A c \in Conns \ gone' :
                /\ asked'[c] = asked[c] /\ send_mbuf'[c] = send_mbuf[c]
      PROVE  StreamIntact'
    <2>1. \A c \in Conns \ gone' : Pending(c)' = Pending(c)
        BY <1>2, PendingAll
    <2> QED
        BY <1>2, <2>1, SameStream
<1>3. CASE ForeignSent
    <2>1. CASE MbufAppend(foreign, 1)
        <3>1. foreign \in Conns /\ 1 \in Nat
            BY <1>3, ConnAssumption DEF ForeignSent, TypeOK
        <3>2. UNCHANGED <<pc, todo, sent, taken, raced, gone>>
            BY <1>3 DEF ForeignSent, loopVars, endVars
        <3> QED
            BY <2>1, <3>1, <3>2, AppendIntact
    <2>2. CASE UNCHANGED bufVars
        BY <1>1, <1>3, <2>2 DEF ForeignSent, loopVars, endVars
    <2> QED
        BY <1>3, <2>1, <2>2 DEF ForeignSent, bufVars
<1>4. CASE PollEnds \/ UNCHANGED vars
    <2>1. CASE PollEnds
        BY <1>2, <2>1 DEF PollEnds, bufVars, endVars, otherVars, LoopInv
    <2>2. CASE UNCHANGED vars
        BY <1>1, <2>2 DEF vars, loopVars, endVars, otherVars
    <2> QED
        BY <1>4, <2>1, <2>2
<1>5. ASSUME NEW room \in SUBSET Conns, Select(room)
      PROVE  StreamIntact'
    BY <1>2, <1>5 DEF Select, bufVars, endVars, otherVars, LoopInv
<1>6. ASSUME NEW c \in Conns, \/ Ask(c) \/ Garble(c) \/ Leave(c, "shut")
                              \/ Leave(c, "reset") \/ ForeignSend(c)
      PROVE  StreamIntact'
    BY <1>1, <1>6 DEF Ask, Garble, Leave, ForeignSend, loopVars, endVars, otherVars
<1>7. ASSUME NEW c \in Conns, Accept(c)
      PROVE  StreamIntact'
    BY <1>2, <1>7 DEF Accept, bufVars, otherVars, LoopInv
<1>8. ASSUME NEW c \in Conns, IfPoll(c)
      PROVE  StreamIntact'
    <2>1. sent = 0 /\ sent' = 0
        BY <1>8 DEF IfPoll, Visits, LoopInv
    <2>2. raced \subseteq raced' /\ gone \subseteq gone'
        BY <1>8 DEF IfPoll
    <2>3. \A d \in Conns \ gone' :
            asked'[d] = asked[d] /\ send_mbuf'[d] = send_mbuf[d]
        BY <1>8 DEF IfPoll, TypeOK
    <2> QED
        BY <1>2, <1>8, <2>1, <2>2, <2>3 DEF IfPoll
<1>9. ASSUME NEW c \in Conns, NEW reply \in ReplySizes, NEW close \in BOOLEAN,
             Recv(c, reply, close)
      PROVE  StreamIntact'
    BY <1>9, AppendIntact, ConnAssumption DEF Recv, Visits, GoOn, otherVars
<1>10. ASSUME NEW c \in Conns, RecvEnds(c) \/ RecvMalformed(c) \/ RecvFails(c)
       PROVE  StreamIntact'
    BY <1>2, <1>10
    DEF RecvEnds, RecvMalformed, RecvFails, Visits, bufVars, otherVars, LoopInv
<1>11. ASSUME NEW c \in Conns, NEW n \in 1 .. Len(send_mbuf[c]), SendSome(c, n)
       PROVE  StreamIntact'
    BY <1>11, SendIntact
<1>12. ASSUME NEW c \in Conns, RemoveSent(c)
       PROVE  StreamIntact'
    BY <1>12, RemoveIntact
<1>13. ASSUME NEW c \in Conns, SendFails(c) \/ SendNothing(c)
       PROVE  StreamIntact'
    BY <1>2, <1>13
    DEF SendFails, SendNothing, Visits, bufVars, endVars, otherVars, LoopInv
<1> QED
    BY <1>3, <1>4, <1>5, <1>6, <1>7, <1>8, <1>9, <1>10, <1>11, <1>12, <1>13
    DEF Next, Loop, Handle

(* A connection is closed with an empty buffer, unless it failed, and      *)
(* nothing is passed to mg_send for it afterwards.                         *)
LEMMA AnswersKeep ==
    ASSUME ConnInv, [Next]_vars
    PROVE  AnswersBeforeClose'
<1> USE DEF ConnInv
<1>1. ASSUME gone' = gone, raced \subseteq raced', failed \subseteq failed',
             wasted' = wasted,
             \A d \in gone : taken'[d] = taken[d] /\ asked'[d] = asked[d]
      PROVE  AnswersBeforeClose'
    BY <1>1 DEF AnswersBeforeClose
<1>2. CASE ForeignSent
    <2>1. \A d \in gone : asked'[d] = asked[d]
        BY <1>2 DEF ForeignSent, MbufAppend, TypeOK
    <2> QED
        BY <1>1, <1>2, <2>1 DEF ForeignSent, endVars
<1>3. CASE PollEnds \/ UNCHANGED vars
    BY <1>1, <1>3 DEF PollEnds, vars, bufVars, endVars, otherVars
<1>4. ASSUME NEW room \in SUBSET Conns, Select(room)
      PROVE  AnswersBeforeClose'
    BY <1>1, <1>4 DEF Select, bufVars, endVars, otherVars
<1>5. ASSUME NEW c \in Conns,
             \/ Ask(c) \/ Garble(c) \/ Leave(c, "shut") \/ Leave(c, "reset")
             \/ ForeignSend(c) \/ Accept(c) \/ RecvEnds(c) \/ RemoveSent(c)
             \/ SendNothing(c)
      PROVE  AnswersBeforeClose'
    BY <1>1, <1>5 DEF Ask, Garble, Leave, ForeignSend, Accept, RecvEnds, RemoveSent,
                      SendNothing, bufVars, endVars, otherVars
<1>6. ASSUME NEW c \in Conns, IfPoll(c)
      PROVE  AnswersBeforeClose'
    <2>1. CASE ~ MustClose(c)
        BY <1>1, <1>6, <2>1 DEF IfPoll
    <2>2. CASE MustClose(c)
        <3>1. c \notin gone /\ sent = 0
            BY <1>6, VisitFacts DEF IfPoll, Visits, LoopInv
        <3>2. c \notin failed \cup raced => taken[c] = Numbers(0, asked[c])
            <4>1. c \notin failed => send_mbuf[c] = <<>>
                BY <2>2 DEF MustClose, FailInv
            <4>2. Pending(c) = send_mbuf[c]
                BY <3>1, PendingAll
            <4>3. taken[c] \o <<>> = taken[c]
                BY ConcatEmptySeq DEF TypeOK
            <4> QED
                BY <3>1, <4>1, <4>2, <4>3 DEF StreamIntact
        <3>3. PICK late \in {0} \cup LateReplies(c) :
                /\ asked' = [asked EXCEPT ![c] = @ + late]
                /\ wasted' = [wasted EXCEPT ![c] = late]
            BY <1>6, <2>2 DEF IfPoll
        <3>4. late \in Nat
            BY ConnAssumption DEF LateReplies
        <3>5. asked'[c] - wasted'[c] = asked[c]
            BY <3>3, <3>4 DEF TypeOK
        <3>6. \A d \in gone : asked'[d] = asked[d] /\ wasted'[d] = wasted[d]
            BY <3>1, <3>3 DEF TypeOK
        <3>7. /\ gone' = gone \cup {c} /\ taken' = taken /\ failed' = failed
              /\ raced \subseteq raced'
            BY <1>6, <2>2 DEF IfPoll
        <3>8. ASSUME NEW d \in gone' \ (raced' \cup failed')
              PROVE  taken'[d] = Numbers(0, asked'[d] - wasted'[d])
            <4>1. CASE d = c
                BY <3>2, <3>5, <3>7, <4>1
            <4>2. CASE d # c
                BY <3>6, <3>7, <4>2 DEF AnswersBeforeClose
            <4> QED
                BY <4>1, <4>2
        <3> QED
            BY <3>8 DEF AnswersBeforeClose
    <2> QED
        BY <2>1, <2>2
<1>7. ASSUME NEW c \in Conns, NEW reply \in ReplySizes, NEW close \in BOOLEAN,
             Recv(c, reply, close)
      PROVE  AnswersBeforeClose'
    <2>1. c \notin gone
        BY <1>7, VisitFacts DEF Recv
    <2>2. \A d \in gone : asked'[d] = asked[d]
        BY <1>7, <2>1 DEF Recv, MbufAppend, TypeOK
    <2> QED
        BY <1>1, <1>7, <2>2 DEF Recv, otherVars
<1>8. ASSUME NEW c \in Conns, NEW n \in 1 .. Len(send_mbuf[c]), SendSome(c, n)
      PROVE  AnswersBeforeClose'
    <2>1. c \notin gone
        BY <1>8, VisitFacts DEF SendSome
    <2>2. \A d \in gone : taken'[d] = taken[d]
        BY <1>8, <2>1 DEF SendSome, TypeOK
    <2> QED
        BY <1>1, <1>8, <2>2 DEF SendSome, endVars, otherVars
<1>9. ASSUME NEW c \in Conns, RecvMalformed(c) \/ RecvFails(c) \/ SendFails(c)
      PROVE  AnswersBeforeClose'
    BY <1>1, <1>9
    DEF RecvMalformed, RecvFails, SendFails, Fail, bufVars, otherVars
<1> QED
    BY <1>2, <1>3, <1>4, <1>5, <1>6, <1>7, <1>8, <1>9 DEF Next, Loop, Handle

-----------------------------------------------------------------------------
LEMMA ConnInit == Init => ConnInv
<1> SUFFICES ASSUME Init
             PROVE  ConnInv
    OBVIOUS
<1>1. \A S : <<>> \in Seq(S) /\ Len(<<>>) = 0
    BY EmptySeq
<1>2. TypeOK
    BY <1>1, ConnAssumption DEF Init, TypeOK, NoFds
<1>3. ListInv
    BY DEF Init, ListInv, Distinct, Listed
<1>4. LoopInv /\ FailInv /\ AnswersBeforeClose
    BY DEF Init, LoopInv, FailInv, AnswersBeforeClose
<1>5. StreamIntact
    <2>1. \A c \in Conns : Pending(c) = <<>>
        BY <1>2, PendingAll DEF Init
    <2>2. Numbers(0, 0) = <<>>
        BY DEF Numbers
    <2>3. <<>> \o <<>> = <<>>
        BY <1>1, ConcatEmptySeq
    <2> QED
        BY <2>1, <2>2, <2>3 DEF Init, StreamIntact
<1> QED
    BY <1>2, <1>3, <1>4, <1>5 DEF ConnInv

LEMMA ConnNext == ConnInv /\ [Next]_vars => ConnInv'
BY TypeKeeps, ListKeeps, LoopKeeps, FailKeeps, StreamKeeps, AnswersKeep
DEF ConnInv

LEMMA ConnCorrect == Spec => []ConnInv
BY ConnInit, ConnNext, PTL DEF Spec

(***************************************************************************)
(* Every variable keeps its type; unread in particular is never counted    *)
(* below 0: the handler runs for a read that returned something only.      *)
(***************************************************************************)
THEOREM ConnTypeSafe == Spec => []TypeOK
<1>1. ConnInv => TypeOK
    BY DEF ConnInv
<1> QED
    BY <1>1, ConnCorrect, PTL

(***************************************************************************)
(* mg_send, mbuf_append, mg_if_can_send_cb and mbuf_remove: of the bytes   *)
(* passed to mg_send for a connection, those taken by the socket and those *)
(* still in the buffer are all, each once and in order, wherever the sends *)
(* are cut, as long as no two threads were in the buffer at a time.        *)
(***************************************************************************)
THEOREM StreamSafe == Spec => []StreamIntact
<1>1. ConnInv => StreamIntact
    BY DEF ConnInv
<1> QED
    BY <1>1, ConnCorrect, PTL

(***************************************************************************)
(* mg_if_poll closes a connection on which no error was met, neither of    *)
(* the socket nor in what the client has sent, only once all that was      *)
(* passed to mg_send for it before the closing was taken by the socket: an *)
(* answer sent with MG_F_SEND_AND_CLOSE is complete, and nothing is sent   *)
(* after it.  What the handlers print at MG_EV_CLOSE is lost.              *)
(***************************************************************************)
THEOREM CloseSafe == Spec => []AnswersBeforeClose
<1>1. ConnInv => AnswersBeforeClose
    BY DEF ConnInv
<1> QED
    BY <1>1, ConnCorrect, PTL
=============================================================================
