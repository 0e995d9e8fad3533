---------------------------- MODULE UploadProofs ----------------------------
(* Proofs about UploadStream, for every number of connections, every form, *)
(* boundary and way of cutting the bytes into reads.                       *)
EXTENDS UploadStream, SequenceTheorems, WellFoundedInduction, TLAPS

(* Every string may stand for a byte; those the module names are listed    *)
(* because STRING is opaque to the provers.                                *)
Bytes == STRING \cup {"H", "CR", "LF", "-", "NUL"}

(***************************************************************************)
(* What clients send.                                                      *)
(***************************************************************************)
LEMMA FirstOf ==
    ASSUME NEW T, T \subseteq Nat, T # {}
    PROVE  \E m \in T : \A n \in T : m <= n
<1>1. PICK m \in T : \A n \in T : ~ (<<n, m>> \in OpToRel(<, Nat))
    BY WFMin, NatLessThanWellFounded
<1>2. ASSUME NEW n \in T
      PROVE  m <= n
    <2>1. ~ (<<n, m>> \in OpToRel(<, Nat))
        BY <1>1
    <2>2. <<n, m>> \in Nat \X Nat
        OBVIOUS
    <2>3. ~ (n < m)
        BY <2>1, <2>2 DEF OpToRel
    <2> QED
        BY <2>3
<1> QED
    BY <1>2

LEMMA ClientBytes ==
    /\ Boundary \in Seq(Bytes) /\ Len(Boundary) \in Nat \ {0}
    /\ CRLF \in Seq(Bytes) /\ Dashes \in Seq(Bytes)
    /\ PartHeader \in Seq(Bytes) /\ LastLine \in Seq(Bytes)
    /\ \A c \in Conns : \A f \in Forms[c] :
        /\ f \in Seq(Seq(Bytes)) /\ Len(f) \in Nat
        /\ \A k \in 1 .. Len(f) : f[k] \in Seq(Bytes)
<1>1. Boundary \in Seq(Bytes) /\ Len(Boundary) \in Nat \ {0}
    BY UploadAssumption, EmptySeq DEF Bytes
<1>2. CRLF \in Seq(Bytes) /\ Dashes \in Seq(Bytes) /\ <<"H">> \in Seq(Bytes)
    BY DEF CRLF, Dashes, Bytes
<1>3. PartHeader \in Seq(Bytes)
    BY <1>2, ConcatProperties DEF PartHeader
<1>4. LastLine \in Seq(Bytes)
    BY <1>1, <1>2, ConcatProperties DEF LastLine
<1>5. ASSUME NEW c \in Conns, NEW f \in Forms[c]
      PROVE  /\ f \in Seq(Seq(Bytes)) /\ Len(f) \in Nat
             /\ \A k \in 1 .. Len(f) : f[k] \in Seq(Bytes)
    <2>1. f \in Seq(Seq(STRING))
        BY UploadAssumption
    <2>2. Seq(STRING) \subseteq Seq(Bytes)
        BY SeqMonotonic DEF Bytes
    <2> QED
        BY <2>1, <2>2, SeqMonotonic, LenProperties, ElementOfSeq
<1> QED
    BY <1>1, <1>2, <1>3, <1>4, <1>5

LEMMA PartBytes ==
    ASSUME NEW p \in Seq(Bytes)
    PROVE  EncodePart(p) \in Seq(Bytes)
BY ClientBytes, ConcatProperties DEF EncodePart

(* EncodeFrom is defined from the end on: the numbers of parts it is       *)
(* defined for have no first one that is missing.                          *)
Encoding(f, g, k) ==
    /\ g \in [k .. Len(f) + 1 -> Seq(Bytes)]
    /\ \A i \in k .. Len(f) + 1 :
        g[i] = IF i > Len(f) THEN LastLine ELSE EncodePart(f[i]) \o g[i + 1]

LEMMA EncodingExists ==
    ASSUME NEW f \in Seq(Seq(Bytes)), NEW n \in 0 .. Len(f)
    PROVE  \E g : Encoding(f, g, Len(f) + 1 - n)
<1> DEFINE T == {m \in 0 .. Len(f) : ~ \E g : Encoding(f, g, Len(f) + 1 - m)}
<1>0. Len(f) \in Nat /\ \A i \in 1 .. Len(f) : f[i] \in Seq(Bytes)
    BY LenProperties, ElementOfSeq
<1> SUFFICES ASSUME T # {}
             PROVE  FALSE
    OBVIOUS
<1>1. PICK m \in T : \A i \in T : m <= i
    <2>1. T \subseteq Nat
        BY <1>0
    <2> HIDE DEF T
    <2> QED
        BY <2>1, FirstOf
<1>2. /\ m \in 0 .. Len(f)
      /\ ~ \E g : Encoding(f, g, Len(f) + 1 - m)
    OBVIOUS
<1>3. \A i \in 0 .. Len(f) : i < m => \E g : Encoding(f, g, Len(f) + 1 - i)
    <2> SUFFICES ASSUME NEW i \in 0 .. Len(f), i < m
                 PROVE  i \notin T
        OBVIOUS
    <2> HIDE DEF T
    <2> QED
        BY <1>0, <1>1, <1>2
<1> HIDE DEF T
<1>4. CASE m = 0
    <2> DEFINE g == [i \in Len(f) + 1 .. Len(f) + 1 |-> LastLine]
    <2>1. g \in [Len(f) + 1 .. Len(f) + 1 -> Seq(Bytes)]
        BY ClientBytes
    <2>2. \A i \in Len(f) + 1 .. Len(f) + 1 : i > Len(f) /\ g[i] = LastLine
        BY <1>0
    <2> HIDE DEF g
    <2>3. Encoding(f, g, Len(f) + 1)
        BY <2>1, <2>2 DEF Encoding
    <2>4. Len(f) + 1 - m = Len(f) + 1
        BY <1>0, <1>4
    <2> QED
        BY <1>2, <2>3, <2>4
<1>5. CASE m # 0
    <2>1. m - 1 \in 0 .. Len(f) /\ m - 1 < m
        BY <1>0, <1>2, <1>5
    <2>2. PICK k \in 1 .. Len(f) : k = Len(f) + 1 - m
        <3>1. Len(f) + 1 - m \in 1 .. Len(f)
            BY <1>0, <1>2, <1>5
        <3> QED
            BY <3>1
    <2>3. Len(f) + 1 - (m - 1) = k + 1
        BY <1>0, <1>2, <2>2
    <2>4. PICK h : Encoding(f, h, k + 1)
        BY <1>3, <2>1, <2>3
    <2> DEFINE g == [i \in k .. Len(f) + 1 |->
                        IF i = k THEN EncodePart(f[k]) \o h[k + 1] ELSE h[i]]
    <2>5. /\ k + 1 \in k + 1 .. Len(f) + 1 /\ ~ (k > Len(f))
          /\ \A i \in k .. Len(f) + 1 :
                i = k \/ (i \in k + 1 .. Len(f) + 1 /\ i # k)
          /\ \A i \in k + 1 .. Len(f) + 1 :
                i > Len(f) \/ i + 1 \in k + 1 .. Len(f) + 1
          /\ \A i \in k + 1 .. Len(f) + 1 : i \in k .. Len(f) + 1 /\ i # k
        BY <1>0
    <2>6. EncodePart(f[k]) \o h[k + 1] \in Seq(Bytes)
        BY <1>0, <2>4, <2>5, PartBytes, ConcatProperties DEF Encoding
    <2>7. g \in [k .. Len(f) + 1 -> Seq(Bytes)]
        BY <2>4, <2>5, <2>6 DEF Encoding
    <2>8. ASSUME NEW i \in k .. Len(f) + 1
          PROVE  g[i] = IF i > Len(f) THEN LastLine
                        ELSE EncodePart(f[i]) \o g[i + 1]
        <3>1. CASE i = k
            BY <2>5, <3>1
        <3>2. CASE i # k
            <4>1. i \in k + 1 .. Len(f) + 1 /\ g[i] = h[i]
                BY <2>5, <3>2
            <4>2. \/ i > Len(f)
                  \/ i + 1 \in k + 1 .. Len(f) + 1 /\ g[i + 1] = h[i + 1]
                BY <2>5, <4>1
            <4> QED
                BY <2>4, <4>1, <4>2 DEF Encoding
        <3> QED
            BY <3>1, <3>2
    <2>9. Encoding(f, g, k)
        BY <2>7, <2>8 DEF Encoding
    <2> QED
        BY <1>2, <2>2, <2>9
<1> QED
    BY <1>4, <1>5

LEMMA EncodeUnfolds ==
    ASSUME NEW f \in Seq(Seq(Bytes))
    PROVE  \A k \in 1 .. Len(f) + 1 :
            EncodeFrom(f)[k] = IF k > Len(f) THEN LastLine
                               ELSE EncodePart(f[k]) \o EncodeFrom(f)[k + 1]
<1>1. Len(f) \in Nat
    BY LenProperties
<1>2. PICK g : Encoding(f, g, 1)
    <2>1. Len(f) + 1 - Len(f) = 1 /\ Len(f) \in 0 .. Len(f)
        BY <1>1
    <2> QED
        BY <2>1, EncodingExists
<1>3. g = [k \in 1 .. Len(f) + 1 |->
            IF k > Len(f) THEN LastLine ELSE EncodePart(f[k]) \o g[k + 1]]
    BY <1>2 DEF Encoding
<1>4. EncodeFrom(f) = [k \in 1 .. Len(f) + 1 |->
            IF k > Len(f) THEN LastLine
            ELSE EncodePart(f[k]) \o EncodeFrom(f)[k + 1]]
    BY <1>3, Zenon DEF EncodeFrom
<1> QED
    BY <1>4

LEMMA EncodeBytes ==
    ASSUME NEW f \in Seq(Seq(Bytes)), NEW n \in 0 .. Len(f)
    PROVE  EncodeFrom(f)[Len(f) + 1 - n] \in Seq(Bytes)
<1> DEFINE T == {m \in 0 .. Len(f) :
                    EncodeFrom(f)[Len(f) + 1 - m] \notin Seq(Bytes)}
<1>0. Len(f) \in Nat /\ \A i \in 1 .. Len(f) : f[i] \in Seq(Bytes)
    BY LenProperties, ElementOfSeq
<1> SUFFICES ASSUME T # {}
             PROVE  FALSE
    OBVIOUS
<1>1. PICK m \in T : \A i \in T : m <= i
    <2>1. T \subseteq Nat
        BY <1>0
    <2> HIDE DEF T
    <2> QED
        BY <2>1, FirstOf
<1>2. m \in 0 .. Len(f) /\ EncodeFrom(f)[Len(f) + 1 - m] \notin Seq(Bytes)
    OBVIOUS
<1>3. \A i \in 0 .. Len(f) :
        i < m => EncodeFrom(f)[Len(f) + 1 - i] \in Seq(Bytes)
    <2> SUFFICES ASSUME NEW i \in 0 .. Len(f), i < m
                 PROVE  i \notin T
        OBVIOUS
    <2> HIDE DEF T
    <2> QED
        BY <1>0, <1>1, <1>2
<1> HIDE DEF T
<1>4. PICK k \in 1 .. Len(f) + 1 : k = Len(f) + 1 - m
    <2>1. Len(f) + 1 - m \in 1 .. Len(f) + 1
        BY <1>0, <1>2
    <2> QED
        BY <2>1
<1>5. CASE m = 0
    <2>1. k > Len(f)
        BY <1>0, <1>4, <1>5
    <2> QED
        BY <1>2, <1>4, <2>1, EncodeUnfolds, ClientBytes
<1>6. CASE m # 0
    <2>1. k \in 1 .. Len(f) /\ ~ (k > Len(f))
        BY <1>0, <1>2, <1>4, <1>6
    <2>2. EncodeFrom(f)[k + 1] \in Seq(Bytes)
        <3>1. m - 1 \in 0 .. Len(f) /\ m - 1 < m
            BY <1>0, <1>2, <1>6
        <3>2. Len(f) + 1 - (m - 1) = k + 1
            BY <1>0, <1>2, <1>4
        <3> QED
            BY <1>3, <3>1, <3>2
    <2>3. EncodeFrom(f)[k] = EncodePart(f[k]) \o EncodeFrom(f)[k + 1]
        BY <2>1, EncodeUnfolds
    <2>4. EncodePart(f[k]) \in Seq(Bytes)
        BY <1>0, <2>1, PartBytes
    <2> QED
        BY <1>2, <1>4, <2>2, <2>3, <2>4, ConcatProperties
<1> QED
    BY <1>5, <1>6

LEMMA BodyBytes ==
    ASSUME NEW f \in Seq(Seq(Bytes))
    PROVE  \A k \in 1 .. Len(f) + 1 : EncodeFrom(f)[k] \in Seq(Bytes)
<1> TAKE k \in 1 .. Len(f) + 1
<1>1. Len(f) + 1 - k \in 0 .. Len(f) /\ Len(f) + 1 - (Len(f) + 1 - k) = k
    BY LenProperties
<1> QED
    BY <1>1, EncodeBytes

(***************************************************************************)
(* The package file.                                                       *)
(***************************************************************************)
LEMMA OverwriteType ==
    ASSUME NEW f \in Seq(Bytes), NEW b \in Seq(Bytes), NEW pos \in Nat
    PROVE  Overwrite(f, pos, b) \in Seq(Bytes)
<1> DEFINE n == IF Len(f) > pos + Len(b) THEN Len(f) ELSE pos + Len(b)
<1>1. /\ Len(f) \in Nat /\ Len(b) \in Nat
      /\ \A i \in 1 .. Len(f) : f[i] \in Bytes
      /\ \A i \in 1 .. Len(b) : b[i] \in Bytes
      /\ "NUL" \in Bytes
    BY LenProperties, ElementOfSeq DEF Bytes
<1>2. n \in Nat
    BY <1>1
<1>3. \A i \in 1 .. n : i \in pos + 1 .. pos + Len(b) => i - pos \in 1 .. Len(b)
    BY <1>1
<1>4. \A i \in 1 .. n : i <= Len(f) => i \in 1 .. Len(f)
    BY <1>1
<1>5. Overwrite(f, pos, b)
        = [i \in 1 .. n |-> IF i \in pos + 1 .. pos + Len(b) THEN b[i - pos]
                            ELSE IF i <= Len(f) THEN f[i] ELSE "NUL"]
    BY DEF Overwrite
<1> HIDE DEF n
<1>6. Overwrite(f, pos, b) \in [1 .. n -> Bytes]
    BY <1>1, <1>3, <1>4, <1>5
<1> QED
    BY <1>2, <1>6, SeqDef

(* Written behind what is there, bytes are appended.                       *)
LEMMA OverwriteAtEnd ==
    ASSUME NEW f \in Seq(Bytes), NEW b \in Seq(Bytes)
    PROVE  Overwrite(f, Len(f), b) = f \o b
<1>1. Len(f) \in Nat /\ Len(b) \in Nat
    BY LenProperties
<1>2. /\ f \o b \in Seq(Bytes) /\ Len(f \o b) = Len(f) + Len(b)
      /\ \A i \in 1 .. Len(f) + Len(b) :
            (f \o b)[i] = IF i <= Len(f) THEN f[i] ELSE b[i - Len(f)]
    BY ConcatProperties
<1>3. Overwrite(f, Len(f), b) \in Seq(Bytes)
    BY <1>1, OverwriteType
<1>4. PICK m \in Nat : m = Len(f)
    BY <1>1
<1>5. PICK n \in Nat : n = Len(b)
    BY <1>1
<1>6. /\ (IF m > m + n THEN m ELSE m + n) = m + n
      /\ \A i \in 1 .. m + n : i \in m + 1 .. m + n <=> ~ (i <= m)
    OBVIOUS
<1>7. Overwrite(f, m, b) = [i \in 1 .. m + n |->
                                IF i <= m THEN f[i] ELSE b[i - m]]
    BY <1>4, <1>5, <1>6 DEF Overwrite
<1>8. Len(Overwrite(f, m, b)) = m + n
    BY <1>7
<1> DEFINE w == Overwrite(f, m, b)
           v == f \o b
<1>9. /\ w \in Seq(Bytes) /\ v \in Seq(Bytes)
      /\ Len(w) = m + n /\ Len(v) = m + n
      /\ \A i \in 1 .. m + n : w[i] = v[i]
    BY <1>2, <1>3, <1>4, <1>5, <1>7, <1>8
<1> HIDE DEF w, v
<1>10. w = v
    BY <1>9, SeqEqual
<1> QED
    BY <1>4, <1>10 DEF w, v

(***************************************************************************)
(* Types.                                                                  *)
(***************************************************************************)
FileRecord == [open : BOOLEAN, pos : Nat, buf : Seq(Bytes), short : BOOLEAN]

States == {"none", "MPS_BEGIN", "MPS_WAITING_FOR_BOUNDARY",
           "MPS_GOT_BOUNDARY", "between", "MPS_WAITING_FOR_CHUNK",
           "MPS_FINALIZE", "MPS_FINISHED", "closed"}

TypeInv ==
    /\ form \in [Conns -> Seq(Seq(Bytes))]
    /\ \A c \in Conns : form[c] \in Forms[c]
    /\ rest \in [Conns -> Seq(Bytes)]
    /\ io \in [Conns -> Seq(Bytes)]
    /\ state \in [Conns -> States]
    /\ part \in [Conns -> Nat]
    /\ fp \in [Conns -> FileRecord]
    /\ file \in Seq(Bytes)
    /\ data \in [Conns -> Seq(Bytes)]
    /\ alone \in [Conns -> BOOLEAN]
    /\ DOMAIN last = Conns

(***************************************************************************)
(* An upload that has the file for itself has written what was handed over *)
(* of the part, but for what its buffer holds.                             *)
(***************************************************************************)
FileInv ==
    \A c \in Conns : fp[c].open /\ alone[c] =>
        /\ \A d \in Conns \ {c} : ~fp[d].open
        /\ ~fp[c].short => /\ fp[c].pos = Len(file)
                           /\ file \o fp[c].buf = data[c]

LEMMA NoFileType == NoFile \in FileRecord /\ ~NoFile.open
<1>1. <<>> \in Seq(Bytes)
    BY EmptySeq
<1> QED
    BY <1>1 DEF NoFile, FileRecord

LEMMA DropBytes ==
    ASSUME NEW s \in Seq(Bytes), NEW n \in Nat
    PROVE  Drop(s, n) \in Seq(Bytes)
<1>1. Len(s) \in Nat /\ \A i \in n + 1 .. Len(s) : s[i] \in Bytes
    BY LenProperties, ElementOfSeq
<1> QED
    BY <1>1, SubSeqProperties DEF Drop

LEMMA TakeBytes ==
    ASSUME NEW s \in Seq(Bytes), NEW n \in Int, n <= Len(s)
    PROVE  SubSeq(s, 1, n) \in Seq(Bytes)
<1>1. Len(s) \in Nat /\ \A i \in 1 .. n : s[i] \in Bytes
    BY LenProperties, ElementOfSeq
<1> QED
    BY <1>1, SubSeqProperties

(* What the handler does keeps the file in order.                          *)
FileOk == /\ fp' \in [Conns -> FileRecord] /\ file' \in Seq(Bytes)
          /\ alone' \in [Conns -> BOOLEAN] /\ DOMAIN last' = Conns
          /\ FileInv' /\ AnnouncedFile'

LEMMA BeginKeepsFile ==
    ASSUME TypeInv, FileInv, AnnouncedFile, NEW c \in Conns,
           HandlePartBegin(c), data' = [data EXCEPT ![c] = <<>>]
    PROVE  FileOk
<1>1. <<>> \in Seq(Bytes) /\ Len(<<>>) = 0 /\ <<>> \o <<>> = <<>>
    BY EmptySeq, ConcatEmptySeq
<1>2. CASE /\ fp' = [fp EXCEPT ![c] = [NoFile EXCEPT !.open = TRUE]]
           /\ file' = <<>>
           /\ alone' = [d \in Conns |->
                            IF d = c THEN \A e \in Conns \ {c} : ~fp[e].open
                            ELSE alone[d] /\ ~fp[d].open]
           /\ UNCHANGED <<up, last, announced>>
    <2> DEFINE r == [NoFile EXCEPT !.open = TRUE]
    <2>1. /\ r \in FileRecord /\ r.open /\ r.pos = 0 /\ r.buf = <<>>
        BY <1>1 DEF NoFile, FileRecord
    <2> HIDE DEF r
    <2>2. /\ fp' \in [Conns -> FileRecord] /\ fp'[c] = r
          /\ \A d \in Conns \ {c} : fp'[d] = fp[d]
        BY <1>2, <2>1 DEF TypeInv, r
    <2>3. alone' \in [Conns -> BOOLEAN]
        BY <1>2 DEF TypeInv
    <2>4. ASSUME NEW d \in Conns, fp'[d].open, alone'[d]
          PROVE  d = c /\ \A e \in Conns \ {c} : ~fp'[e].open
        BY <1>2, <2>2, <2>4
    <2>5. data'[c] = <<>>
        BY DEF TypeInv
    <2>6. FileInv'
        BY <1>1, <1>2, <2>1, <2>2, <2>4, <2>5 DEF FileInv
    <2> QED
        BY <1>1, <1>2, <2>2, <2>3, <2>6 DEF FileOk, AnnouncedFile, TypeInv
<1>3. CASE /\ last' = [last EXCEPT ![c] = TRUE]
           /\ fp' = [fp EXCEPT ![c] = NoFile]
           /\ UNCHANGED <<up, file, alone, announced>>
    <2>1. /\ fp' \in [Conns -> FileRecord] /\ ~fp'[c].open
          /\ \A d \in Conns \ {c} : fp'[d] = fp[d] /\ data'[d] = data[d]
        BY <1>3, NoFileType DEF TypeInv
    <2>2. FileInv'
        BY <1>3, <2>1 DEF FileInv
    <2> QED
        BY <1>3, <2>1, <2>2 DEF FileOk, AnnouncedFile, TypeInv
<1> QED
    BY <1>2, <1>3 DEF HandlePartBegin

LEMMA DataKeepsFile ==
    ASSUME TypeInv, FileInv, AnnouncedFile, NEW c \in Conns,
           NEW d \in Seq(Bytes), HandlePartData(c, d),
           data' = [data EXCEPT ![c] = @ \o d]
    PROVE  FileOk
<1>1. /\ fp[c] \in FileRecord /\ fp[c].buf \in Seq(Bytes) /\ fp[c].pos \in Nat
      /\ file \in Seq(Bytes) /\ data[c] \in Seq(Bytes)
      /\ data'[c] = data[c] \o d
      /\ \A e \in Conns \ {c} : data'[e] = data[e]
    BY DEF TypeInv, FileRecord
<1>2. /\ fp[c].buf \o d \in Seq(Bytes)
      /\ (file \o fp[c].buf) \o d = file \o (fp[c].buf \o d)
    <2>1. PICK u \in Seq(Bytes) : u = fp[c].buf
        BY <1>1
    <2>2. PICK v \in Seq(Bytes) : v = file
        BY <1>1
    <2>3. u \o d \in Seq(Bytes)
        BY ConcatProperties, Zenon
    <2>4. (v \o u) \o d = v \o (u \o d)
        BY ConcatAssociative, SMT
    <2> QED
        BY <2>1, <2>2, <2>3, <2>4
<1>3. CASE ~fp[c].open /\ up' = FALSE /\ UNCHANGED fileVars
    <2>1. FileInv'
        BY <1>1, <1>3 DEF FileInv, fileVars
    <2> QED
        BY <1>3, <2>1 DEF FileOk, fileVars, AnnouncedFile, TypeInv
<1>4. CASE /\ fp[c].open
           /\ fp' = [fp EXCEPT ![c].buf = @ \o d]
           /\ UNCHANGED <<up, last, file, alone, announced>>
    <2>1. /\ fp' \in [Conns -> FileRecord]
          /\ \A e \in Conns \ {c} : fp'[e] = fp[e]
          /\ fp'[c].open /\ fp'[c].short = fp[c].short
          /\ fp'[c].pos = fp[c].pos /\ fp'[c].buf = fp[c].buf \o d
        BY <1>1, <1>2, <1>4 DEF TypeInv, FileRecord
    <2>2. \A e \in Conns : fp'[e].open = fp[e].open
        BY <1>4, <2>1, Zenon
    <2>3. ASSUME NEW e \in Conns, fp'[e].open, alone'[e]
          PROVE  /\ \A g \in Conns \ {e} : ~fp'[g].open
                 /\ ~fp'[e].short => /\ fp'[e].pos = Len(file')
                                     /\ file' \o fp'[e].buf = data'[e]
        <3>1. /\ fp[e].open /\ alone[e] /\ file' = file
              /\ \A g \in Conns \ {e} : ~fp[g].open
            BY <1>4, <2>2, <2>3, Zenon DEF FileInv
        <3>2. e = c
            BY <1>4, <3>1, Zenon
        <3>3. ~fp[c].short => fp[c].pos = Len(file) /\ file \o fp[c].buf = data[c]
            BY <3>1, <3>2, Zenon DEF FileInv
        <3>4. \A g \in Conns \ {e} : ~fp'[g].open
            BY <2>2, <3>1, Zenon
        <3> QED
            BY <1>1, <1>2, <2>1, <3>1, <3>2, <3>3, <3>4, Zenon
    <2>4. FileInv'
        BY <2>3, Zenon DEF FileInv
    <2> QED
        BY <1>4, <2>1, <2>4 DEF FileOk, AnnouncedFile, TypeInv
<1>5. CASE /\ fp[c].open
           /\ file' = Overwrite(file, fp[c].pos, fp[c].buf \o d)
           /\ fp' = [fp EXCEPT ![c].pos = @ + Len(fp[c].buf \o d),
                               ![c].buf = <<>>]
           /\ UNCHANGED <<up, last, alone, announced>>
    <2> DEFINE b == fp[c].buf \o d
    <2>0. Len(b) \in Nat /\ <<>> \in Seq(Bytes)
        BY <1>2, LenProperties, EmptySeq
    <2>1. PICK n \in Nat : n = Len(b)
        BY <2>0
    <2>2. file' \in Seq(Bytes)
        BY <1>1, <1>2, <1>5, OverwriteType
    <2> HIDE DEF b
    <2>3. /\ fp' \in [Conns -> FileRecord]
          /\ \A e \in Conns \ {c} : fp'[e] = fp[e]
          /\ fp'[c].open /\ fp'[c].short = fp[c].short
          /\ fp'[c].pos = fp[c].pos + n /\ fp'[c].buf = <<>>
        <3>1. fp' = [fp EXCEPT ![c].pos = @ + n, ![c].buf = <<>>]
            BY <1>5, <2>1 DEF b
        <3>0. PICK m \in Nat : m = fp[c].pos + n
            BY <1>1
        <3> DEFINE q == [fp[c] EXCEPT !.pos = m]
                   r == [q EXCEPT !.buf = <<>>]
        <3>2. /\ q \in FileRecord /\ q.open = fp[c].open
              /\ q.short = fp[c].short /\ q.pos = m
            BY <1>1 DEF FileRecord
        <3>3. fp' = [fp EXCEPT ![c] = r]
            BY <3>0, <3>1 DEF TypeInv
        <3> HIDE DEF q
        <3>4. /\ r \in FileRecord /\ r.open = q.open /\ r.short = q.short
              /\ r.pos = q.pos /\ r.buf = <<>>
            BY <2>0, <3>2 DEF FileRecord
        <3> HIDE DEF r
        <3>5. fp' \in [Conns -> FileRecord] /\ fp'[c] = r
              /\ \A e \in Conns \ {c} : fp'[e] = fp[e]
            BY <3>3, <3>4 DEF TypeInv
        <3> QED
            BY <1>5, <3>0, <3>2, <3>4, <3>5
    <2>4. ASSUME alone[c], ~fp[c].short
          PROVE  fp'[c].pos = Len(file') /\ file' \o <<>> = data'[c]
        <3>1. fp[c].pos = Len(file) /\ file \o fp[c].buf = data[c]
            BY <1>5, <2>4 DEF FileInv
        <3>2. file' = file \o b
            <4>1. file' = Overwrite(file, Len(file), b)
                BY <1>5, <3>1 DEF b
            <4>2. b \in Seq(Bytes)
                BY <1>2 DEF b
            <4> QED
                BY <1>1, <4>1, <4>2, OverwriteAtEnd
        <3>3. Len(file \o b) = Len(file) + n
            <4>1. b \in Seq(Bytes)
                BY <1>2 DEF b
            <4> QED
                BY <1>1, <2>1, <4>1, ConcatProperties
        <3>4. file' \o <<>> = file'
            BY <2>2, ConcatEmptySeq
        <3>5. file \o b = data'[c]
            BY <1>1, <1>2, <3>1 DEF b
        <3> QED
            BY <2>3, <3>1, <3>2, <3>3, <3>4, <3>5
    <2>5. FileInv'
        BY <1>1, <1>5, <2>3, <2>4 DEF FileInv
    <2> QED
        BY <1>5, <2>2, <2>3, <2>5 DEF FileOk, AnnouncedFile, TypeInv
<1>6. CASE /\ fp[c].open
           /\ last' = [last EXCEPT ![c] = TRUE]
           /\ fp' = [fp EXCEPT ![c].short = TRUE]
           /\ UNCHANGED <<up, file, alone, announced>>
    <2>1. /\ fp' \in [Conns -> FileRecord] /\ fp'[c].short
          /\ \A e \in Conns \ {c} : fp'[e] = fp[e]
          /\ fp'[c].open
        BY <1>1, <1>6 DEF TypeInv, FileRecord
    <2>2. FileInv'
        BY <1>1, <1>6, <2>1 DEF FileInv
    <2> QED
        BY <1>6, <2>1, <2>2 DEF FileOk, AnnouncedFile, TypeInv
<1> QED
    BY <1>3, <1>4, <1>5, <1>6 DEF HandlePartData

LEMMA EndKeepsFile ==
    ASSUME TypeInv, FileInv, AnnouncedFile, NEW c \in Conns,
           NEW whole \in BOOLEAN, HandlePartEnd(c, whole), UNCHANGED data
    PROVE  FileOk
<1>1. /\ fp[c] \in FileRecord /\ fp[c].buf \in Seq(Bytes) /\ fp[c].pos \in Nat
      /\ file \in Seq(Bytes)
    BY DEF TypeInv, FileRecord
<1>2. CASE ~fp[c].open
    <2>1. UNCHANGED fileVars
        BY <1>2 DEF HandlePartEnd
    <2>2. FileInv'
        BY <2>1 DEF FileInv, fileVars
    <2> QED
        BY <2>1, <2>2 DEF FileOk, fileVars, AnnouncedFile, TypeInv
<1>3. CASE fp[c].open
    <2>1. PICK flushed \in {TRUE, fp[c].buf = <<>>} :
          /\ file' = IF flushed THEN Overwrite(file, fp[c].pos, fp[c].buf)
                     ELSE file
          /\ announced' = [whole |-> whole /\ flushed /\ ~fp[c].short,
                            alone |-> alone[c], data |-> data[c],
                            file |-> file']
          /\ fp' = [fp EXCEPT ![c] = NoFile]
          /\ last' = [last EXCEPT ![c] = TRUE]
          /\ UNCHANGED alone
        BY <1>3, Zenon DEF HandlePartEnd
    <2>2. /\ fp' \in [Conns -> FileRecord] /\ ~fp'[c].open
          /\ \A d \in Conns \ {c} : fp'[d] = fp[d]
        BY <2>1, NoFileType DEF TypeInv
    <2>3. file' \in Seq(Bytes)
        BY <1>1, <2>1, OverwriteType
    <2>4. ASSUME NEW d \in Conns, fp'[d].open
          PROVE  ~alone[d]
        BY <1>3, <2>2, <2>4 DEF FileInv
    <2>5. FileInv'
        BY <2>1, <2>4 DEF FileInv
    <2>6. ASSUME alone[c], ~fp[c].short, flushed
          PROVE  file' = data[c]
        <3>1. fp[c].pos = Len(file) /\ file \o fp[c].buf = data[c]
            BY <1>3, <2>6 DEF FileInv
        <3>2. file' = Overwrite(file, fp[c].pos, fp[c].buf)
            BY <2>1, <2>6
        <3> QED
            BY <1>1, <3>1, <3>2, OverwriteAtEnd
    <2>7. AnnouncedFile'
        BY <2>1, <2>6 DEF AnnouncedFile
    <2> QED
        BY <2>1, <2>2, <2>3, <2>5, <2>7 DEF FileOk, TypeInv
<1> QED
    BY <1>2, <1>3

(***************************************************************************)
(* Searching.                                                              *)
(***************************************************************************)
LEMMA FindFirst ==
    ASSUME NEW s \in Seq(Bytes), NEW t
    PROVE  \/ Find(s, t) = 0 /\ \A i \in 1 .. Len(s) : ~At(s, i, t)
           \/ /\ Find(s, t) \in 1 .. Len(s) /\ At(s, Find(s, t), t)
              /\ \A i \in 1 .. Len(s) : At(s, i, t) => Find(s, t) <= i
<1> DEFINE found == {i \in 1 .. Len(s) : At(s, i, t)}
<1>1. Len(s) \in Nat /\ DOMAIN s = 1 .. Len(s)
    BY LenProperties
<1>2. Find(s, t) = IF found = {} THEN 0
                   ELSE CHOOSE i \in found : \A k \in found : i <= k
    BY <1>1 DEF Find
<1>3. CASE found = {}
    BY <1>2, <1>3
<1>4. CASE found # {}
    <2>1. found \subseteq Nat
        BY <1>1
    <2>2. \E i \in found : \A k \in found : i <= k
        <3> HIDE DEF found
        <3> QED
            BY <1>4, <2>1, FirstOf
    <2>3. Find(s, t) \in found /\ \A k \in found : Find(s, t) <= k
        <3> HIDE DEF found
        <3> QED
            BY <1>2, <1>4, <2>2
    <2> QED
        BY <2>3
<1> QED
    BY <1>3, <1>4

(* An empty line starts at position i of what follows position b.          *)
IsEmptyLine(s, b, i) == At(s, i, CRLF) /\ (i = b \/ s[i - 1] = "LF")

LEMMA EmptyLineFirst ==
    ASSUME NEW s \in Seq(Bytes), NEW b \in Nat \ {0}
    PROVE  \/ /\ EmptyLine(s, b) = 0
              /\ \A i \in b .. Len(s) : ~IsEmptyLine(s, b, i)
           \/ /\ EmptyLine(s, b) \in b .. Len(s)
              /\ IsEmptyLine(s, b, EmptyLine(s, b))
              /\ \A i \in b .. Len(s) :
                    IsEmptyLine(s, b, i) => EmptyLine(s, b) <= i
<1> DEFINE found == {i \in b .. Len(s) : IsEmptyLine(s, b, i)}
<1>1. Len(s) \in Nat
    BY LenProperties
<1>2. EmptyLine(s, b) = IF found = {} THEN 0
                        ELSE CHOOSE i \in found : \A k \in found : i <= k
    BY DEF EmptyLine, IsEmptyLine
<1>3. CASE found = {}
    BY <1>2, <1>3
<1>4. CASE found # {}
    <2>1. found \subseteq Nat
        BY <1>1
    <2>2. \E i \in found : \A k \in found : i <= k
        <3> HIDE DEF found
        <3> QED
            BY <1>4, <2>1, FirstOf
    <2>3. EmptyLine(s, b) \in found
          /\ \A k \in found : EmptyLine(s, b) <= k
        <3> HIDE DEF found
        <3> QED
            BY <1>2, <1>4, <2>2
    <2> QED
        BY <2>3
<1> QED
    BY <1>3, <1>4

(***************************************************************************)
(* The parser keeps the types, and the file in order.                      *)
(***************************************************************************)
UploadInv == TypeInv /\ FileInv /\ AnnouncedFile

SameFile == UNCHANGED fileVars /\ UNCHANGED data

LEMMA SameFileOk ==
    ASSUME UploadInv, SameFile
    PROVE  FileOk
<1>1. FileInv'
    BY DEF UploadInv, SameFile, fileVars, FileInv
<1> QED
    BY <1>1
    DEF UploadInv, SameFile, fileVars, FileOk, AnnouncedFile, TypeInv

(* The rest of the types.                                                  *)
Parsed ==
    /\ UNCHANGED form
    /\ rest' \in [Conns -> Seq(Bytes)]
    /\ io' \in [Conns -> Seq(Bytes)]
    /\ state' \in [Conns -> States]
    /\ part' \in [Conns -> Nat]
    /\ data' \in [Conns -> Seq(Bytes)]

LEMMA StepOk ==
    ASSUME UploadInv, Parsed, FileOk
    PROVE  UploadInv'
<1>1. TypeInv'
    BY DEF UploadInv, Parsed, FileOk, TypeInv
<1> QED
    BY <1>1 DEF UploadInv, FileOk

LEMMA ReadType ==
    ASSUME TypeInv, NEW c \in Conns, NEW n \in Nat, Reading(c, n)
    PROVE  /\ io' \in [Conns -> Seq(Bytes)]
           /\ rest' \in [Conns -> Seq(Bytes)]
<1> DEFINE k == IF n < Len(rest[c]) THEN n ELSE Len(rest[c])
<1>1. rest[c] \in Seq(Bytes) /\ io[c] \in Seq(Bytes) /\ Len(rest[c]) \in Nat
    BY LenProperties DEF TypeInv
<1>2. k \in Nat /\ k <= Len(rest[c])
    BY <1>1
<1>3. /\ io' = [io EXCEPT ![c] = @ \o SubSeq(rest[c], 1, k)]
      /\ rest' = [rest EXCEPT ![c] = Drop(@, k)]
    BY DEF Reading
<1> HIDE DEF k
<1>4. SubSeq(rest[c], 1, k) \in Seq(Bytes) /\ Drop(rest[c], k) \in Seq(Bytes)
    <2>1. SubSeq(rest[c], 1, k) \in Seq(Bytes)
        BY <1>1, <1>2, TakeBytes
    <2>2. Drop(rest[c], k) \in Seq(Bytes)
        BY <1>1, <1>2, DropBytes
    <2> QED
        BY <2>1, <2>2
<1>5. io[c] \o SubSeq(rest[c], 1, k) \in Seq(Bytes)
    BY <1>1, <1>4, ConcatProperties
<1> QED
    BY <1>3, <1>4, <1>5 DEF TypeInv

LEMMA DropType ==
    ASSUME TypeInv, NEW c \in Conns, NEW n \in Nat,
           io' = [io EXCEPT ![c] = Drop(@, n)]
    PROVE  io' \in [Conns -> Seq(Bytes)]
<1>1. Drop(io[c], n) \in Seq(Bytes)
    BY DropBytes DEF TypeInv
<1> QED
    BY <1>1 DEF TypeInv

LEMMA RequestOk ==
    ASSUME UploadInv, NEW c \in Conns, NEW n \in Nat, Request(c, n)
    PROVE  UploadInv'
<1>1. SameFile /\ FileOk
    BY SameFileOk DEF Request, SameFile
<1>2. Parsed
    BY ReadType DEF UploadInv, Request, Parsed, TypeInv, States
<1> QED
    BY <1>1, <1>2, StepOk

LEMMA RecvOk ==
    ASSUME UploadInv, NEW c \in Conns, NEW n \in Nat, Recv(c, n)
    PROVE  UploadInv'
<1>1. SameFile /\ FileOk
    BY SameFileOk DEF Recv, SameFile
<1>2. Parsed
    BY ReadType DEF UploadInv, Recv, Parsed, TypeInv
<1> QED
    BY <1>1, <1>2, StepOk

LEMMA AfterType ==
    ASSUME TypeInv, NEW c \in Conns
    PROVE  Find(io[c], Boundary) \in Nat /\ After(c) \in Nat \ {0}
<1>1. io[c] \in Seq(Bytes) /\ Len(io[c]) \in Nat
    BY LenProperties DEF TypeInv
<1>2. Find(io[c], Boundary) \in Nat
    BY <1>1, FindFirst
<1> QED
    BY <1>2, ClientBytes DEF After

LEMMA ContinueOk ==
    ASSUME UploadInv, NEW c \in Conns, Continue(c)
    PROVE  UploadInv'
<1>0. /\ TypeInv /\ UNCHANGED <<form, rest>>
      /\ io[c] \in Seq(Bytes) /\ Len(io[c]) \in Nat
    BY LenProperties
    DEF UploadInv, TypeInv, Continue, Begin, WaitForBoundary,
        ProcessBoundary, BeginPart, WaitForChunk, Finalize, Runs
<1>1. CASE Begin(c)
    <2>1. SameFile /\ FileOk
        BY <1>1, SameFileOk DEF Begin, SameFile
    <2>2. Parsed
        BY <1>0, <1>1 DEF Begin, Loop, Parsed, TypeInv, States
    <2> QED
        BY <2>1, <2>2, StepOk
<1>2. CASE WaitForBoundary(c)
    <2>1. SameFile /\ FileOk
        BY <1>2, SameFileOk DEF WaitForBoundary, SameFile
    <2>2. io' \in [Conns -> Seq(Bytes)]
        <3>1. After(c) + 3 \in Nat
            BY <1>0, AfterType
        <3>2. \/ UNCHANGED io
              \/ io' = [io EXCEPT ![c] = Drop(@, After(c) + 3)]
            BY <1>2 DEF WaitForBoundary
        <3> QED
            BY <1>0, <3>1, <3>2, DropType DEF TypeInv
    <2>3. Parsed
        BY <1>0, <1>2, <2>2
        DEF WaitForBoundary, Loop, Return, Parsed, TypeInv, States
    <2> QED
        BY <2>1, <2>3, StepOk
<1>3. CASE ProcessBoundary(c)
    <2> DEFINE l == EmptyLine(io[c], After(c) + 2)
    <2>1. l \in Nat
        <3>1. After(c) + 2 \in Nat \ {0}
            BY <1>0, AfterType
        <3> QED
            BY <1>0, <3>1, EmptyLineFirst
    <2>2. \/ /\ UNCHANGED <<io, fileVars>>
             /\ Return(c, "MPS_WAITING_FOR_BOUNDARY")
          \/ /\ io' = [io EXCEPT ![c] = Drop(@, l + 1)]
             /\ UNCHANGED fileVars \/ HandlePartEnd(c, TRUE)
             /\ Loop(c, "between")
        BY <1>3 DEF ProcessBoundary
    <2>3. UNCHANGED <<part, data>>
        BY <1>3 DEF ProcessBoundary
    <2> HIDE DEF l
    <2>4. io' \in [Conns -> Seq(Bytes)]
        <3>1. l + 1 \in Nat
            BY <2>1
        <3> QED
            BY <1>0, <2>2, <3>1, DropType DEF TypeInv
    <2>5. Parsed
        BY <1>0, <2>2, <2>3, <2>4
        DEF Loop, Return, Parsed, TypeInv, States
    <2>6. FileOk
        <3>1. CASE UNCHANGED fileVars
            BY <2>3, <3>1, SameFileOk DEF SameFile
        <3>2. CASE HandlePartEnd(c, TRUE)
            BY <2>3, <3>2, EndKeepsFile DEF UploadInv
        <3> QED
            BY <2>2, <3>1, <3>2
    <2> QED
        BY <2>5, <2>6, StepOk
<1>4. CASE BeginPart(c)
    <2>1. FileOk
        BY <1>4, BeginKeepsFile DEF BeginPart, UploadInv
    <2>2. Parsed
        BY <1>0, <1>4, EmptySeq DEF BeginPart, Loop, Parsed, TypeInv, States
    <2> QED
        BY <2>1, <2>2, StepOk
<1>5. CASE WaitForChunk(c)
    <2> DEFINE b == Find(io[c], Boundary)
    <2>1. b \in 0 .. Len(io[c]) /\ Held \in Nat
        <3>1. b \in 0 .. Len(io[c])
            BY <1>0, FindFirst
        <3>2. PICK m \in Nat : m = Len(Boundary)
            BY ClientBytes
        <3>3. Held \in Nat
            BY <3>2 DEF Held
        <3> QED
            BY <3>1, <3>3
    <2>2. \/ UNCHANGED <<io, fileVars, data>>
          \/ /\ Len(io[c]) > Held
             /\ Deliver(c, Len(io[c]) - Held)
             /\ io' = [io EXCEPT ![c] = Drop(@, Len(@) - Held)]
          \/ /\ b # 0
             /\ Deliver(c, b - 5)
             /\ io' = [io EXCEPT ![c] = Drop(@, b - 1)]
        BY <1>5 DEF WaitForChunk
    <2>3. /\ UNCHANGED part
          /\ \/ Return(c, "MPS_WAITING_FOR_CHUNK")
             \/ Loop(c, "MPS_WAITING_FOR_BOUNDARY")
        BY <1>5 DEF WaitForChunk
    <2> HIDE DEF b
    <2>4. ASSUME NEW n \in Int, n <= Len(io[c]), Deliver(c, n)
          PROVE  FileOk /\ data' \in [Conns -> Seq(Bytes)]
        <3>1. PICK d \in Seq(Bytes) : d = SubSeq(io[c], 1, n)
            BY <1>0, <2>4, TakeBytes
        <3>2. HandlePartData(c, d) /\ data' = [data EXCEPT ![c] = @ \o d]
            BY <2>4, <3>1 DEF Deliver
        <3>3. data[c] \o d \in Seq(Bytes)
            BY <1>0, ConcatProperties DEF TypeInv
        <3> QED
            BY <3>2, <3>3, DataKeepsFile DEF UploadInv, TypeInv
    <2>5. FileOk /\ data' \in [Conns -> Seq(Bytes)]
        <3>1. CASE UNCHANGED <<io, fileVars, data>>
            BY <1>0, <3>1, SameFileOk DEF SameFile, TypeInv
        <3>2. Len(io[c]) - Held \in Int /\ Len(io[c]) - Held <= Len(io[c])
            BY <1>0, <2>1
        <3>3. b - 5 \in Int /\ b - 5 <= Len(io[c])
            BY <1>0, <2>1
        <3> QED
            BY <2>2, <2>4, <3>1, <3>2, <3>3
    <2>6. io' \in [Conns -> Seq(Bytes)]
        <3>1. CASE /\ Len(io[c]) > Held
                   /\ io' = [io EXCEPT ![c] = Drop(@, Len(@) - Held)]
            <4>0. Len(io[c]) - Held \in Nat
                BY <1>0, <2>1, <3>1
            <4>1. PICK n \in Nat : n = Len(io[c]) - Held
                BY <4>0
            <4>2. io' = [io EXCEPT ![c] = Drop(@, n)]
                BY <1>0, <3>1, <4>1
            <4> QED
                BY <1>0, <4>2, DropType
        <3>2. CASE b # 0 /\ io' = [io EXCEPT ![c] = Drop(@, b - 1)]
            <4>1. b - 1 \in Nat
                BY <1>0, <2>1, <3>2
            <4> QED
                BY <1>0, <3>2, <4>1, DropType
        <3> QED
            BY <1>0, <2>2, <3>1, <3>2 DEF TypeInv
    <2>7. Parsed
        BY <1>0, <2>3, <2>5, <2>6 DEF Return, Loop, Parsed, TypeInv, States
    <2> QED
        BY <2>5, <2>7, StepOk
<1>6. CASE Finalize(c)
    <2>1. FileOk
        BY <1>6, EndKeepsFile DEF Finalize, UploadInv
    <2>2. Parsed
        BY <1>0, <1>6 DEF Finalize, Return, Parsed, TypeInv, States
    <2> QED
        BY <2>1, <2>2, StepOk
<1> QED
    BY <1>1, <1>2, <1>3, <1>4, <1>5, <1>6 DEF Continue

LEMMA CloseOk ==
    ASSUME UploadInv, NEW c \in Conns, Close(c)
    PROVE  UploadInv'
<1>1. FileOk
    <2>1. CASE UNCHANGED fileVars
        BY <2>1, SameFileOk DEF Close, SameFile
    <2>2. CASE HandlePartEnd(c, FALSE)
        BY <2>2, EndKeepsFile DEF Close, UploadInv
    <2> QED
        BY <2>1, <2>2 DEF Close
<1>2. Parsed
    BY EmptySeq DEF Close, UploadInv, Parsed, TypeInv, States
<1> QED
    BY <1>1, <1>2, StepOk

LEMMA UploadInit == Init => UploadInv
<1> SUFFICES ASSUME Init
             PROVE  UploadInv
    OBVIOUS
<1>1. /\ form \in [Conns -> Seq(Seq(Bytes))]
      /\ \A c \in Conns : form[c] \in Forms[c]
    BY ClientBytes DEF Init
<1>2. \A c \in Conns : Encode(form[c]) \in Seq(Bytes)
    <2> TAKE c \in Conns
    <2>1. form[c] \in Seq(Seq(Bytes)) /\ Len(form[c]) \in Nat
        BY <1>1, LenProperties
    <2>2. 1 \in 1 .. Len(form[c]) + 1
        BY <2>1
    <2> QED
        BY <2>1, <2>2, BodyBytes DEF Encode
<1>3. <<>> \in Seq(Bytes)
    BY EmptySeq
<1>4. TypeInv
    BY <1>1, <1>2, <1>3, NoFileType DEF Init, TypeInv, States
<1>5. FileInv
    BY NoFileType DEF Init, FileInv
<1> QED
    BY <1>4, <1>5 DEF UploadInv, Init, AnnouncedFile, NotYet

LEMMA UploadNext ==
    ASSUME UploadInv, [Next]_vars
    PROVE  UploadInv'
<1>1. ASSUME NEW c \in Conns, NEW n \in ReadSizes[c] \cup {0}
      PROVE  n \in Nat
    BY UploadAssumption
<1>2. CASE UNCHANGED vars
    <2>1. Parsed
        BY <1>2 DEF vars, streamVars, UploadInv, Parsed, TypeInv
    <2> QED
        BY <1>2, <2>1, SameFileOk, StepOk DEF vars, SameFile
<1> QED
    BY <1>1, <1>2, RequestOk, RecvOk, ContinueOk, CloseOk DEF Next

LEMMA UploadCorrect == Spec => []UploadInv
BY UploadInit, UploadNext, PTL DEF Spec

(***************************************************************************)
(* When the end of a part is announced to the core, the package file holds *)
(* the bytes handed over of the part, whatever uploads came before, were   *)
(* cut or failed, provided nobody else wrote at the same time.             *)
(***************************************************************************)
THEOREM AnnouncedSafe == Spec => []AnnouncedFile
<1>1. UploadInv => AnnouncedFile
    BY DEF UploadInv
<1> QED
    BY <1>1, UploadCorrect, PTL

(***************************************************************************)
(* Sequences of bytes.                                                     *)
(***************************************************************************)
Regroup(s, t, u) == (s \o t) \o u = s \o (t \o u)

LEMMA Assoc ==
    ASSUME NEW s \in Seq(Bytes), NEW t \in Seq(Bytes), NEW u \in Seq(Bytes)
    PROVE  Regroup(s, t, u)
BY ConcatAssociative, SMT DEF Regroup

Joined(s, t, m, n) ==
    /\ s \o t \in Seq(Bytes) /\ Len(s \o t) = m + n
    /\ \A i \in 1 .. m : (s \o t)[i] = s[i]
    /\ \A i \in 1 .. n : (s \o t)[m + i] = t[i]

LEMMA ConcatIs ==
    ASSUME NEW s \in Seq(Bytes), NEW t \in Seq(Bytes),
           NEW m \in Nat, NEW n \in Nat, Len(s) = m, Len(t) = n
    PROVE  Joined(s, t, m, n)
<1>1. /\ s \o t \in Seq(Bytes) /\ Len(s \o t) = m + n
      /\ \A i \in 1 .. m + n :
            (s \o t)[i] = IF i <= m THEN s[i] ELSE t[i - m]
    BY ConcatProperties
<1>2. \A i \in 1 .. m : i \in 1 .. m + n /\ i <= m
    OBVIOUS
<1>3. \A i \in 1 .. n :
        m + i \in 1 .. m + n /\ ~ (m + i <= m) /\ (m + i) - m = i
    OBVIOUS
<1> QED
    BY <1>1, <1>2, <1>3 DEF Joined

LEMMA DropIs ==
    ASSUME NEW s \in Seq(Bytes), NEW n \in Nat, n <= Len(s)
    PROVE  /\ Len(Drop(s, n)) = Len(s) - n
           /\ \A i \in 1 .. Len(s) - n : Drop(s, n)[i] = s[n + i]
<1>1. Len(s) \in Nat /\ \A i \in n + 1 .. Len(s) : s[i] \in Bytes
    BY LenProperties, ElementOfSeq
<1>2. PICK m \in Nat : m = Len(s)
    BY <1>1
<1>3. /\ Len(SubSeq(s, n + 1, m)) = IF n + 1 <= m THEN m - (n + 1) + 1 ELSE 0
      /\ \A i \in 1 .. m - (n + 1) + 1 :
            SubSeq(s, n + 1, m)[i] = s[n + 1 + i - 1]
    BY <1>1, <1>2, SubSeqProperties
<1>4. \A i \in Int : n + 1 + i - 1 = n + i
    OBVIOUS
<1>5. m - (n + 1) + 1 = m - n /\ (~ (n + 1 <= m) => m - n = 0)
    BY <1>2
<1> QED
    BY <1>2, <1>3, <1>4, <1>5 DEF Drop

LEMMA TakeIs ==
    ASSUME NEW s \in Seq(Bytes), NEW n \in Nat, n <= Len(s)
    PROVE  /\ Len(SubSeq(s, 1, n)) = n
           /\ \A i \in 1 .. n : SubSeq(s, 1, n)[i] = s[i]
<1>1. Len(s) \in Nat /\ \A i \in 1 .. n : s[i] \in Bytes
    BY LenProperties, ElementOfSeq
<1>2. /\ Len(SubSeq(s, 1, n)) = IF 1 <= n THEN n - 1 + 1 ELSE 0
      /\ \A i \in 1 .. n - 1 + 1 : SubSeq(s, 1, n)[i] = s[1 + i - 1]
    BY <1>1, SubSeqProperties
<1>3. \A i \in Int : 1 + i - 1 = i
    OBVIOUS
<1> QED
    BY <1>2, <1>3

(* Cut in two at any place, a sequence is what it was.                     *)
LEMMA TakeAndDrop ==
    ASSUME NEW s \in Seq(Bytes), NEW n \in Nat, n <= Len(s)
    PROVE  SubSeq(s, 1, n) \o Drop(s, n) = s
<1>1. PICK m \in Nat : m = Len(s)
    BY LenProperties
<1>2. PICK u \in Seq(Bytes) : u = SubSeq(s, 1, n)
    <2>1. SubSeq(s, 1, n) \in Seq(Bytes)
        BY TakeBytes
    <2> QED
        BY <2>1
<1>3. PICK v \in Seq(Bytes) : v = Drop(s, n)
    BY DropBytes
<1>4. Len(u) = n /\ Len(v) = m - n
    BY <1>1, <1>2, <1>3, TakeIs, DropIs
<1>5. /\ \A i \in 1 .. n : u[i] = s[i]
      /\ \A i \in 1 .. m - n : v[i] = s[n + i]
    BY <1>1, <1>2, <1>3, TakeIs, DropIs
<1>6. /\ u \o v \in Seq(Bytes) /\ Len(u \o v) = m
      /\ \A i \in 1 .. m : (u \o v)[i] = IF i <= n THEN u[i] ELSE v[i - n]
    BY <1>1, <1>4, ConcatProperties
<1>7. \A i \in 1 .. m : (u \o v)[i] = s[i]
    <2> TAKE i \in 1 .. m
    <2>1. CASE i <= n
        BY <1>5, <1>6, <2>1
    <2>2. CASE ~ (i <= n)
        <3>1. i - n \in 1 .. m - n /\ n + (i - n) = i
            BY <1>1, <2>2
        <3> QED
            BY <1>5, <1>6, <2>2, <3>1
    <2> QED
        BY <2>1, <2>2
<1> DEFINE w == u \o v
<1>8. w \in Seq(Bytes) /\ Len(w) = m /\ \A i \in 1 .. m : w[i] = s[i]
    BY <1>6, <1>7
<1> HIDE DEF w
<1>9. w = s
    BY <1>1, <1>8, SeqEqual
<1> QED
    BY <1>2, <1>3, <1>9 DEF w

(* Where two cuts of the same bytes agree, and what is behind the first.   *)
LEMMA CutAgain ==
    ASSUME NEW s \in Seq(Bytes), NEW t \in Seq(Bytes),
           NEW u \in Seq(Bytes), NEW v \in Seq(Bytes),
           s \o t = u \o v, Len(u) <= Len(s)
    PROVE  SubSeq(s, 1, Len(u)) = u /\ Drop(s, Len(u)) \o t = v
<1>1. PICK m \in Nat : m = Len(s)
    BY LenProperties
<1>2. PICK n \in Nat : n = Len(u)
    BY LenProperties
<1>3. n <= m
    BY <1>1, <1>2
<1>4. PICK a \in Seq(Bytes) : a = SubSeq(s, 1, n)
    <2>1. SubSeq(s, 1, n) \in Seq(Bytes)
        BY <1>1, <1>3, TakeBytes
    <2> QED
        BY <2>1
<1>5. PICK b \in Seq(Bytes) : b = Drop(s, n)
    BY DropBytes
<1>6. /\ Len(a) = n
      /\ \A i \in 1 .. n : a[i] = s[i]
    BY <1>1, <1>3, <1>4, TakeIs
<1>7. \A i \in 1 .. n : s[i] = u[i]
    <2>1. \A i \in 1 .. m + Len(t) :
            (s \o t)[i] = IF i <= m THEN s[i] ELSE t[i - m]
        BY <1>1, ConcatProperties
    <2>2. \A i \in 1 .. n + Len(v) :
            (u \o v)[i] = IF i <= n THEN u[i] ELSE v[i - n]
        BY <1>2, ConcatProperties
    <2>3. Len(t) \in Nat /\ Len(v) \in Nat
        BY LenProperties
    <2> TAKE i \in 1 .. n
    <2>4. i \in 1 .. m + Len(t) /\ i <= m /\ i \in 1 .. n + Len(v) /\ i <= n
        BY <1>3, <2>3
    <2>5. (s \o t)[i] = s[i] /\ (u \o v)[i] = u[i]
        BY <2>1, <2>2, <2>4, Zenon
    <2> QED
        BY <2>5, Zenon
<1>8. a = u
    BY <1>2, <1>6, <1>7, SeqEqual
<1>9. a \o b = s
    BY <1>1, <1>3, <1>4, <1>5, TakeAndDrop
<1>10. b \o t \in Seq(Bytes)
    BY ConcatProperties
<1>11. u \o (b \o t) = u \o v
    <2>1. Regroup(a, b, t)
        BY Assoc
    <2> QED
        BY <1>8, <1>9, <2>1, Zenon DEF Regroup
<1>12. b \o t = v
    BY <1>10, <1>11, ConcatSimplifications, Zenon
<1> QED
    BY <1>2, <1>4, <1>5, <1>8, <1>12

(* The bytes behind the first ones, as far as they are there.              *)
LEMMA BytesBehind ==
    ASSUME NEW s \in Seq(Bytes), NEW t \in Seq(Bytes),
           NEW u \in Seq(Bytes), NEW v \in Seq(Bytes),
           s \o t = u \o v
    PROVE  /\ \A i \in 1 .. Len(u) : i <= Len(s) => s[i] = u[i]
           /\ \A i \in 1 .. Len(v) : Len(u) + i <= Len(s) => s[Len(u) + i] = v[i]
           /\ Len(s) <= Len(u) + Len(v)
<1>1. PICK m \in Nat : m = Len(s)
    BY LenProperties
<1>2. PICK n \in Nat : n = Len(u)
    BY LenProperties
<1>3. PICK k \in Nat : k = Len(t)
    BY LenProperties
<1>4. PICK l \in Nat : l = Len(v)
    BY LenProperties
<1>5. /\ Len(s \o t) = m + k
      /\ \A i \in 1 .. m + k : (s \o t)[i] = IF i <= m THEN s[i] ELSE t[i - m]
    BY <1>1, <1>3, ConcatProperties
<1>6. /\ Len(u \o v) = n + l
      /\ \A i \in 1 .. n + l : (u \o v)[i] = IF i <= n THEN u[i] ELSE v[i - n]
    BY <1>2, <1>4, ConcatProperties
<1>7. m + k = n + l
    BY <1>5, <1>6
<1>8. \A i \in 1 .. n : i <= m => s[i] = u[i]
    <2> TAKE i \in 1 .. n
    <2> SUFFICES ASSUME i <= m
                 PROVE  s[i] = u[i]
        OBVIOUS
    <2>1. i \in 1 .. m + k /\ i \in 1 .. n + l /\ i <= n
        OBVIOUS
    <2>2. (s \o t)[i] = s[i] /\ (u \o v)[i] = u[i]
        BY <1>5, <1>6, <2>1, Zenon
    <2> QED
        BY <2>2, Zenon
<1>9. \A i \in 1 .. l : n + i <= m => s[n + i] = v[i]
    <2> TAKE i \in 1 .. l
    <2> SUFFICES ASSUME n + i <= m
                 PROVE  s[n + i] = v[i]
        OBVIOUS
    <2>1. n + i \in 1 .. m + k /\ n + i \in 1 .. n + l /\ ~ (n + i <= n)
          /\ (n + i) - n = i
        BY <1>7
    <2> QED
        BY <1>5, <1>6, <2>1
<1> QED
    BY <1>1, <1>2, <1>4, <1>7, <1>8, <1>9

LEMMA AtIs ==
    ASSUME NEW s \in Seq(Bytes), NEW t \in Seq(Bytes), NEW i \in Nat \ {0}
    PROVE  At(s, i, t) <=> /\ i + Len(t) - 1 <= Len(s)
                           /\ \A j \in 1 .. Len(t) : s[i + j - 1] = t[j]
<1>1. PICK m \in Nat : m = Len(s)
    BY LenProperties
<1>2. PICK n \in Nat : n = Len(t)
    BY LenProperties
<1>3. SUFFICES ASSUME i + n - 1 <= m
               PROVE  SubSeq(s, i, i + n - 1) = t
                        <=> \A j \in 1 .. n : s[i + j - 1] = t[j]
    BY <1>1, <1>2 DEF At
<1>4. \A j \in i .. i + n - 1 : s[j] \in Bytes
    <2> TAKE j \in i .. i + n - 1
    <2>1. j \in 1 .. Len(s)
        BY <1>1, <1>3
    <2> QED
        BY <2>1, ElementOfSeq
<1>5. /\ SubSeq(s, i, i + n - 1) \in Seq(Bytes)
      /\ Len(SubSeq(s, i, i + n - 1))
            = IF i <= i + n - 1 THEN (i + n - 1) - i + 1 ELSE 0
      /\ \A j \in 1 .. (i + n - 1) - i + 1 :
            SubSeq(s, i, i + n - 1)[j] = s[i + j - 1]
    <2>1. i \in Int /\ i + n - 1 \in Int
        BY <1>2
    <2> QED
        BY <1>4, <2>1, SubSeqProperties
<1>6. /\ (i + n - 1) - i + 1 = n
      /\ ~ (i <= i + n - 1) => n = 0
    BY <1>2
<1>7. PICK a \in Seq(Bytes) : a = SubSeq(s, i, i + n - 1)
    BY <1>5
<1>8. Len(a) = n /\ \A j \in 1 .. n : a[j] = s[i + j - 1]
    BY <1>5, <1>6, <1>7
<1>9. a = t <=> \A j \in 1 .. n : a[j] = t[j]
    <2>1. (\A j \in 1 .. n : a[j] = t[j]) => a = t
        BY <1>2, <1>8, SeqEqual
    <2> QED
        BY <2>1
<1> QED
    BY <1>7, <1>8, <1>9

(***************************************************************************)
(* Where the parser finds the next boundary.                               *)
(***************************************************************************)
LEMMA FoundNext ==
    ASSUME NEW s \in Seq(Bytes), NEW t \in Seq(Bytes),
           NEW x \in Seq(Bytes), NEW y \in Seq(Bytes),
           s \o t = x \o (Boundary \o y),
           \A i \in 1 .. Len(x) : ~At(x \o Boundary, i, Boundary)
    PROVE  Find(s, Boundary) = IF Len(x) + Len(Boundary) <= Len(s)
                               THEN Len(x) + 1 ELSE 0
<1>1. PICK m \in Nat : m = Len(x)
    BY LenProperties
<1>2. Boundary \in Seq(Bytes) /\ Len(Boundary) \in Nat \ {0}
    BY ClientBytes
<1>3. PICK n \in Nat \ {0} : n = Len(Boundary)
    BY <1>2
<1>4. PICK l \in Nat : l = Len(s)
    BY LenProperties
<1>5. PICK w \in Seq(Bytes) : w = x \o Boundary
    <2>1. x \o Boundary \in Seq(Bytes)
        BY <1>2, ConcatProperties
    <2> QED
        BY <2>1
<1>6. /\ Len(w) = m + n
      /\ \A j \in 1 .. n : w[m + j] = Boundary[j]
    <2>1. /\ Len(x \o Boundary) = m + n
          /\ \A i \in 1 .. m + n : (x \o Boundary)[i] =
                IF i <= m THEN x[i] ELSE Boundary[i - m]
        BY <1>1, <1>2, <1>3, ConcatProperties
    <2>2. ASSUME NEW j \in 1 .. n
          PROVE  w[m + j] = Boundary[j]
        <3>1. m + j \in 1 .. m + n /\ ~ (m + j <= m) /\ (m + j) - m = j
            OBVIOUS
        <3> QED
            BY <1>5, <2>1, <3>1
    <2> QED
        BY <1>5, <2>1, <2>2
<1>7. \A i \in 1 .. m + n : i <= l => s[i] = w[i]
    <2>1. s \o t = w \o y
        <3>1. Regroup(x, Boundary, y)
            BY <1>2, Assoc
        <3> QED
            BY <1>5, <3>1, Zenon DEF Regroup
    <2> QED
        BY <1>4, <1>6, <2>1, BytesBehind
<1>8. ASSUME NEW i \in 1 .. m
      PROVE  ~At(s, i, Boundary)
    <2> SUFFICES ASSUME At(s, i, Boundary)
                 PROVE  FALSE
        OBVIOUS
    <2>1. i + n - 1 <= l /\ \A j \in 1 .. n : s[i + j - 1] = Boundary[j]
        <3>1. i \in Nat \ {0}
            OBVIOUS
        <3>2. /\ i + Len(Boundary) - 1 <= Len(s)
              /\ \A j \in 1 .. Len(Boundary) : s[i + j - 1] = Boundary[j]
            BY <1>2, <3>1, AtIs, ZenonT(40)
        <3>3. Len(Boundary) = n /\ Len(s) = l
            BY <1>3, <1>4
        <3> QED
            BY <3>2, <3>3, Zenon
    <2>2. ASSUME NEW j \in 1 .. n
          PROVE  w[i + j - 1] = Boundary[j]
        <3>1. i + j - 1 \in 1 .. m + n /\ i + j - 1 <= l
            BY <2>1
        <3> QED
            BY <1>7, <2>1, <3>1
    <2>3. i + n - 1 <= m + n
        OBVIOUS
    <2>4. At(w, i, Boundary)
        <3>1. i \in Nat \ {0}
            OBVIOUS
        <3>2. /\ i + Len(Boundary) - 1 <= Len(w)
              /\ \A j \in 1 .. Len(Boundary) : w[i + j - 1] = Boundary[j]
            BY <1>3, <1>6, <2>2, <2>3
        <3> QED
            BY <1>2, <3>1, <3>2, AtIs, Zenon
    <2> QED
        BY <1>1, <1>5, <2>4
<1>9. CASE m + n <= l
    <2>1. ASSUME NEW j \in 1 .. n
          PROVE  s[m + 1 + j - 1] = Boundary[j]
        <3>1. m + 1 + j - 1 = m + j /\ m + j \in 1 .. m + n /\ m + j <= l
            BY <1>9
        <3> QED
            BY <1>6, <1>7, <3>1
    <2>2. m + 1 + n - 1 <= l /\ m + 1 \in Nat \ {0} /\ m + 1 \in 1 .. l
        BY <1>9
    <2>3. At(s, m + 1, Boundary)
        BY <1>2, <1>3, <1>4, <2>1, <2>2, AtIs
    <2>4. Find(s, Boundary) \in 1 .. l /\ At(s, Find(s, Boundary), Boundary)
          /\ Find(s, Boundary) <= m + 1
        BY <1>4, <2>2, <2>3, FindFirst
    <2>5. Find(s, Boundary) = m + 1
        BY <1>8, <2>4
    <2> QED
        BY <1>1, <1>3, <1>4, <1>9, <2>5
<1>10. CASE ~ (m + n <= l)
    <2>1. ASSUME NEW i \in 1 .. l
          PROVE  ~At(s, i, Boundary)
        <3>1. At(s, i, Boundary) => i + n - 1 <= l
            BY <1>2, <1>3, <1>4, AtIs
        <3>2. i + n - 1 <= l => i \in 1 .. m
            BY <1>10
        <3> QED
            BY <1>8, <3>1, <3>2
    <2>2. Find(s, Boundary) = 0
        BY <1>4, <2>1, FindFirst
    <2> QED
        BY <1>1, <1>3, <1>4, <1>10, <2>2
<1> QED
    BY <1>9, <1>10

LEMMA AtBehind ==
    ASSUME NEW u \in Seq(Bytes), NEW s \in Seq(Bytes), NEW t \in Seq(Bytes),
           NEW i \in Nat \ {0}, At(s, i, t)
    PROVE  At(u \o s, Len(u) + i, t)
<1>1. PICK m \in Nat : m = Len(u)
    BY LenProperties
<1>2. PICK l \in Nat : l = Len(s)
    BY LenProperties
<1>3. PICK n \in Nat : n = Len(t)
    BY LenProperties
<1>4. i + n - 1 <= l /\ \A j \in 1 .. n : s[i + j - 1] = t[j]
    BY <1>2, <1>3, AtIs
<1>5. PICK w \in Seq(Bytes) : w = u \o s
    <2>1. u \o s \in Seq(Bytes)
        BY ConcatProperties
    <2> QED
        BY <2>1
<1>6. Len(w) = m + l /\ \A j \in 1 .. l : w[m + j] = s[j]
    <2>1. /\ Len(u \o s) = m + l
          /\ \A j \in 1 .. m + l :
                (u \o s)[j] = IF j <= m THEN u[j] ELSE s[j - m]
        BY <1>1, <1>2, ConcatProperties
    <2>2. ASSUME NEW j \in 1 .. l
          PROVE  w[m + j] = s[j]
        <3>1. m + j \in 1 .. m + l /\ ~ (m + j <= m) /\ (m + j) - m = j
            OBVIOUS
        <3> QED
            BY <1>5, <2>1, <3>1
    <2> QED
        BY <1>5, <2>1, <2>2
<1>7. ASSUME NEW j \in 1 .. n
      PROVE  w[m + i + j - 1] = t[j]
    <2>1. m + i + j - 1 = m + (i + j - 1) /\ i + j - 1 \in 1 .. l
        BY <1>4
    <2> QED
        BY <1>4, <1>6, <2>1
<1>8. m + i + n - 1 <= m + l /\ m + i \in Nat \ {0}
    BY <1>4
<1>9. At(w, m + i, t)
    BY <1>3, <1>6, <1>7, <1>8, AtIs
<1> QED
    BY <1>1, <1>5, <1>9

(* No boundary is found in what is left of a part, nor across its end.     *)
LEMMA NoneInPart ==
    ASSUME NEW c \in Conns, NEW f \in Forms[c], NEW k \in 1 .. Len(f),
           NEW d \in Seq(Bytes), NEW q \in Seq(Bytes)
    PROVE  Delimits /\ f[k] = d \o q =>
            LET x == q \o (CRLF \o Dashes)
            IN  /\ Len(x) = Len(q) + 4
                /\ \A i \in 1 .. Len(x) : ~At(x \o Boundary, i, Boundary)
<1>0. SUFFICES ASSUME Delimits, f[k] = d \o q
               PROVE  LET x == q \o (CRLF \o Dashes)
                      IN  /\ Len(x) = Len(q) + 4
                          /\ \A i \in 1 .. Len(x) :
                                ~At(x \o Boundary, i, Boundary)
    OBVIOUS
<1>1. /\ Boundary \in Seq(Bytes) /\ CRLF \in Seq(Bytes) /\ Dashes \in Seq(Bytes)
    BY ClientBytes
<1>2. CRLF \o Dashes \in Seq(Bytes) /\ Len(CRLF \o Dashes) = 4
    <2>1. Len(CRLF) = 2 /\ Len(Dashes) = 2
        BY DEF CRLF, Dashes
    <2>2. /\ CRLF \o Dashes \in Seq(Bytes)
          /\ Len(CRLF \o Dashes) = Len(CRLF) + Len(Dashes)
        BY <1>1, ConcatProperties, Zenon
    <2> QED
        BY <2>1, <2>2
<1>3. PICK e \in Seq(Bytes) : e = CRLF \o Dashes
    BY <1>2
<1>4. PICK x \in Seq(Bytes) : x = q \o e
    <2>1. q \o e \in Seq(Bytes)
        BY ConcatProperties
    <2> QED
        BY <2>1
<1>5. PICK w \in Seq(Bytes) : w = x \o Boundary
    <2>1. x \o Boundary \in Seq(Bytes)
        BY <1>1, ConcatProperties
    <2> QED
        BY <2>1
<1>6. PICK m \in Nat : m = Len(d)
    BY LenProperties
<1>7. PICK n \in Nat : n = Len(q)
    BY LenProperties
<1>8. Len(x) = n + 4
    <2>1. Len(q \o e) = n + Len(e)
        BY <1>7, ConcatProperties
    <2> QED
        BY <1>2, <1>3, <1>4, <2>1
<1>9. Len(f[k]) = m + n
    BY <1>0, <1>6, <1>7, ConcatProperties
<1>10. f[k] \o CRLF \o Dashes \o Boundary = d \o w
    <2>1. d \o q \in Seq(Bytes)
        BY ConcatProperties
    <2>2. Regroup(d \o q, CRLF, Dashes)
        BY <1>1, <2>1, Assoc
    <2>3. Regroup(d, q, e)
        BY Assoc
    <2>4. Regroup(d, x, Boundary)
        BY <1>1, Assoc
    <2> QED
        BY <1>0, <1>3, <1>4, <1>5, <2>2, <2>3, <2>4, Zenon DEF Regroup
<1>11. ASSUME NEW i \in 1 .. n + 4
       PROVE  ~At(w, i, Boundary)
    <2>0. m + i \in 1 .. (m + n) + 4
        BY SMTT(30)
    <2>1. m + i \in 1 .. Len(f[k]) + 4
        BY <1>9, <2>0, Zenon
    <2>3. i \in Nat \ {0}
        OBVIOUS
    <2>2. ~At(d \o w, m + i, Boundary)
        BY <1>0, <1>10, <2>1 DEF Delimits
    <2> QED
        BY <1>1, <1>6, <2>2, <2>3, AtBehind
<1> QED
    BY <1>3, <1>4, <1>5, <1>7, <1>8, <1>11

(* Before the first part, and behind the end of each, it comes at once.    *)
LEMMA NoneBefore ==
    ASSUME Delimits, NEW d \in {<<>>, Dashes}
    PROVE  /\ d \in Seq(Bytes) /\ Len(d) \in {0, 2}
           /\ \A i \in 1 .. Len(d) : ~At(d \o Boundary, i, Boundary)
<1>1. <<>> \in Seq(Bytes) /\ Dashes \in Seq(Bytes)
    BY EmptySeq, ClientBytes
<1>2. CASE d = <<>>
    BY <1>1, <1>2
<1>3. CASE d = Dashes
    <2>1. Len(Dashes) = 2
        BY DEF Dashes
    <2> QED
        BY <1>1, <1>3, <2>1, Zenon DEF Delimits
<1> QED
    BY <1>2, <1>3

(***************************************************************************)
(* The parser keeps its place in the form.                                 *)
(***************************************************************************)

(* What a client sends behind the boundary that ends its k-th part.        *)
Beyond(f, k) ==
    IF k = Len(f) THEN Dashes \o CRLF
    ELSE CRLF \o (PartHeader \o (f[k + 1] \o (CRLF \o EncodeFrom(f)[k + 2])))

LEMMA EncodeUpTo ==
    ASSUME NEW f \in Seq(Seq(Bytes)), NEW k \in 0 .. Len(f)
    PROVE  /\ Beyond(f, k) \in Seq(Bytes)
           /\ EncodeFrom(f)[k + 1] = Dashes \o (Boundary \o Beyond(f, k))
<1>1. /\ Boundary \in Seq(Bytes) /\ CRLF \in Seq(Bytes) /\ Dashes \in Seq(Bytes)
      /\ PartHeader \in Seq(Bytes) /\ LastLine \in Seq(Bytes)
    BY ClientBytes
<1>2. Dashes \o Boundary \in Seq(Bytes)
    BY <1>1, ConcatProperties
<1>3. k + 1 \in 1 .. Len(f) + 1 /\ Len(f) \in Nat
    BY LenProperties
<1>4. CASE k = Len(f)
    <2>1. EncodeFrom(f)[k + 1] = LastLine /\ Beyond(f, k) = Dashes \o CRLF
        BY <1>3, <1>4, EncodeUnfolds DEF Beyond
    <2>2. Dashes \o CRLF \in Seq(Bytes)
        BY <1>1, ConcatProperties
    <2>3. Regroup(Dashes \o Boundary, Dashes, CRLF)
        BY <1>1, <1>2, Assoc
    <2>4. Regroup(Dashes, Boundary, Dashes \o CRLF)
        BY <1>1, <2>2, Assoc
    <2> QED
        BY <2>1, <2>2, <2>3, <2>4, Zenon DEF Regroup, LastLine
<1>5. CASE k # Len(f)
    <2>1. /\ k + 1 \in 1 .. Len(f) /\ ~ (k + 1 > Len(f))
          /\ k + 2 \in 1 .. Len(f) + 1
          /\ k + 1 + 1 = k + 2
        BY <1>3, <1>5
    <2>2. /\ EncodeFrom(f)[k + 1] = EncodePart(f[k + 1]) \o EncodeFrom(f)[k + 2]
          /\ EncodeFrom(f)[k + 2] \in Seq(Bytes) /\ f[k + 1] \in Seq(Bytes)
        BY <1>3, <2>1, EncodeUnfolds, BodyBytes, ElementOfSeq
    <2>3. PICK p \in Seq(Bytes) : p = f[k + 1]
        BY <2>2
    <2>4. PICK v \in Seq(Bytes) : v = EncodeFrom(f)[k + 2]
        BY <2>2
    <2>5. /\ CRLF \o v \in Seq(Bytes)
          /\ p \o (CRLF \o v) \in Seq(Bytes)
          /\ PartHeader \o (p \o (CRLF \o v)) \in Seq(Bytes)
          /\ CRLF \o (PartHeader \o (p \o (CRLF \o v))) \in Seq(Bytes)
        BY <1>1, ConcatProperties
    <2>6. /\ Dashes \o Boundary \o CRLF \in Seq(Bytes)
          /\ Dashes \o Boundary \o CRLF \o PartHeader \in Seq(Bytes)
          /\ Dashes \o Boundary \o CRLF \o PartHeader \o p \in Seq(Bytes)
        BY <1>1, <1>2, ConcatProperties
    <2>7. Regroup(Dashes \o Boundary \o CRLF \o PartHeader \o p, CRLF, v)
        BY <1>1, <2>6, Assoc
    <2>8. Regroup(Dashes \o Boundary \o CRLF \o PartHeader, p, CRLF \o v)
        BY <2>5, <2>6, Assoc
    <2>9. Regroup(Dashes \o Boundary \o CRLF, PartHeader, p \o (CRLF \o v))
        BY <1>1, <2>5, <2>6, Assoc
    <2>10. Regroup(Dashes \o Boundary, CRLF,
                   PartHeader \o (p \o (CRLF \o v)))
        BY <1>1, <1>2, <2>5, Assoc
    <2>11. Regroup(Dashes, Boundary,
                   CRLF \o (PartHeader \o (p \o (CRLF \o v))))
        BY <1>1, <2>5, Assoc
    <2>12. EncodePart(p) \o v
            = Dashes \o (Boundary \o (CRLF \o (PartHeader \o (p \o (CRLF \o v)))))
        BY <2>7, <2>8, <2>9, <2>10, <2>11, Zenon DEF Regroup, EncodePart
    <2>13. Beyond(f, k) = CRLF \o (PartHeader \o (p \o (CRLF \o v)))
        BY <1>5, <2>3, <2>4, Zenon DEF Beyond
    <2> QED
        BY <2>2, <2>3, <2>4, <2>5, <2>12, <2>13, Zenon
<1> QED
    BY <1>4, <1>5

LEMMA HeaderBytes ==
    /\ Len(PartHeader) = 5
    /\ PartHeader[1] = "H" /\ PartHeader[2] = "CR" /\ PartHeader[3] = "LF"
    /\ PartHeader[4] = "CR" /\ PartHeader[5] = "LF"
<1> DEFINE h == <<"H">>
           g == h \o CRLF
<1>1. /\ h \in Seq(Bytes) /\ Len(h) = 1 /\ h[1] = "H"
      /\ CRLF \in Seq(Bytes) /\ Len(CRLF) = 2
      /\ CRLF[1] = "CR" /\ CRLF[2] = "LF"
    BY DEF CRLF, Bytes
<1> HIDE DEF h
<1>2. Joined(h, CRLF, 1, 2)
    BY <1>1, ConcatIs
<1>3. /\ g \in Seq(Bytes) /\ Len(g) = 3
      /\ g[1] = "H" /\ g[2] = "CR" /\ g[3] = "LF"
    <2>1. g \in Seq(Bytes) /\ Len(g) = 1 + 2 /\ g[1] = h[1]
          /\ g[1 + 1] = CRLF[1] /\ g[1 + 2] = CRLF[2]
        BY <1>2 DEF Joined
    <2> HIDE DEF g
    <2> QED
        BY <1>1, <2>1
<1> HIDE DEF g
<1>4. Joined(g, CRLF, 3, 2)
    BY <1>1, <1>3, ConcatIs
<1>5. PartHeader = g \o CRLF
    BY DEF PartHeader, g, h
<1>6. /\ Len(PartHeader) = 3 + 2
      /\ PartHeader[1] = g[1] /\ PartHeader[2] = g[2] /\ PartHeader[3] = g[3]
      /\ PartHeader[3 + 1] = CRLF[1] /\ PartHeader[3 + 2] = CRLF[2]
    <2>1. Joined(g, CRLF, 3, 2) /\ PartHeader = g \o CRLF
        BY <1>4, <1>5
    <2>2. 1 \in 1 .. 3 /\ 2 \in 1 .. 3 /\ 3 \in 1 .. 3
          /\ 1 \in 1 .. 2 /\ 2 \in 1 .. 2
        OBVIOUS
    <2>3. Len(PartHeader) = 3 + 2
        BY <2>1 DEF Joined
    <2>4. PartHeader[1] = g[1] /\ PartHeader[2] = g[2] /\ PartHeader[3] = g[3]
        BY <2>1, <2>2 DEF Joined
    <2>5. PartHeader[3 + 1] = CRLF[1] /\ PartHeader[3 + 2] = CRLF[2]
        BY <2>1, <2>2 DEF Joined
    <2> QED
        BY <2>3, <2>4, <2>5
<1> QED
    BY <1>1, <1>3, <1>6

(* Behind the last boundary are dashes, behind the others a header line    *)
(* and an empty line.                                                      *)
LEMMA BeyondBytes ==
    ASSUME NEW f \in Seq(Seq(Bytes)), NEW k \in 0 .. Len(f)
    PROVE  IF k = Len(f)
           THEN Beyond(f, k) = Dashes \o CRLF
           ELSE \E v \in Seq(Bytes), h \in Seq(Bytes) :
                    /\ v = f[k + 1] \o (CRLF \o EncodeFrom(f)[k + 2])
                    /\ Beyond(f, k) = h \o v /\ Len(h) = 7
                    /\ h[1] = "CR" /\ h[2] = "LF" /\ h[3] = "H"
                    /\ h[4] = "CR" /\ h[5] = "LF"
                    /\ h[6] = "CR" /\ h[7] = "LF"
<1>1. CASE k = Len(f)
    BY <1>1 DEF Beyond
<1>2. CASE k # Len(f)
    <2>1. CRLF \in Seq(Bytes) /\ PartHeader \in Seq(Bytes)
        BY ClientBytes
    <2>2. /\ EncodeFrom(f)[k + 2] \in Seq(Bytes) /\ f[k + 1] \in Seq(Bytes)
        <3>1. k + 1 \in 1 .. Len(f) /\ k + 2 \in 1 .. Len(f) + 1
            BY <1>2, LenProperties
        <3> QED
            BY <3>1, BodyBytes, ElementOfSeq
    <2>3. PICK v \in Seq(Bytes) : v = f[k + 1] \o (CRLF \o EncodeFrom(f)[k + 2])
        <3>1. CRLF \o EncodeFrom(f)[k + 2] \in Seq(Bytes)
            BY <2>1, <2>2, ConcatProperties
        <3>2. f[k + 1] \o (CRLF \o EncodeFrom(f)[k + 2]) \in Seq(Bytes)
            BY <2>2, <3>1, ConcatProperties
        <3> QED
            BY <3>2
    <2>4. PICK h \in Seq(Bytes) : h = CRLF \o PartHeader
        <3>1. CRLF \o PartHeader \in Seq(Bytes)
            BY <2>1, ConcatProperties
        <3> QED
            BY <3>1
    <2>5. Beyond(f, k) = h \o v
        <3>1. Regroup(CRLF, PartHeader, v)
            BY <2>1, Assoc
        <3> QED
            BY <1>2, <2>3, <2>4, <3>1, Zenon DEF Regroup, Beyond
    <2>6. Len(CRLF) = 2 /\ CRLF[1] = "CR" /\ CRLF[2] = "LF"
        BY DEF CRLF
    <2>7. Joined(CRLF, PartHeader, 2, 5)
        BY <2>1, <2>6, HeaderBytes, ConcatIs
    <2>8. /\ h[1] = "CR" /\ h[2] = "LF" /\ h[3] = "H" /\ h[4] = "CR"
          /\ h[5] = "LF" /\ h[6] = "CR" /\ h[7] = "LF" /\ Len(h) = 7
        <3>0. /\ Len(h) = 2 + 5
              /\ \A i \in 1 .. 2 : h[i] = CRLF[i]
              /\ \A i \in 1 .. 5 : h[2 + i] = PartHeader[i]
            BY <2>4, <2>7, Zenon DEF Joined
        <3>1. /\ Len(h) = 2 + 5
              /\ h[1] = CRLF[1] /\ h[2] = CRLF[2]
              /\ h[2 + 1] = PartHeader[1] /\ h[2 + 2] = PartHeader[2]
              /\ h[2 + 3] = PartHeader[3] /\ h[2 + 4] = PartHeader[4]
              /\ h[2 + 5] = PartHeader[5]
            BY <3>0
        <3> QED
            BY <2>6, <3>1, HeaderBytes
    <2> QED
        BY <1>2, <2>3, <2>5, <2>8
<1> QED
    BY <1>1, <1>2

LEMMA AtLineEnd ==
    ASSUME NEW s \in Seq(Bytes), NEW i \in Nat \ {0}
    PROVE  At(s, i, CRLF) <=> /\ i + 1 <= Len(s)
                              /\ s[i] = "CR" /\ s[i + 1] = "LF"
<1>1. CRLF \in Seq(Bytes)
    BY ClientBytes
<1>2. PICK n \in Nat : n = 2
    OBVIOUS
<1>3. Len(CRLF) = n /\ CRLF[1] = "CR" /\ CRLF[2] = "LF"
    BY <1>2 DEF CRLF
<1>4. At(s, i, CRLF) <=> /\ i + Len(CRLF) - 1 <= Len(s)
                         /\ \A j \in 1 .. Len(CRLF) : s[i + j - 1] = CRLF[j]
    BY <1>1, AtIs
<1>5. At(s, i, CRLF) <=> /\ i + n - 1 <= Len(s)
                         /\ \A j \in 1 .. n : s[i + j - 1] = CRLF[j]
    BY <1>3, <1>4
<1>6. i + n - 1 = i + 1 /\ i + 1 - 1 = i /\ i + 2 - 1 = i + 1
    BY <1>2
<1>7. (\A j \in 1 .. n : s[i + j - 1] = CRLF[j])
        <=> s[i + 1 - 1] = CRLF[1] /\ s[i + 2 - 1] = CRLF[2]
    <2> DEFINE Same(j) == s[i + j - 1] = CRLF[j]
    <2>1. 1 .. n = {1, 2}
        BY <1>2
    <2> HIDE DEF Same
    <2>2. (\A j \in 1 .. n : Same(j)) <=> Same(1) /\ Same(2)
        BY <2>1, Zenon
    <2> QED
        BY <2>2, Zenon DEF Same
<1> QED
    BY <1>3, <1>5, <1>6, <1>7

(* The header of a part is one line, and then comes an empty one.          *)
LEMMA HeaderEnds ==
    ASSUME NEW s \in Seq(Bytes), NEW b \in Nat \ {0},
           b <= Len(s) => s[b] = "H",
           b + 1 <= Len(s) => s[b + 1] = "CR",
           b + 2 <= Len(s) => s[b + 2] = "LF",
           b + 3 <= Len(s) => s[b + 3] = "CR",
           b + 4 <= Len(s) => s[b + 4] = "LF"
    PROVE  EmptyLine(s, b) = IF b + 4 <= Len(s) THEN b + 3 ELSE 0
<1>1. PICK l \in Nat : l = Len(s)
    BY LenProperties
<1>2. ASSUME NEW i \in b .. l, IsEmptyLine(s, b, i)
      PROVE  b + 3 <= i /\ i + 1 <= l
    <2>1. i + 1 <= l /\ s[i] = "CR" /\ (i = b \/ s[i - 1] = "LF")
        <3>1. i \in Nat \ {0}
            OBVIOUS
        <3> QED
            BY <1>1, <1>2, <3>1, AtLineEnd DEF IsEmptyLine
    <2>2. i # b
        BY <1>1, <2>1
    <2>3. i # b + 1
        <3> SUFFICES ASSUME i = b + 1
                     PROVE  FALSE
            OBVIOUS
        <3>1. i - 1 = b /\ s[b] = "H"
            BY <1>1, <2>1
        <3> QED
            BY <2>1, <2>2, <3>1
    <2>4. i # b + 2
        BY <1>1, <2>1
    <2> QED
        BY <2>1, <2>2, <2>3, <2>4
<1>3. CASE b + 4 <= l
    <2>1. b + 3 \in b .. l /\ b + 3 \in Nat \ {0} /\ b + 3 + 1 = b + 4
          /\ b + 3 - 1 = b + 2 /\ b + 3 <= l /\ b + 2 <= l
        BY <1>3
    <2>2. s[b + 3] = "CR" /\ s[b + 4] = "LF" /\ s[b + 2] = "LF"
        BY <1>1, <1>3, <2>1
    <2>3. IsEmptyLine(s, b, b + 3)
        BY <1>1, <1>3, <2>1, <2>2, AtLineEnd DEF IsEmptyLine
    <2>4. EmptyLine(s, b) \in b .. l /\ IsEmptyLine(s, b, EmptyLine(s, b))
          /\ EmptyLine(s, b) <= b + 3
        BY <1>1, <2>1, <2>3, EmptyLineFirst
    <2>5. b + 3 <= EmptyLine(s, b)
        BY <1>2, <2>4
    <2>6. EmptyLine(s, b) = b + 3
        BY <2>4, <2>5
    <2> QED
        BY <1>1, <1>3, <2>6
<1>4. CASE ~ (b + 4 <= l)
    <2>1. \A i \in b .. l : ~IsEmptyLine(s, b, i)
        BY <1>2, <1>4
    <2>2. EmptyLine(s, b) = 0
        BY <1>1, <2>1, EmptyLineFirst
    <2> QED
        BY <1>1, <1>4, <2>2
<1> QED
    BY <1>3, <1>4

Found(s, d, y, m) ==
    /\ Find(s, Boundary) = IF m <= Len(s) THEN Len(d) + 1 ELSE 0
    /\ \A i \in 1 .. Len(y) : m + i <= Len(s) => s[m + i] = y[i]
    /\ Len(s) <= m + Len(y)

(* A buffer before whose first byte, or after two dashes, a boundary comes. *)
LEMMA BoundaryAhead ==
    ASSUME Delimits, NEW d \in {<<>>, Dashes}, NEW y \in Seq(Bytes),
           NEW s \in Seq(Bytes), NEW t \in Seq(Bytes),
           s \o t = d \o (Boundary \o y), NEW m \in Nat,
           m = Len(d) + Len(Boundary)
    PROVE  Found(s, d, y, m)
<1>1. /\ d \in Seq(Bytes)
      /\ \A i \in 1 .. Len(d) : ~At(d \o Boundary, i, Boundary)
    BY NoneBefore
<1>2. Find(s, Boundary) = IF Len(d) + Len(Boundary) <= Len(s)
                          THEN Len(d) + 1 ELSE 0
    BY <1>1, FoundNext
<1>3. PICK u \in Seq(Bytes) : u = d \o Boundary /\ Len(u) = m
    <2>1. d \o Boundary \in Seq(Bytes) /\ Len(d \o Boundary) = m
        BY <1>1, ClientBytes, ConcatProperties
    <2> QED
        BY <2>1
<1>4. s \o t = u \o y
    <2>1. Regroup(d, Boundary, y)
        BY <1>1, ClientBytes, Assoc
    <2> QED
        BY <1>3, <2>1, Zenon DEF Regroup
<1>5. /\ \A i \in 1 .. Len(y) : Len(u) + i <= Len(s) => s[Len(u) + i] = y[i]
      /\ Len(s) <= Len(u) + Len(y)
    BY <1>4, BytesBehind
<1> QED
    BY <1>2, <1>3, <1>5 DEF Found

LEMMA LastBoundary ==
    ASSUME NEW s \in Seq(Bytes), NEW m \in Nat, m + 4 <= Len(s)
    PROVE  At(s, m + 1, Dashes \o CRLF) <=>
            \A i \in 1 .. 4 : s[m + i] = (Dashes \o CRLF)[i]
<1>1. Dashes \in Seq(Bytes) /\ CRLF \in Seq(Bytes)
    BY ClientBytes
<1>2. Len(Dashes) = 2 /\ Len(CRLF) = 2
    BY DEF Dashes, CRLF
<1>3. PICK n \in Nat : n = 4
    OBVIOUS
<1>4. PICK e \in Seq(Bytes) : e = Dashes \o CRLF /\ Len(e) = n
    <2>1. Joined(Dashes, CRLF, 2, 2)
        BY <1>1, <1>2, ConcatIs
    <2>2. Dashes \o CRLF \in Seq(Bytes) /\ Len(Dashes \o CRLF) = 2 + 2
        BY <2>1, Zenon DEF Joined
    <2>3. 2 + 2 = n
        BY <1>3
    <2> QED
        BY <2>2, <2>3, Zenon
<1>5. PICK l \in Nat : l = Len(s)
    BY LenProperties
<1>6. At(s, m + 1, e) <=> /\ m + 1 + n - 1 <= l
                          /\ \A j \in 1 .. n : s[m + 1 + j - 1] = e[j]
    <2>1. m + 1 \in Nat \ {0}
        OBVIOUS
    <2>2. At(s, m + 1, e) <=>
            /\ m + 1 + Len(e) - 1 <= Len(s)
            /\ \A j \in 1 .. Len(e) : s[m + 1 + j - 1] = e[j]
        BY <2>1, AtIs, Zenon
    <2> QED
        BY <1>4, <1>5, <2>2
<1>7. \A j \in Int : m + 1 + j - 1 = m + j
    OBVIOUS
<1>8. m + 1 + n - 1 <= l
    BY <1>3, <1>5
<1>9. At(s, m + 1, e) <=> \A j \in 1 .. 4 : s[m + j] = e[j]
    BY <1>3, <1>6, <1>7, <1>8
<1> QED
    BY <1>4, <1>9, Zenon

(* What the parser has not removed from its buffer, or not read yet.       *)
Left(c) == io[c] \o rest[c]

Handed(c) == part[c] > 0 => data[c] = form[c][part[c]]

(* A boundary comes next, with the dashes before it or without.            *)
BoundaryAfter(c, d) ==
    Left(c) = d \o (Boundary \o Beyond(form[c], part[c]))

AtBoundary(c) == Handed(c) /\ \E d \in {<<>>, Dashes} : BoundaryAfter(c, d)

InBuffer(c) ==
    /\ Handed(c) /\ part[c] < Len(form[c])
    /\ \E d \in {<<>>, Dashes} :
        BoundaryAfter(c, d) /\ Len(d) + Len(Boundary) <= Len(io[c])

(* The bytes of the next part come next.                                   *)
AtPart(c) ==
    /\ Handed(c) /\ part[c] < Len(form[c])
    /\ Left(c) = form[c][part[c] + 1]
                    \o (CRLF \o EncodeFrom(form[c])[part[c] + 2])

(* q is what comes next, the rest of a part.                               *)
RestOfPart(c, q) ==
    /\ form[c][part[c]] = data[c] \o q
    /\ Left(c) = q \o (CRLF \o EncodeFrom(form[c])[part[c] + 1])

InPart(c) == part[c] > 0 /\ \E q \in Seq(Bytes) : RestOfPart(c, q)

StreamOk(c) ==
    /\ part[c] <= Len(form[c])
    /\ state[c] \in {"none", "MPS_BEGIN"} => part[c] = 0 /\ AtBoundary(c)
    /\ state[c] = "MPS_WAITING_FOR_BOUNDARY" => AtBoundary(c)
    /\ state[c] = "MPS_GOT_BOUNDARY" => InBuffer(c)
    /\ state[c] = "between" => AtPart(c)
    /\ state[c] = "MPS_WAITING_FOR_CHUNK" => InPart(c)
    /\ state[c] = "MPS_FINALIZE" => Handed(c) /\ part[c] = Len(form[c])

StreamInv == \A c \in Conns : StreamOk(c)

(* The parts and what is behind them are sequences of bytes.               *)
LEMMA FormOf ==
    ASSUME TypeInv, NEW c \in Conns
    PROVE  /\ form[c] \in Forms[c] /\ form[c] \in Seq(Seq(Bytes))
           /\ Len(form[c]) \in Nat
           /\ io[c] \in Seq(Bytes) /\ rest[c] \in Seq(Bytes)
           /\ data[c] \in Seq(Bytes) /\ part[c] \in Nat
           /\ Left(c) \in Seq(Bytes)
<1>1. /\ form[c] \in Forms[c] /\ form[c] \in Seq(Seq(Bytes))
      /\ io[c] \in Seq(Bytes) /\ rest[c] \in Seq(Bytes)
      /\ data[c] \in Seq(Bytes) /\ part[c] \in Nat
    BY DEF TypeInv
<1>2. Len(form[c]) \in Nat
    BY <1>1, LenProperties
<1>3. Left(c) \in Seq(Bytes)
    BY <1>1, ConcatProperties, Zenon DEF Left
<1> QED
    BY <1>1, <1>2, <1>3

(* A part and what is behind it.                                           *)
LEMMA PartOf ==
    ASSUME NEW f \in Seq(Seq(Bytes)), NEW k \in 1 .. Len(f)
    PROVE  /\ f[k] \in Seq(Bytes) /\ EncodeFrom(f)[k + 1] \in Seq(Bytes)
           /\ CRLF \o EncodeFrom(f)[k + 1] \in Seq(Bytes)
<1>1. f[k] \in Seq(Bytes)
    BY ElementOfSeq
<1>2. k + 1 \in 1 .. Len(f) + 1
    BY LenProperties
<1>3. EncodeFrom(f)[k + 1] \in Seq(Bytes)
    BY <1>2, BodyBytes
<1>4. CRLF \o EncodeFrom(f)[k + 1] \in Seq(Bytes)
    BY <1>3, ClientBytes, ConcatProperties
<1> QED
    BY <1>1, <1>3, <1>4

(* Where a boundary is due, four more bytes tell which it is.              *)
LEMMA SeenAhead ==
    ASSUME TypeInv, Delimits, NEW c \in Conns,
           AtBoundary(c), part[c] <= Len(form[c]), BoundarySeen(c)
    PROVE  /\ At(io[c], After(c), Dashes \o CRLF) <=> part[c] = Len(form[c])
           /\ \E d \in {<<>>, Dashes} :
                BoundaryAfter(c, d) /\ Len(d) + Len(Boundary) <= Len(io[c])
<1>1. PICK d \in {<<>>, Dashes} : BoundaryAfter(c, d)
    BY DEF AtBoundary
<1>2. PICK s \in Seq(Bytes) : s = io[c]
    BY FormOf
<1>3. PICK t \in Seq(Bytes) : t = rest[c]
    BY FormOf
<1>4. PICK f \in Seq(Seq(Bytes)) : f = form[c] /\ Len(f) \in Nat
    BY FormOf
<1>5. PICK k \in 0 .. Len(f) : k = part[c]
    <2>1. part[c] \in 0 .. Len(f)
        BY <1>4, FormOf
    <2> QED
        BY <2>1
<1>6. PICK y \in Seq(Bytes) : y = Beyond(f, k)
    BY EncodeUpTo
<1>7. Len(d) + Len(Boundary) \in Nat /\ Len(d) \in Nat
    BY ClientBytes, NoneBefore
<1>8. PICK m \in Nat : m = Len(d) + Len(Boundary)
    BY <1>7
<1>9. s \o t = d \o (Boundary \o y)
    BY <1>1, <1>2, <1>3, <1>4, <1>5, <1>6 DEF BoundaryAfter, Left
<1>10. /\ Find(s, Boundary) = IF m <= Len(s) THEN Len(d) + 1 ELSE 0
       /\ \A i \in 1 .. Len(y) : m + i <= Len(s) => s[m + i] = y[i]
       /\ Len(s) <= m + Len(y)
    <2>1. Found(s, d, y, m)
        BY <1>8, <1>9, BoundaryAhead
    <2> QED
        BY <2>1 DEF Found
<1>11. After(c) = m + 1 /\ m + 4 <= Len(s) /\ m <= Len(s)
    <2>1. /\ Find(s, Boundary) # 0
          /\ Len(s) - (Find(s, Boundary) + Len(Boundary)) + 1 >= 4
          /\ After(c) = Find(s, Boundary) + Len(Boundary)
        BY <1>2 DEF BoundarySeen, After
    <2>2. Find(s, Boundary) = Len(d) + 1 /\ m <= Len(s)
        BY <1>10, <2>1
    <2>3. PICK n \in Nat : n = Len(Boundary)
        BY ClientBytes
    <2>4. PICK e \in Nat : e = Len(d)
        BY <1>7
    <2>5. PICK l \in Nat : l = Len(s)
        BY LenProperties
    <2> QED
        BY <1>8, <2>1, <2>2, <2>3, <2>4, <2>5
<1>12. Len(y) \in Nat /\ 4 <= Len(y)
    <2>1. PICK l \in Nat : l = Len(s)
        BY LenProperties
    <2>2. PICK n \in Nat : n = Len(y)
        BY LenProperties
    <2> QED
        BY <1>10, <1>11, <2>1, <2>2
<1>13. At(s, m + 1, Dashes \o CRLF) <=>
            \A i \in 1 .. 4 : y[i] = (Dashes \o CRLF)[i]
    <2>1. \A i \in 1 .. 4 : s[m + i] = y[i]
        <3>1. ASSUME NEW i \in 1 .. 4
              PROVE  i \in 1 .. Len(y) /\ m + i <= Len(s)
            <4>1. PICK l \in Nat : l = Len(s)
                BY LenProperties
            <4> QED
                BY <1>11, <1>12, <4>1
        <3> QED
            BY <1>10, <3>1
    <2>2. At(s, m + 1, Dashes \o CRLF) <=>
            \A i \in 1 .. 4 : s[m + i] = (Dashes \o CRLF)[i]
        BY <1>11, LastBoundary
    <2> QED
        BY <2>1, <2>2
<1>14. (\A i \in 1 .. 4 : y[i] = (Dashes \o CRLF)[i]) <=> k = Len(f)
    <2>1. CASE k = Len(f)
        BY <1>6, <2>1, BeyondBytes, Zenon
    <2>2. CASE k # Len(f)
        <3>1. PICK v \in Seq(Bytes), h \in Seq(Bytes) :
                y = h \o v /\ Len(h) = 7 /\ h[1] = "CR"
            BY <1>6, <2>2, BeyondBytes, Zenon
        <3>2. y[1] = "CR"
            <4>1. PICK n \in Nat : n = Len(v)
                BY LenProperties
            <4>2. Joined(h, v, 7, n)
                BY <3>1, <4>1, ConcatIs
            <4>3. \A i \in 1 .. 7 : (h \o v)[i] = h[i]
                BY <4>2, Zenon DEF Joined
            <4>4. 1 \in 1 .. 7
                OBVIOUS
            <4>5. y[1] = h[1]
                BY <3>1, <4>3, <4>4, Zenon
            <4> QED
                BY <3>1, <4>5
        <3>3. (Dashes \o CRLF)[1] = "-"
            <4>1. Len(Dashes) = 2 /\ Len(CRLF) = 2 /\ Dashes[1] = "-"
                BY DEF Dashes, CRLF
            <4>2. Joined(Dashes, CRLF, 2, 2)
                BY <4>1, ClientBytes, ConcatIs
            <4>3. \A i \in 1 .. 2 : (Dashes \o CRLF)[i] = Dashes[i]
                BY <4>2, Zenon DEF Joined
            <4>4. 1 \in 1 .. 2
                OBVIOUS
            <4>5. (Dashes \o CRLF)[1] = Dashes[1]
                BY <4>3, <4>4, Zenon
            <4> QED
                BY <4>1, <4>5
        <3>4. 1 \in 1 .. 4 /\ "CR" # "-"
            OBVIOUS
        <3> QED
            BY <2>2, <3>2, <3>3, <3>4, Zenon
    <2> QED
        BY <2>1, <2>2
<1> QED
    BY <1>1, <1>2, <1>4, <1>5, <1>8, <1>11, <1>13, <1>14

(* The headers of a part are removed as a whole, and its bytes come next.  *)
LEMMA HeaderAhead ==
    ASSUME TypeInv, Delimits, NEW c \in Conns, InBuffer(c),
           EmptyLine(io[c], After(c) + 2) # 0
    PROVE  Drop(io[c], EmptyLine(io[c], After(c) + 2) + 1) \o rest[c]
            = form[c][part[c] + 1]
                \o (CRLF \o EncodeFrom(form[c])[part[c] + 2])
<1>1. PICK d \in {<<>>, Dashes} :
        BoundaryAfter(c, d) /\ Len(d) + Len(Boundary) <= Len(io[c])
    BY DEF InBuffer
<1>2. PICK s \in Seq(Bytes) : s = io[c]
    BY FormOf
<1>3. PICK t \in Seq(Bytes) : t = rest[c]
    BY FormOf
<1>4. PICK f \in Seq(Seq(Bytes)) : f = form[c] /\ Len(f) \in Nat
    BY FormOf
<1>5. PICK k \in 0 .. Len(f) : k = part[c] /\ k # Len(f)
    <2>1. part[c] \in 0 .. Len(f) /\ part[c] # Len(f)
        BY <1>4, FormOf DEF InBuffer
    <2> QED
        BY <2>1
<1>6. PICK y \in Seq(Bytes) : y = Beyond(f, k)
    BY EncodeUpTo
<1>7. PICK v \in Seq(Bytes), h \in Seq(Bytes) :
        /\ v = f[k + 1] \o (CRLF \o EncodeFrom(f)[k + 2])
        /\ y = h \o v /\ Len(h) = 7
        /\ h[1] = "CR" /\ h[2] = "LF" /\ h[3] = "H"
        /\ h[4] = "CR" /\ h[5] = "LF"
        /\ h[6] = "CR" /\ h[7] = "LF"
    BY <1>5, <1>6, BeyondBytes, Zenon
<1>8. Len(d) \in Nat /\ Len(Boundary) \in Nat
    BY ClientBytes, NoneBefore
<1>9. PICK m \in Nat : m = Len(d) + Len(Boundary)
    BY <1>8
<1>10. s \o t = d \o (Boundary \o y)
    BY <1>1, <1>2, <1>3, <1>4, <1>5, <1>6 DEF BoundaryAfter, Left
<1>11. Found(s, d, y, m)
    BY <1>9, <1>10, BoundaryAhead
<1>12. PICK l \in Nat : l = Len(s)
    BY LenProperties
<1>13. m <= l /\ After(c) + 2 = m + 3
    <2>1. m <= l
        BY <1>1, <1>2, <1>9, <1>12
    <2>2. After(c) = Len(d) + 1 + Len(Boundary)
        BY <1>2, <1>11, <1>12, <2>1 DEF After, Found
    <2> QED
        BY <1>8, <1>9, <2>1, <2>2
<1>14. PICK n \in Nat : n = Len(v)
    BY LenProperties
<1>15. Len(y) = 7 + n /\ \A i \in 1 .. 7 : y[i] = h[i]
    <2>1. Joined(h, v, 7, n)
        BY <1>7, <1>14, ConcatIs
    <2> QED
        BY <1>7, <2>1, Zenon DEF Joined
<1>16. \A i \in 1 .. 7 : m + i <= l => s[m + i] = h[i]
    <2>1. \A i \in 1 .. 7 : i \in 1 .. 7 + n
        OBVIOUS
    <2>2. \A i \in 1 .. 7 + n : m + i <= l => s[m + i] = y[i]
        BY <1>11, <1>12, <1>15 DEF Found
    <2> QED
        BY <1>15, <2>1, <2>2
<1>17. PICK b \in Nat \ {0} : b = m + 3
    OBVIOUS
<1>18. EmptyLine(s, b) = IF b + 4 <= l THEN b + 3 ELSE 0
    <2>1. /\ b = m + 3 /\ b + 1 = m + 4 /\ b + 2 = m + 5
          /\ b + 3 = m + 6 /\ b + 4 = m + 7
        BY <1>17
    <2>2. /\ b <= l => s[b] = "H"
          /\ b + 1 <= l => s[b + 1] = "CR"
          /\ b + 2 <= l => s[b + 2] = "LF"
          /\ b + 3 <= l => s[b + 3] = "CR"
          /\ b + 4 <= l => s[b + 4] = "LF"
        <3>1. /\ 3 \in 1 .. 7 /\ 4 \in 1 .. 7 /\ 5 \in 1 .. 7
              /\ 6 \in 1 .. 7 /\ 7 \in 1 .. 7
            OBVIOUS
        <3> QED
            BY <1>7, <1>16, <2>1, <3>1
    <2> QED
        BY <1>12, <2>2, HeaderEnds
<1>19. EmptyLine(s, b) = b + 3 /\ b + 4 <= l
    BY <1>2, <1>13, <1>17, <1>18
<1>20. EmptyLine(io[c], After(c) + 2) + 1 = m + 7 /\ m + 7 <= l
    BY <1>2, <1>13, <1>17, <1>19
<1>21. PICK u \in Seq(Bytes) : u = (d \o Boundary) \o h /\ Len(u) = m + 7
    <2>1. d \in Seq(Bytes) /\ Boundary \in Seq(Bytes)
        BY ClientBytes, NoneBefore
    <2>2. PICK w \in Seq(Bytes) : w = d \o Boundary /\ Len(w) = m
        <3>1. d \o Boundary \in Seq(Bytes) /\ Len(d \o Boundary) = m
            BY <1>9, <2>1, ConcatProperties
        <3> QED
            BY <3>1
    <2>3. Joined(w, h, m, 7)
        BY <1>7, <2>2, ConcatIs
    <2>4. w \o h \in Seq(Bytes) /\ Len(w \o h) = m + 7
        BY <2>3, Zenon DEF Joined
    <2> QED
        BY <2>2, <2>4, Zenon
<1>22. s \o t = u \o v
    <2>1. d \in Seq(Bytes) /\ Boundary \in Seq(Bytes)
        BY ClientBytes, NoneBefore
    <2>2. d \o Boundary \in Seq(Bytes)
        BY <2>1, ConcatProperties
    <2>3. Regroup(d \o Boundary, h, v) /\ Regroup(d, Boundary, y)
        BY <2>1, <2>2, Assoc
    <2> QED
        BY <1>7, <1>10, <1>21, <2>3, Zenon DEF Regroup
<1>23. Drop(s, m + 7) \o t = v
    <2>1. Len(u) <= Len(s)
        BY <1>12, <1>20, <1>21
    <2>2. Drop(s, Len(u)) \o t = v
        BY <1>22, <2>1, CutAgain
    <2> QED
        BY <1>21, <2>2
<1> QED
    BY <1>2, <1>3, <1>4, <1>5, <1>7, <1>20, <1>23

(* A read moves bytes from what is not read to the end of the buffer.      *)
LEMMA ReadKeepsPlace ==
    ASSUME TypeInv, NEW c \in Conns, NEW n \in Nat, Reading(c, n)
    PROVE  /\ Left(c)' = Left(c)
           /\ \A m \in Nat : m <= Len(io[c]) => m <= Len(io'[c])
           /\ \A e \in Conns \ {c} : UNCHANGED <<io[e], rest[e]>>
<1>1. PICK s \in Seq(Bytes) : s = io[c]
    BY FormOf
<1>2. PICK t \in Seq(Bytes) : t = rest[c]
    BY FormOf
<1>3. PICK k \in Nat : /\ k = IF n < Len(t) THEN n ELSE Len(t)
                       /\ k <= Len(t)
    <2>1. PICK l \in Nat : l = Len(t)
        BY LenProperties
    <2> QED
        BY <2>1
<1>4. io' = [io EXCEPT ![c] = @ \o SubSeq(t, 1, k)]
      /\ rest' = [rest EXCEPT ![c] = Drop(@, k)]
    BY <1>2, <1>3 DEF Reading
<1>5. PICK a \in Seq(Bytes) : a = SubSeq(t, 1, k)
    <2>1. SubSeq(t, 1, k) \in Seq(Bytes)
        BY <1>3, TakeBytes
    <2> QED
        BY <2>1
<1>6. PICK b \in Seq(Bytes) : b = Drop(t, k)
    BY DropBytes
<1>7. a \o b = t
    BY <1>3, <1>5, <1>6, TakeAndDrop
<1>8. io'[c] = s \o a /\ rest'[c] = b
    BY <1>1, <1>2, <1>4, <1>5, <1>6 DEF TypeInv
<1>9. Left(c)' = (s \o a) \o b
    BY <1>8, Zenon DEF Left
<1>10. (s \o a) \o b = s \o t
    <2>1. Regroup(s, a, b)
        BY Assoc
    <2> QED
        BY <1>7, <2>1, Zenon DEF Regroup
<1>11. \A m \in Nat : m <= Len(s) => m <= Len(s \o a)
    <2>1. PICK l \in Nat : l = Len(s)
        BY LenProperties
    <2>2. PICK j \in Nat : j = Len(a)
        BY LenProperties
    <2>3. Len(s \o a) = l + j
        BY <2>1, <2>2, ConcatProperties
    <2> QED
        BY <2>1, <2>3
<1>12. \A e \in Conns \ {c} : UNCHANGED <<io[e], rest[e]>>
    BY <1>4 DEF TypeInv
<1> QED
    BY <1>1, <1>2, <1>8, <1>9, <1>10, <1>11, <1>12 DEF Left

(* Bytes from the head of the buffer are bytes from the head of what is to *)
(* come.                                                                   *)
HandedOver(s, t, q, z, n) ==
    \E r \in Seq(Bytes) : q = SubSeq(s, 1, n) \o r /\ Drop(s, n) \o t = r \o z

LEMMA HandOver ==
    ASSUME NEW s \in Seq(Bytes), NEW t \in Seq(Bytes),
           NEW q \in Seq(Bytes), NEW z \in Seq(Bytes), s \o t = q \o z,
           NEW n \in Nat, n <= Len(q), n <= Len(s)
    PROVE  HandedOver(s, t, q, z, n)
<1>1. PICK u \in Seq(Bytes) : u = SubSeq(q, 1, n) /\ Len(u) = n
    <2>1. SubSeq(q, 1, n) \in Seq(Bytes) /\ Len(SubSeq(q, 1, n)) = n
        BY TakeBytes, TakeIs
    <2> QED
        BY <2>1
<1>2. PICK r \in Seq(Bytes) : r = Drop(q, n)
    BY DropBytes
<1>3. u \o r = q
    BY <1>1, <1>2, TakeAndDrop
<1>4. r \o z \in Seq(Bytes)
    BY ConcatProperties
<1>5. s \o t = u \o (r \o z)
    <2>1. Regroup(u, r, z)
        BY Assoc
    <2> QED
        BY <1>3, <2>1, Zenon DEF Regroup
<1>6. SubSeq(s, 1, Len(u)) = u /\ Drop(s, Len(u)) \o t = r \o z
    <2>1. PICK w \in Seq(Bytes) : w = r \o z
        BY <1>4
    <2>2. s \o t = u \o w /\ Len(u) <= Len(s)
        BY <1>1, <1>5, <2>1
    <2> QED
        BY <2>1, <2>2, CutAgain
<1> QED
    BY <1>1, <1>3, <1>6 DEF HandedOver

LEMMA PrefixIs ==
    ASSUME NEW s \in Seq(Bytes), NEW t \in Seq(Bytes)
    PROVE  IsPrefix(s, s \o t)
<1>1. PICK m \in Nat : m = Len(s)
    BY LenProperties
<1>2. PICK n \in Nat : n = Len(t)
    BY LenProperties
<1>3. PICK w \in Seq(Bytes) : w = s \o t /\ Len(w) = m + n
    <2>1. Joined(s, t, m, n)
        BY <1>1, <1>2, ConcatIs
    <2> QED
        BY <2>1 DEF Joined
<1>4. SubSeq(w, 1, m) = s /\ Len(s) <= Len(w)
    <2>1. w \o <<>> = s \o t /\ <<>> \in Seq(Bytes)
        BY <1>3, EmptySeq, ConcatEmptySeq
    <2>2. Len(s) <= Len(w)
        BY <1>1, <1>2, <1>3
    <2>3. SubSeq(w, 1, Len(s)) = s
        BY <2>1, <2>2, CutAgain
    <2> QED
        BY <1>1, <2>2, <2>3
<1>5. SubSeq(s, 1, m) = s
    BY <1>1, SubSeqFull
<1> QED
    BY <1>1, <1>3, <1>4, <1>5 DEF IsPrefix

(* The parser hands over bytes of the part only, and finds its end.        *)
LEMMA ChunkKeepsPlace ==
    ASSUME TypeInv, Delimits, NEW c \in Conns, InPart(c),
           part[c] <= Len(form[c]), WaitForChunk(c)
    PROVE  /\ IsPrefix(data[c], data'[c])
           /\ IsPrefix(data'[c], form[c][part[c]])
           /\ \/ state'[c] = "MPS_WAITING_FOR_CHUNK" /\ InPart(c)'
              \/ state'[c] = "MPS_WAITING_FOR_BOUNDARY" /\ AtBoundary(c)'
<1>1. PICK q \in Seq(Bytes) : RestOfPart(c, q)
    BY DEF InPart
<1>2. PICK s \in Seq(Bytes) : s = io[c]
    BY FormOf
<1>3. PICK t \in Seq(Bytes) : t = rest[c]
    BY FormOf
<1>4. PICK f \in Seq(Seq(Bytes)) :
        f = form[c] /\ Len(f) \in Nat /\ f \in Forms[c]
    BY FormOf
<1>5. PICK k \in 1 .. Len(f) : k = part[c]
    <2>1. part[c] \in 1 .. Len(f)
        BY <1>4, FormOf DEF InPart
    <2> QED
        BY <2>1
<1>6. PICK a \in Seq(Bytes) : a = data[c]
    BY FormOf
<1>7. PICK z \in Seq(Bytes) : z = CRLF \o EncodeFrom(f)[k + 1]
    BY PartOf
<1>8. f[k] = a \o q /\ s \o t = q \o z
    BY <1>1, <1>2, <1>3, <1>4, <1>5, <1>6, <1>7 DEF RestOfPart, Left
<1>9. /\ form'[c] = f /\ rest'[c] = t /\ part'[c] = k
      /\ k > 0
    BY <1>3, <1>4, <1>5 DEF WaitForChunk, Runs
<1>10. ASSUME NEW r \in Seq(Bytes), NEW d \in Seq(Bytes), data'[c] = a \o d,
              f[k] = (a \o d) \o r
       PROVE  /\ IsPrefix(data[c], data'[c])
              /\ IsPrefix(data'[c], form[c][part[c]])
    <2>1. a \o d \in Seq(Bytes)
        BY ConcatProperties
    <2>2. IsPrefix(a, a \o d) /\ IsPrefix(a \o d, (a \o d) \o r)
        BY <2>1, PrefixIs
    <2> QED
        BY <1>4, <1>5, <1>6, <1>10, <2>2
<1>11. PICK y \in Seq(Bytes) : /\ y = Beyond(f, k)
                               /\ EncodeFrom(f)[k + 1] = Dashes \o (Boundary \o y)
    <2>1. k \in 0 .. Len(f)
        OBVIOUS
    <2> QED
        BY <2>1, EncodeUpTo
<1>12. PICK x \in Seq(Bytes) :
        /\ x = q \o (CRLF \o Dashes) /\ Len(x) = Len(q) + 4
        /\ \A i \in 1 .. Len(x) : ~At(x \o Boundary, i, Boundary)
    <2>1. LET x == q \o (CRLF \o Dashes)
          IN  /\ Len(x) = Len(q) + 4
              /\ \A i \in 1 .. Len(x) : ~At(x \o Boundary, i, Boundary)
        BY <1>4, <1>8, NoneInPart
    <2>2. CRLF \o Dashes \in Seq(Bytes)
        BY ClientBytes, ConcatProperties
    <2>3. q \o (CRLF \o Dashes) \in Seq(Bytes)
        BY <2>2, ConcatProperties
    <2> QED
        BY <2>1, <2>3
<1>13. s \o t = x \o (Boundary \o y)
    <2>1. Boundary \o y \in Seq(Bytes) /\ CRLF \o Dashes \in Seq(Bytes)
        BY ClientBytes, ConcatProperties
    <2>2. Regroup(CRLF, Dashes, Boundary \o y)
        BY <2>1, ClientBytes, Assoc
    <2>3. Regroup(q, CRLF \o Dashes, Boundary \o y)
        BY <2>1, Assoc
    <2> QED
        BY <1>7, <1>8, <1>11, <1>12, <2>2, <2>3, Zenon DEF Regroup
<1>14. Find(s, Boundary) = IF Len(x) + Len(Boundary) <= Len(s)
                           THEN Len(x) + 1 ELSE 0
    BY <1>12, <1>13, FoundNext
<1>15. PICK l \in Nat : l = Len(s)
    BY LenProperties
<1>16. PICK n \in Nat : n = Len(q)
    BY LenProperties
<1>17. PICK b \in Nat : b = Len(Boundary)
    BY ClientBytes
<1>18. /\ Held = b + 6
       /\ Find(s, Boundary) = IF n + 4 + b <= l THEN n + 5 ELSE 0
    BY <1>12, <1>14, <1>15, <1>16, <1>17 DEF Held
<1>19. CASE /\ Return(c, "MPS_WAITING_FOR_CHUNK")
            /\ UNCHANGED <<up, io, fileVars, data>>
    <2>1. state'[c] = "MPS_WAITING_FOR_CHUNK"
        BY <1>19 DEF Return, TypeInv
    <2>2. InPart(c)'
        BY <1>19 DEF InPart, RestOfPart, Left, WaitForChunk, Runs
    <2>3. IsPrefix(data[c], data'[c]) /\ IsPrefix(data'[c], form[c][part[c]])
        <3>1. a \o <<>> = a /\ <<>> \in Seq(Bytes)
            BY EmptySeq, ConcatEmptySeq
        <3>2. data'[c] = a \o <<>> /\ f[k] = (a \o <<>>) \o q
            BY <1>6, <1>8, <1>19, <3>1
        <3> QED
            BY <1>10, <3>1, <3>2
    <2> QED
        BY <2>1, <2>2, <2>3
<1>20. ASSUME NEW i \in Nat, i <= n, i <= l, Deliver(c, i)
       PROVE  \E d \in Seq(Bytes), r \in Seq(Bytes) :
                /\ d = SubSeq(s, 1, i) /\ q = d \o r
                /\ Drop(s, i) \o t = r \o z
                /\ data'[c] = a \o d /\ f[k] = (a \o d) \o r
    <2>1. PICK d \in Seq(Bytes) : d = SubSeq(s, 1, i)
        <3>1. SubSeq(s, 1, i) \in Seq(Bytes)
            BY <1>15, <1>20, TakeBytes
        <3> QED
            BY <3>1
    <2>2. PICK r \in Seq(Bytes) : /\ q = SubSeq(s, 1, i) \o r
                                  /\ Drop(s, i) \o t = r \o z
        <3>1. s \o t = q \o z /\ i <= Len(q) /\ i <= Len(s)
            BY <1>8, <1>15, <1>16, <1>20
        <3>2. HandedOver(s, t, q, z, i)
            BY <3>1, HandOver
        <3> QED
            BY <3>2 DEF HandedOver
    <2>3. data'[c] = a \o d
        BY <1>2, <1>6, <1>20, <2>1 DEF Deliver, TypeInv
    <2>4. f[k] = (a \o d) \o r
        <3>1. Regroup(a, d, r)
            BY Assoc
        <3> QED
            BY <1>8, <2>1, <2>2, <3>1, Zenon DEF Regroup
    <2> QED
        BY <2>1, <2>2, <2>3, <2>4
<1>21. CASE /\ Find(s, Boundary) = 0 /\ l > Held
            /\ Deliver(c, l - Held)
            /\ io' = [io EXCEPT ![c] = Drop(@, l - Held)]
            /\ Return(c, "MPS_WAITING_FOR_CHUNK")
    <2>1. l - Held \in Nat /\ l - Held <= n /\ l - Held <= l
        BY <1>18, <1>21
    <2>2. PICK i \in Nat : i = l - Held
        BY <2>1
    <2>3. PICK d \in Seq(Bytes), r \in Seq(Bytes) :
            /\ d = SubSeq(s, 1, i) /\ q = d \o r
            /\ Drop(s, i) \o t = r \o z
            /\ data'[c] = a \o d /\ f[k] = (a \o d) \o r
        BY <1>20, <1>21, <2>1, <2>2
    <2>4. IsPrefix(data[c], data'[c]) /\ IsPrefix(data'[c], form[c][part[c]])
        BY <1>10, <2>3
    <2>5. state'[c] = "MPS_WAITING_FOR_CHUNK"
        BY <1>21 DEF Return, TypeInv
    <2>6. io'[c] = Drop(s, i)
        BY <1>2, <1>21, <2>2 DEF TypeInv
    <2>7. InPart(c)'
        <3>1. RestOfPart(c, r)'
            BY <1>7, <1>9, <2>3, <2>6 DEF RestOfPart, Left
        <3> QED
            BY <1>9, <3>1 DEF InPart
    <2> QED
        BY <2>4, <2>5, <2>7
<1>22. CASE /\ Find(s, Boundary) # 0
            /\ Deliver(c, Find(s, Boundary) - 5)
            /\ io' = [io EXCEPT ![c] = Drop(@, Find(s, Boundary) - 1)]
            /\ Loop(c, "MPS_WAITING_FOR_BOUNDARY")
    <2>1. /\ Find(s, Boundary) - 5 = n /\ Find(s, Boundary) - 1 = n + 4
          /\ n <= n /\ n <= l /\ n + 4 <= l
        BY <1>18, <1>22
    <2>2. PICK d \in Seq(Bytes), r \in Seq(Bytes) :
            /\ d = SubSeq(s, 1, n) /\ q = d \o r
            /\ Drop(s, n) \o t = r \o z
            /\ data'[c] = a \o d /\ f[k] = (a \o d) \o r
        BY <1>20, <1>22, <2>1
    <2>3. IsPrefix(data[c], data'[c]) /\ IsPrefix(data'[c], form[c][part[c]])
        BY <1>10, <2>2
    <2>4. d = q
        <3>1. s \o t = q \o z /\ Len(q) <= Len(s)
            BY <1>8, <1>15, <1>16, <2>1
        <3>2. SubSeq(s, 1, Len(q)) = q
            BY <3>1, CutAgain
        <3> QED
            BY <1>16, <2>2, <3>2
    <2>5. state'[c] = "MPS_WAITING_FOR_BOUNDARY"
        BY <1>22 DEF Loop, TypeInv
    <2>6. io'[c] = Drop(s, n + 4)
        BY <1>2, <1>22, <2>1 DEF TypeInv
    <2>7. Drop(s, n + 4) \o t = Boundary \o y
        <3>1. Len(x) = n + 4 /\ Len(x) <= Len(s)
            BY <1>12, <1>15, <1>16, <2>1
        <3>2. PICK w \in Seq(Bytes) : w = Boundary \o y
            BY ClientBytes, ConcatProperties
        <3>3. Drop(s, Len(x)) \o t = w
            BY <1>13, <3>1, <3>2, CutAgain
        <3> QED
            BY <3>1, <3>2, <3>3
    <2>8. AtBoundary(c)'
        <3>1. Boundary \o y \in Seq(Bytes)
            BY ClientBytes, ConcatProperties
        <3>2. Boundary \o y = <<>> \o (Boundary \o y)
            BY <3>1, ConcatEmptySeq
        <3>3. BoundaryAfter(c, <<>>)'
            BY <1>9, <1>11, <2>6, <2>7, <3>2 DEF BoundaryAfter, Left
        <3>4. Handed(c)'
            BY <1>8, <1>9, <2>2, <2>4 DEF Handed
        <3> QED
            BY <3>3, <3>4 DEF AtBoundary
    <2> QED
        BY <2>3, <2>5, <2>8
<1> QED
    BY <1>2, <1>15, <1>19, <1>21, <1>22 DEF WaitForChunk

(***************************************************************************)
(* Every step keeps the place, and is a step of PartEvents or none.        *)
(***************************************************************************)
Elsewhere(c) ==
    /\ UNCHANGED form
    /\ \A e \in Conns \ {c} :
        UNCHANGED <<part[e], data[e], state[e], io[e], rest[e]>>

LEMMA OthersKeepPlace ==
    ASSUME StreamInv, NEW c \in Conns, Elsewhere(c), StreamOk(c)'
    PROVE  StreamInv'
<1>1. ASSUME NEW e \in Conns \ {c}
      PROVE  StreamOk(e)'
    <2>1. StreamOk(e)
        BY DEF StreamInv
    <2>2. /\ form' = form /\ part'[e] = part[e] /\ data'[e] = data[e]
          /\ state'[e] = state[e] /\ io'[e] = io[e] /\ rest'[e] = rest[e]
        BY DEF Elsewhere
    <2>3. /\ Left(e)' = Left(e) /\ Handed(e)' = Handed(e)
        BY <2>2 DEF Left, Handed
    <2>4. \A d : BoundaryAfter(e, d)' = BoundaryAfter(e, d)
        BY <2>2, <2>3 DEF BoundaryAfter
    <2>5. \A q : RestOfPart(e, q)' = RestOfPart(e, q)
        BY <2>2, <2>3 DEF RestOfPart
    <2>6. AtBoundary(e)' = AtBoundary(e) /\ InBuffer(e)' = InBuffer(e)
          /\ AtPart(e)' = AtPart(e) /\ InPart(e)' = InPart(e)
        BY <2>2, <2>3, <2>4, <2>5 DEF AtBoundary, InBuffer, AtPart, InPart
    <2> QED
        BY <2>1, <2>2, <2>3, <2>6 DEF StreamOk
<1> QED
    BY <1>1 DEF StreamInv

(* What the handler is inside of changes for one connection at most.       *)
LEMMA EventsElsewhere ==
    ASSUME NEW c \in Conns, Elsewhere(c), NEW b \in BOOLEAN, NEW o \in BOOLEAN,
           Inside(c)' <=> b, (state'[c] \in {"MPS_FINISHED", "closed"}) <=> o
    PROVE  /\ [e \in Conns |-> Inside(e)]'
                = [[e \in Conns |-> Inside(e)] EXCEPT ![c] = b]
           /\ [e \in Conns |-> state[e] \in {"MPS_FINISHED", "closed"}]'
                = [[e \in Conns |-> state[e] \in {"MPS_FINISHED", "closed"}]
                    EXCEPT ![c] = o]
<1>1. ASSUME NEW e \in Conns \ {c}
      PROVE  /\ Inside(e)' = Inside(e)
             /\ state'[e] = state[e]
    BY DEF Elsewhere, Inside
<1>2. Inside(c)' = b /\ (state'[c] \in {"MPS_FINISHED", "closed"}) = o
    BY DEF Inside
<1> QED
    BY <1>1, <1>2

LEMMA SameOver ==
    ASSUME NEW c \in Conns, Elsewhere(c),
           state'[c] \in {"MPS_FINISHED", "closed"}
                <=> state[c] \in {"MPS_FINISHED", "closed"}
    PROVE  [e \in Conns |-> state[e] \in {"MPS_FINISHED", "closed"}]'
            = [e \in Conns |-> state[e] \in {"MPS_FINISHED", "closed"}]
<1>1. ASSUME NEW e \in Conns
      PROVE  (state'[e] \in {"MPS_FINISHED", "closed"})
                = (state[e] \in {"MPS_FINISHED", "closed"})
    <2>1. CASE e = c
        BY <2>1
    <2>2. CASE e # c
        BY <2>2 DEF Elsewhere
    <2> QED
        BY <2>1, <2>2
<1> QED
    BY <1>1

(* Nothing the handler could notice.                                       *)
LEMMA NoEvent ==
    ASSUME NEW c \in Conns, Elsewhere(c), UNCHANGED <<part, data>>,
           Inside(c)' <=> Inside(c),
           state'[c] \in {"MPS_FINISHED", "closed"}
                <=> state[c] \in {"MPS_FINISHED", "closed"}
    PROVE  UNCHANGED Events!vars
<1>1. ASSUME NEW e \in Conns
      PROVE  Inside(e)' = Inside(e)
    <2>1. CASE e = c
        BY <2>1 DEF Inside
    <2>2. CASE e # c
        BY <2>2 DEF Inside, Elsewhere
    <2> QED
        BY <2>1, <2>2
<1>2. form' = form
    BY DEF Elsewhere
<1> QED
    BY <1>1, <1>2, SameOver DEF Events!vars

(* A step that leaves the parser's place alone.                            *)
LEMMA SamePlace ==
    ASSUME NEW c \in Conns, UNCHANGED <<form, part, data>>,
           Left(c)' = Left(c)
    PROVE  /\ AtBoundary(c) => AtBoundary(c)'
           /\ Handed(c) => Handed(c)'
           /\ AtPart(c) => AtPart(c)'
           /\ InPart(c) => InPart(c)'
<1>1. Handed(c)' = Handed(c)
    BY DEF Handed
<1>2. \A d : BoundaryAfter(c, d)' = BoundaryAfter(c, d)
    BY DEF BoundaryAfter
<1>3. \A q : RestOfPart(c, q)' = RestOfPart(c, q)
    BY DEF RestOfPart
<1> QED
    BY <1>1, <1>2, <1>3 DEF AtBoundary, AtPart, InPart

Step(c) == StreamInv' /\ (Events!Next \/ UNCHANGED Events!vars)

LEMMA RequestStep ==
    ASSUME TypeInv, StreamInv, NEW c \in Conns, NEW n \in Nat, Request(c, n)
    PROVE  Step(c)
<1>1. StreamOk(c) /\ part[c] = 0 /\ AtBoundary(c)
    BY DEF StreamInv, StreamOk, Request
<1>2. /\ UNCHANGED <<form, part, data>>
      /\ state[c] = "none" /\ state'[c] = "MPS_BEGIN"
      /\ \A e \in Conns \ {c} : state'[e] = state[e]
    BY DEF Request, TypeInv
<1>3. /\ Left(c)' = Left(c)
      /\ \A e \in Conns \ {c} : UNCHANGED <<io[e], rest[e]>>
    BY ReadKeepsPlace DEF Request
<1>4. Elsewhere(c)
    BY <1>2, <1>3 DEF Elsewhere
<1>5. AtBoundary(c)'
    BY <1>1, <1>2, <1>3, SamePlace
<1>6. StreamOk(c)'
    BY <1>1, <1>2, <1>5 DEF StreamOk
<1>7. UNCHANGED Events!vars
    <2>1. ~Inside(c) /\ ~Inside(c)'
        BY <1>1, <1>2 DEF Inside
    <2> QED
        BY <1>2, <1>4, <2>1, NoEvent
<1> QED
    BY <1>4, <1>6, <1>7, OthersKeepPlace DEF Step

LEMMA RecvStep ==
    ASSUME TypeInv, StreamInv, NEW c \in Conns, NEW n \in Nat, Recv(c, n)
    PROVE  Step(c)
<1>1. StreamOk(c)
    BY DEF StreamInv
<1>2. UNCHANGED <<form, part, data, state>>
    BY DEF Recv
<1>3. /\ Left(c)' = Left(c)
      /\ \A m \in Nat : m <= Len(io[c]) => m <= Len(io'[c])
      /\ \A e \in Conns \ {c} : UNCHANGED <<io[e], rest[e]>>
    BY ReadKeepsPlace DEF Recv
<1>4. Elsewhere(c)
    BY <1>2, <1>3 DEF Elsewhere
<1>5. /\ AtBoundary(c) => AtBoundary(c)'
      /\ Handed(c) => Handed(c)'
      /\ AtPart(c) => AtPart(c)'
      /\ InPart(c) => InPart(c)'
    BY <1>2, <1>3, SamePlace
<1>6. InBuffer(c) => InBuffer(c)'
    <2> SUFFICES ASSUME InBuffer(c)
                 PROVE  InBuffer(c)'
        OBVIOUS
    <2>1. PICK d \in {<<>>, Dashes} :
            BoundaryAfter(c, d) /\ Len(d) + Len(Boundary) <= Len(io[c])
        BY DEF InBuffer
    <2>2. Len(d) \in Nat /\ Len(Boundary) \in Nat
        <3>1. d \in Seq(Bytes)
            BY EmptySeq, ClientBytes
        <3> QED
            BY <3>1, ClientBytes, LenProperties
    <2>3. PICK m \in Nat : m = Len(d) + Len(Boundary)
        BY <2>2
    <2>4. m <= Len(io'[c])
        BY <1>3, <2>1, <2>3
    <2>5. BoundaryAfter(c, d)'
        BY <1>2, <1>3, <2>1 DEF BoundaryAfter
    <2>6. Handed(c)' /\ part'[c] < Len(form'[c])
        BY <1>2, <1>5 DEF InBuffer
    <2> QED
        BY <2>3, <2>4, <2>5, <2>6 DEF InBuffer
<1>7. StreamOk(c)'
    BY <1>1, <1>2, <1>5, <1>6 DEF StreamOk
<1>8. UNCHANGED Events!vars
    <2>1. Inside(c)' <=> Inside(c)
        BY <1>2 DEF Inside
    <2> QED
        BY <1>2, <1>4, <2>1, NoEvent
<1> QED
    BY <1>4, <1>7, <1>8, OthersKeepPlace DEF Step

(* Where the parser is elsewhere in its states.                            *)
LEMMA RunsElsewhere ==
    ASSUME TypeInv, NEW c \in Conns, Continue(c)
    PROVE  Elsewhere(c) /\ UNCHANGED <<form, rest>>
<1>1. UNCHANGED <<form, rest>>
    BY DEF Continue, Begin, WaitForBoundary, ProcessBoundary, BeginPart,
           WaitForChunk, Finalize, Runs
<1>2. \A e \in Conns \ {c} : UNCHANGED <<state[e], io[e], part[e], data[e]>>
    <2>1. CASE Begin(c)
        BY <2>1 DEF Begin, Loop, TypeInv
    <2>2. CASE WaitForBoundary(c)
        BY <2>2 DEF WaitForBoundary, Loop, Return, TypeInv
    <2>3. CASE ProcessBoundary(c)
        BY <2>3 DEF ProcessBoundary, Loop, Return, TypeInv
    <2>4. CASE BeginPart(c)
        BY <2>4 DEF BeginPart, Loop, TypeInv
    <2>5. CASE WaitForChunk(c)
        BY <2>5 DEF WaitForChunk, Deliver, Loop, Return, TypeInv
    <2>6. CASE Finalize(c)
        BY <2>6 DEF Finalize, Return, TypeInv
    <2> QED
        BY <2>1, <2>2, <2>3, <2>4, <2>5, <2>6 DEF Continue
<1> QED
    BY <1>1, <1>2 DEF Elsewhere

LEMMA BeginStep ==
    ASSUME TypeInv, StreamInv, NEW c \in Conns, Begin(c)
    PROVE  Step(c)
<1>1. StreamOk(c) /\ part[c] = 0 /\ AtBoundary(c)
    BY DEF StreamInv, StreamOk, Begin, Runs
<1>2. Elsewhere(c)
    BY RunsElsewhere DEF Continue
<1>3. /\ UNCHANGED <<form, part, data>> /\ Left(c)' = Left(c)
      /\ state[c] = "MPS_BEGIN" /\ state'[c] = "MPS_WAITING_FOR_BOUNDARY"
    BY DEF Begin, Runs, Loop, Left, TypeInv
<1>4. AtBoundary(c)'
    BY <1>1, <1>3, SamePlace
<1>5. StreamOk(c)'
    BY <1>1, <1>3, <1>4 DEF StreamOk
<1>6. UNCHANGED Events!vars
    <2>1. ~Inside(c) /\ ~Inside(c)'
        BY <1>1, <1>3 DEF Inside
    <2> QED
        BY <1>2, <1>3, <2>1, NoEvent
<1> QED
    BY <1>2, <1>5, <1>6, OthersKeepPlace DEF Step

LEMMA WaitStep ==
    ASSUME TypeInv, Delimits, StreamInv, NEW c \in Conns, WaitForBoundary(c)
    PROVE  Step(c)
<1>1. StreamOk(c) /\ AtBoundary(c) /\ part[c] <= Len(form[c])
    BY DEF StreamInv, StreamOk, WaitForBoundary, Runs
<1>2. Elsewhere(c)
    BY RunsElsewhere DEF Continue
<1>3. UNCHANGED <<form, part, data, rest>>
      /\ state[c] = "MPS_WAITING_FOR_BOUNDARY"
    BY DEF WaitForBoundary, Runs
<1>4. CASE UNCHANGED io /\ Return(c, "MPS_WAITING_FOR_BOUNDARY")
    <2>1. Left(c)' = Left(c) /\ state'[c] = state[c]
        BY <1>3, <1>4 DEF Left, Return, TypeInv
    <2>2. AtBoundary(c)'
        BY <1>1, <1>3, <2>1, SamePlace
    <2>3. StreamOk(c)'
        BY <1>1, <1>3, <2>1, <2>2 DEF StreamOk
    <2>4. UNCHANGED Events!vars
        BY <1>2, <1>3, <2>1, NoEvent DEF Inside
    <2> QED
        BY <1>2, <2>3, <2>4, OthersKeepPlace DEF Step
<1>5. CASE /\ BoundarySeen(c) /\ At(io[c], After(c), Dashes \o CRLF)
           /\ Loop(c, "MPS_FINALIZE")
    <2>1. part[c] = Len(form[c])
        BY <1>1, <1>5, SeenAhead
    <2>2. state'[c] = "MPS_FINALIZE"
        BY <1>5 DEF Loop, TypeInv
    <2>3. Handed(c)'
        BY <1>1, <1>3 DEF AtBoundary, Handed
    <2>4. StreamOk(c)'
        BY <1>1, <1>3, <2>1, <2>2, <2>3 DEF StreamOk
    <2>5. UNCHANGED Events!vars
        BY <1>2, <1>3, <2>2, NoEvent DEF Inside
    <2> QED
        BY <1>2, <2>4, <2>5, OthersKeepPlace DEF Step
<1>6. CASE /\ BoundarySeen(c) /\ ~At(io[c], After(c), Dashes \o CRLF)
           /\ Loop(c, "MPS_GOT_BOUNDARY") /\ UNCHANGED io
    <2>1. /\ part[c] # Len(form[c])
          /\ \E d \in {<<>>, Dashes} :
                BoundaryAfter(c, d) /\ Len(d) + Len(Boundary) <= Len(io[c])
        BY <1>1, <1>6, SeenAhead
    <2>2. state'[c] = "MPS_GOT_BOUNDARY"
        BY <1>6 DEF Loop, TypeInv
    <2>3. part[c] < Len(form[c])
        BY <1>1, <2>1, FormOf
    <2>4. InBuffer(c)
        BY <1>1, <2>1, <2>3 DEF InBuffer, AtBoundary
    <2>5. InBuffer(c)'
        BY <1>3, <1>6, <2>4 DEF InBuffer, Handed, BoundaryAfter, Left
    <2>6. StreamOk(c)'
        BY <1>1, <1>3, <2>2, <2>5 DEF StreamOk
    <2>7. UNCHANGED Events!vars
        BY <1>2, <1>3, <2>2, NoEvent DEF Inside
    <2> QED
        BY <1>2, <2>6, <2>7, OthersKeepPlace DEF Step
<1> QED
    BY <1>4, <1>5, <1>6 DEF WaitForBoundary

LEMMA HeaderStep ==
    ASSUME TypeInv, Delimits, StreamInv, NEW c \in Conns, ProcessBoundary(c)
    PROVE  Step(c)
<1>1. StreamOk(c) /\ InBuffer(c) /\ part[c] < Len(form[c]) /\ Handed(c)
    BY DEF StreamInv, StreamOk, ProcessBoundary, Runs, InBuffer
<1>2. Elsewhere(c)
    BY RunsElsewhere DEF Continue
<1>3. /\ UNCHANGED <<form, part, data, rest>>
      /\ state[c] = "MPS_GOT_BOUNDARY"
    BY DEF ProcessBoundary, Runs
<1>4. part[c] \in Nat /\ part'[c] <= Len(form'[c])
    BY <1>1, <1>3, FormOf
<1>5. CASE UNCHANGED io /\ Return(c, "MPS_WAITING_FOR_BOUNDARY")
    <2>1. Left(c)' = Left(c) /\ state'[c] = "MPS_WAITING_FOR_BOUNDARY"
        BY <1>3, <1>5 DEF Left, Return, TypeInv
    <2>2. AtBoundary(c)
        BY <1>1 DEF InBuffer, AtBoundary
    <2>3. AtBoundary(c)'
        BY <1>3, <2>1, <2>2, SamePlace
    <2>4. StreamOk(c)'
        BY <1>4, <2>1, <2>3 DEF StreamOk
    <2>5. UNCHANGED Events!vars
        BY <1>2, <1>3, <2>1, NoEvent DEF Inside
    <2> QED
        BY <1>2, <2>4, <2>5, OthersKeepPlace DEF Step
<1>6. CASE /\ EmptyLine(io[c], After(c) + 2) # 0
           /\ io' = [io EXCEPT
                        ![c] = Drop(@, EmptyLine(io[c], After(c) + 2) + 1)]
           /\ Loop(c, "between")
    <2>1. state'[c] = "between"
        BY <1>6 DEF Loop, TypeInv
    <2>2. Left(c)' = form[c][part[c] + 1]
                        \o (CRLF \o EncodeFrom(form[c])[part[c] + 2])
        <3>1. io'[c] = Drop(io[c], EmptyLine(io[c], After(c) + 2) + 1)
            BY <1>6 DEF TypeInv
        <3>2. Drop(io[c], EmptyLine(io[c], After(c) + 2) + 1) \o rest[c]
                = form[c][part[c] + 1]
                    \o (CRLF \o EncodeFrom(form[c])[part[c] + 2])
            BY <1>1, <1>6, HeaderAhead
        <3>3. rest'[c] = rest[c]
            BY <1>3
        <3> QED
            BY <3>1, <3>2, <3>3, Zenon DEF Left
    <2>3. AtPart(c)'
        BY <1>1, <1>3, <2>2 DEF AtPart, Handed
    <2>4. StreamOk(c)'
        BY <1>4, <2>1, <2>3 DEF StreamOk
    <2>5. ~Inside(c)' /\ ~(state'[c] \in {"MPS_FINISHED", "closed"})
        BY <2>1 DEF Inside
    <2>6. CASE part[c] = 0
        <3>1. ~Inside(c)
            BY <2>6 DEF Inside
        <3>2. UNCHANGED Events!vars
            BY <1>2, <1>3, <2>5, <3>1, NoEvent
        <3> QED
            BY <1>2, <2>4, <3>2, OthersKeepPlace DEF Step
    <2>7. CASE part[c] # 0
        <3>1. Inside(c)
            BY <1>3, <1>4, <2>7 DEF Inside
        <3>2. data[c] = form[c][part[c]]
            BY <1>1, <1>4, <2>7 DEF Handed
        <3>3. Events!EndPart(c)
            <4>1. [e \in Conns |-> Inside(e)]'
                    = [[e \in Conns |-> Inside(e)] EXCEPT ![c] = FALSE]
                BY <1>2, <2>5, EventsElsewhere
            <4>2. [e \in Conns |-> state[e] \in {"MPS_FINISHED", "closed"}]'
                    = [e \in Conns |-> state[e] \in {"MPS_FINISHED", "closed"}]
                BY <1>2, <1>3, <2>5, SameOver
            <4> QED
                BY <1>3, <3>1, <3>2, <4>1, <4>2
                DEF Events!EndPart, Events!Whole
        <3> QED
            BY <1>2, <2>4, <3>3, OthersKeepPlace DEF Step, Events!Next
    <2> QED
        BY <2>6, <2>7
<1> QED
    BY <1>5, <1>6 DEF ProcessBoundary

LEMMA SameInside ==
    ASSUME NEW c \in Conns, Elsewhere(c), Inside(c)' <=> Inside(c)
    PROVE  [e \in Conns |-> Inside(e)]' = [e \in Conns |-> Inside(e)]
<1>1. ASSUME NEW e \in Conns
      PROVE  Inside(e)' = Inside(e)
    <2>1. CASE e = c
        BY <2>1 DEF Inside
    <2>2. CASE e # c
        BY <2>2 DEF Inside, Elsewhere
    <2> QED
        BY <2>1, <2>2
<1> QED
    BY <1>1

LEMMA PartStep ==
    ASSUME TypeInv, StreamInv, NEW c \in Conns, BeginPart(c)
    PROVE  Step(c)
<1>1. AtPart(c)
    BY DEF StreamInv, StreamOk, BeginPart, Runs
<1>2. Elsewhere(c)
    BY RunsElsewhere DEF Continue
<1>3. /\ UNCHANGED <<form, rest, io>>
      /\ part' = [part EXCEPT ![c] = @ + 1]
      /\ data' = [data EXCEPT ![c] = <<>>]
      /\ state[c] = "between" /\ state'[c] = "MPS_WAITING_FOR_CHUNK"
    BY DEF BeginPart, Runs, Loop, TypeInv
<1>4. PICK f \in Seq(Seq(Bytes)) : f = form[c] /\ Len(f) \in Nat
    BY FormOf
<1>5. PICK k \in 1 .. Len(f) : k = part[c] + 1
    <2>1. part[c] + 1 \in 1 .. Len(f)
        BY <1>1, <1>4, FormOf DEF AtPart
    <2> QED
        BY <2>1
<1>6. /\ part'[c] = k /\ data'[c] = <<>> /\ form'[c] = f
      /\ part[c] + 2 = k + 1 /\ k > 0
    BY <1>3, <1>4, <1>5, FormOf DEF TypeInv
<1>7. PICK q \in Seq(Bytes) : q = f[k]
    BY PartOf
<1>8. InPart(c)'
    <2>1. <<>> \o q = q
        BY ConcatEmptySeq
    <2>2. Left(c)' = q \o (CRLF \o EncodeFrom(f)[k + 1])
        BY <1>1, <1>3, <1>4, <1>5, <1>6, <1>7 DEF AtPart, Left
    <2>3. RestOfPart(c, q)'
        BY <1>6, <1>7, <2>1, <2>2, Zenon DEF RestOfPart
    <2> QED
        BY <1>6, <2>3 DEF InPart
<1>9. StreamOk(c)'
    BY <1>3, <1>4, <1>6, <1>8 DEF StreamOk
<1>10. Events!BeginPart(c)
    <2>1. /\ ~Inside(c) /\ Inside(c)'
          /\ ~(state[c] \in {"MPS_FINISHED", "closed"})
          /\ ~(state'[c] \in {"MPS_FINISHED", "closed"})
        BY <1>3, <1>6 DEF Inside
    <2>2. [e \in Conns |-> Inside(e)]'
            = [[e \in Conns |-> Inside(e)] EXCEPT ![c] = TRUE]
        BY <1>2, <2>1, EventsElsewhere
    <2>3. [e \in Conns |-> state[e] \in {"MPS_FINISHED", "closed"}]'
            = [e \in Conns |-> state[e] \in {"MPS_FINISHED", "closed"}]
        BY <1>2, <2>1, SameOver
    <2>4. part[c] < Len(form[c])
        BY <1>1 DEF AtPart
    <2> QED
        BY <1>3, <2>1, <2>2, <2>3, <2>4 DEF Events!BeginPart
<1> QED
    BY <1>2, <1>9, <1>10, OthersKeepPlace DEF Step, Events!Next

LEMMA ChunkStep ==
    ASSUME TypeInv, Delimits, StreamInv, NEW c \in Conns, WaitForChunk(c)
    PROVE  Step(c)
<1>1. InPart(c) /\ part[c] <= Len(form[c]) /\ part[c] > 0
    BY DEF StreamInv, StreamOk, WaitForChunk, Runs, InPart
<1>2. Elsewhere(c)
    BY RunsElsewhere DEF Continue
<1>3. /\ UNCHANGED <<form, part>>
      /\ state[c] = "MPS_WAITING_FOR_CHUNK"
    BY DEF WaitForChunk, Runs
<1>4. data' = [data EXCEPT ![c] = data'[c]]
    BY DEF WaitForChunk, Deliver, TypeInv
<1>5. /\ IsPrefix(data[c], data'[c])
      /\ IsPrefix(data'[c], form[c][part[c]])
      /\ \/ state'[c] = "MPS_WAITING_FOR_CHUNK" /\ InPart(c)'
         \/ state'[c] = "MPS_WAITING_FOR_BOUNDARY" /\ AtBoundary(c)'
    BY <1>1, ChunkKeepsPlace
<1>6. StreamOk(c)'
    BY <1>1, <1>3, <1>5 DEF StreamOk
<1>7. Events!Data(c)
    <2>1. /\ Inside(c) /\ Inside(c)'
          /\ ~(state[c] \in {"MPS_FINISHED", "closed"})
          /\ ~(state'[c] \in {"MPS_FINISHED", "closed"})
        BY <1>1, <1>3, <1>5 DEF Inside
    <2>2. [e \in Conns |-> Inside(e)]' = [e \in Conns |-> Inside(e)]
        BY <1>2, <2>1, SameInside
    <2>3. [e \in Conns |-> state[e] \in {"MPS_FINISHED", "closed"}]'
            = [e \in Conns |-> state[e] \in {"MPS_FINISHED", "closed"}]
        BY <1>2, <2>1, SameOver
    <2>4. [e \in Conns |-> Inside(e)][c]
        BY <2>1
    <2>5. UNCHANGED <<
            form, part, [e \in Conns |-> Inside(e)],
            [e \in Conns |-> state[e] \in {"MPS_FINISHED", "closed"}]>>
        BY <1>3, <2>2, <2>3
    <2>6. /\ Events!IsPrefix(data[c], data'[c])
          /\ Events!IsPrefix(data'[c], form[c][part[c]])
        BY <1>5, Zenon DEF IsPrefix, Events!IsPrefix
    <2> QED
        BY <1>4, <2>4, <2>5, <2>6, Zenon DEF Events!Data
<1> QED
    BY <1>2, <1>6, <1>7, OthersKeepPlace DEF Step, Events!Next

LEMMA FinalStep ==
    ASSUME TypeInv, StreamInv, NEW c \in Conns, Finalize(c)
    PROVE  Step(c)
<1>1. Handed(c) /\ part[c] = Len(form[c]) /\ part[c] <= Len(form[c])
    BY DEF StreamInv, StreamOk, Finalize, Runs
<1>2. Elsewhere(c)
    BY RunsElsewhere DEF Continue
<1>3. /\ UNCHANGED <<form, part, data>>
      /\ state[c] = "MPS_FINALIZE" /\ state'[c] = "MPS_FINISHED"
    BY DEF Finalize, Runs, Return, TypeInv
<1>4. StreamOk(c)'
    BY <1>1, <1>3 DEF StreamOk
<1>5. Events!Finish(c)
    <2>1. /\ ~Inside(c)' /\ state'[c] \in {"MPS_FINISHED", "closed"}
          /\ ~(state[c] \in {"MPS_FINISHED", "closed"})
        BY <1>3 DEF Inside
    <2>2. /\ [e \in Conns |-> Inside(e)]'
                = [[e \in Conns |-> Inside(e)] EXCEPT ![c] = FALSE]
          /\ [e \in Conns |-> state[e] \in {"MPS_FINISHED", "closed"}]'
                = [[e \in Conns |-> state[e] \in {"MPS_FINISHED", "closed"}]
                    EXCEPT ![c] = TRUE]
        BY <1>2, <2>1, EventsElsewhere
    <2>3. Inside(c) => data[c] = form[c][part[c]]
        BY <1>1 DEF Handed, Inside
    <2> QED
        BY <1>1, <1>3, <2>1, <2>2, <2>3 DEF Events!Finish, Events!Whole
<1> QED
    BY <1>2, <1>4, <1>5, OthersKeepPlace DEF Step, Events!Next

LEMMA CloseStep ==
    ASSUME TypeInv, StreamInv, NEW c \in Conns, Close(c)
    PROVE  Step(c)
<1>1. part[c] <= Len(form[c])
    BY DEF StreamInv, StreamOk
<1>2. /\ UNCHANGED <<form, part, data>>
      /\ state'[c] = "closed"
      /\ \A e \in Conns \ {c} : UNCHANGED <<state[e], io[e], rest[e]>>
    BY DEF Close, TypeInv
<1>3. Elsewhere(c)
    BY <1>2 DEF Elsewhere
<1>4. StreamOk(c)'
    BY <1>1, <1>2 DEF StreamOk
<1>5. CASE state[c] = "MPS_FINISHED"
    <2>1. UNCHANGED Events!vars
        BY <1>2, <1>3, <1>5, NoEvent DEF Inside
    <2> QED
        BY <1>3, <1>4, <2>1, OthersKeepPlace DEF Step
<1>6. CASE state[c] # "MPS_FINISHED"
    <2>1. /\ ~Inside(c)' /\ state'[c] \in {"MPS_FINISHED", "closed"}
          /\ ~(state[c] \in {"MPS_FINISHED", "closed"})
        BY <1>2, <1>6 DEF Inside, Close
    <2>2. /\ [e \in Conns |-> Inside(e)]'
                = [[e \in Conns |-> Inside(e)] EXCEPT ![c] = FALSE]
          /\ [e \in Conns |-> state[e] \in {"MPS_FINISHED", "closed"}]'
                = [[e \in Conns |-> state[e] \in {"MPS_FINISHED", "closed"}]
                    EXCEPT ![c] = TRUE]
        BY <1>3, <2>1, EventsElsewhere
    <2>3. Events!Abort(c)
        BY <1>2, <2>1, <2>2 DEF Events!Abort
    <2> QED
        BY <1>3, <1>4, <2>3, OthersKeepPlace DEF Step, Events!Next
<1> QED
    BY <1>5, <1>6

LEMMA StreamInit == Init => StreamInv /\ Events!Init
<1> SUFFICES ASSUME Init
             PROVE  StreamInv /\ Events!Init
    OBVIOUS
<1>1. TypeInv
    BY UploadInit DEF UploadInv
<1>2. ASSUME NEW c \in Conns
      PROVE  StreamOk(c)
    <2>1. PICK f \in Seq(Seq(Bytes)) : f = form[c] /\ Len(f) \in Nat
        BY <1>1, FormOf
    <2>2. io[c] = <<>> /\ rest[c] = EncodeFrom(f)[1] /\ part[c] = 0
          /\ state[c] = "none"
        BY <2>1 DEF Init, Encode
    <2>3. 0 \in 0 .. Len(f) /\ 0 + 1 = 1
        BY <2>1
    <2>4. EncodeFrom(f)[1] = Dashes \o (Boundary \o Beyond(f, 0))
        BY <2>3, EncodeUpTo
    <2>5. Left(c) = rest[c]
        BY <1>1, <2>2, FormOf, ConcatEmptySeq DEF Left
    <2>6. AtBoundary(c)
        BY <2>1, <2>2, <2>4, <2>5 DEF AtBoundary, BoundaryAfter, Handed
    <2> QED
        BY <2>1, <2>2, <2>6 DEF StreamOk
<1>3. form \in [Conns -> Seq(Seq(STRING))]
    BY <1>1, UploadAssumption DEF TypeInv
<1>4. Events!Init
    <2>1. \A c \in Conns : Inside(c) = FALSE
        BY DEF Init, Inside
    <2>2. [c \in Conns |-> Inside(c)] = [c \in Conns |-> FALSE]
        BY <2>1
    <2>3. \A c \in Conns : (state[c] \in {"MPS_FINISHED", "closed"}) = FALSE
        BY DEF Init
    <2>4. [c \in Conns |-> state[c] \in {"MPS_FINISHED", "closed"}]
            = [c \in Conns |-> FALSE]
        BY <2>3
    <2>5. part = [c \in Conns |-> 0] /\ data = [c \in Conns |-> <<>>]
        BY DEF Init
    <2> QED
        BY <1>3, <2>2, <2>4, <2>5, Zenon DEF Events!Init
<1> QED
    BY <1>2, <1>4 DEF StreamInv

LEMMA StreamNext ==
    ASSUME UploadInv, StreamInv, Delimits, [Next]_vars
    PROVE  StreamInv' /\ [Events!Next]_(Events!vars)
<1>1. TypeInv
    BY DEF UploadInv
<1>2. ASSUME NEW c \in Conns, Step(c)
      PROVE  StreamInv' /\ [Events!Next]_(Events!vars)
    BY <1>2 DEF Step
<1>3. ASSUME NEW c \in Conns, NEW n \in ReadSizes[c] \cup {0}
      PROVE  n \in Nat
    BY UploadAssumption
<1>4. ASSUME NEW c \in Conns, NEW n \in ReadSizes[c] \cup {0}, Request(c, n)
      PROVE  Step(c)
    BY <1>1, <1>3, <1>4, RequestStep
<1>5. ASSUME NEW c \in Conns, NEW n \in ReadSizes[c], Recv(c, n)
      PROVE  Step(c)
    BY <1>1, <1>3, <1>5, RecvStep
<1>6. ASSUME NEW c \in Conns, Continue(c)
      PROVE  Step(c)
    BY <1>1, <1>6, BeginStep, WaitStep, HeaderStep, PartStep, ChunkStep,
       FinalStep DEF Continue
<1>7. ASSUME NEW c \in Conns, Close(c)
      PROVE  Step(c)
    BY <1>1, <1>7, CloseStep
<1>8. CASE UNCHANGED vars
    <2>1. UNCHANGED <<form, part, data, state, io, rest>>
        BY <1>8 DEF vars, streamVars
    <2>2. StreamInv'
        BY <2>1 DEF StreamInv, StreamOk, AtBoundary, BoundaryAfter, InBuffer,
                    AtPart, InPart, RestOfPart, Left, Handed
    <2>3. UNCHANGED Events!vars
        BY <2>1 DEF Events!vars, Inside
    <2> QED
        BY <2>2, <2>3
<1> QED
    BY <1>2, <1>4, <1>5, <1>6, <1>7, <1>8 DEF Next

(***************************************************************************)
(* However the bytes of requests are cut into reads, and for any number of *)
(* them, handle_upload is called as mongoose.h promises: part by part, and *)
(* of each part exactly its bytes.  It takes a boundary that occurs        *)
(* neither in a part nor across its end, which a client has to choose.     *)
(***************************************************************************)
THEOREM PartsAsPromised ==
    ASSUME Delimits
    PROVE  Spec => PartProtocol
<1>1. Init => UploadInv /\ StreamInv /\ Events!Init
    BY UploadInit, StreamInit
<1>2. UploadInv /\ StreamInv /\ [Next]_vars
        => /\ UploadInv' /\ StreamInv'
           /\ [Events!Next]_(Events!vars)
    BY UploadNext, StreamNext
<1> QED
    BY <1>1, <1>2, PTL DEF Spec, PartProtocol, Events!Spec
=============================================================================
