------------------------- MODULE ManagedFilesProofs -------------------------
(***************************************************************************)
(* Proofs about the documents wagglebot shares with an engineer: what      *)
(* rendering and removing the managed block do to any document             *)
(* (ManagedBlock), what joining lists of lists gives, what the merges of   *)
(* hooks, TOML categories and JSON servers do to files that fit their path *)
(* (HomeFiles, WriteMcp), and the runs in a repository that write such     *)
(* documents (ProjectUpdate).                                              *)
(***************************************************************************)
EXTENDS Provision, ProjectUpdate, LeastNumber, SequenceTheorems, TLAPS

-----------------------------------------------------------------------------
(* A marker is at most once in a document, or not at all.                  *)
Marker == {"begin", "end"}
MarkerFree(doc) == \A k \in Marker : Positions(doc, k) = {}
MarkersOnce(doc) == \A k \in Marker : \A i, j \in Positions(doc, k) : i = j

(* The least position is what its name says.                               *)
LEMMA LeastPosition ==
  ASSUME NEW S \in SUBSET Nat, S # {}
  PROVE  Least(S) \in S /\ \A i \in S : Least(S) <= i
BY LeastOf DEF Least

(* A position before which there is none is the least.                    *)
LEMMA LeastIs ==
  ASSUME NEW S \in SUBSET Nat, NEW m \in S, \A i \in S : m <= i
  PROVE  Least(S) = m
<1>1. Least(S) \in S /\ Least(S) <= m
  BY LeastPosition
<1>2. m <= Least(S) /\ m \in Nat /\ Least(S) \in Nat
  BY <1>1
<1> QED
  BY <1>1, <1>2

(* Three lines between two pieces of text.                                 *)
LEMMA LinesAround ==
  ASSUME NEW S, NEW b \in S, NEW c \in S, NEW e \in S, NEW h \in Seq(S), NEW t \in Seq(S)
  PROVE  LET out == (h \o <<b, c, e>>) \o t
             n == Len(h)
         IN  /\ n \in Nat /\ Len(t) \in Nat
             /\ out \in Seq(S) /\ Len(out) = n + 3 + Len(t)
             /\ \A i \in 1 .. n : out[i] = h[i]
             /\ out[n + 1] = b /\ out[n + 2] = c /\ out[n + 3] = e
             /\ \A i \in 1 .. Len(t) : out[n + 3 + i] = t[i]
<1> DEFINE B == <<b, c, e>>
           front == h \o B
           out == front \o t
           n == Len(h)
<1>1. B \in Seq(S) /\ Len(B) = 3 /\ B[1] = b /\ B[2] = c /\ B[3] = e
  OBVIOUS
<1>2. n \in Nat /\ Len(t) \in Nat
  BY LenProperties
<1> HIDE DEF B
<1>3. /\ front \in Seq(S) /\ Len(front) = n + 3
      /\ \A i \in 1 .. n + 3 : front[i] = IF i <= n THEN h[i] ELSE B[i - n]
  <2>1. /\ front \in Seq(S) /\ Len(front) = Len(h) + Len(B)
        /\ \A i \in 1 .. Len(h) + Len(B) :
             front[i] = IF i <= Len(h) THEN h[i] ELSE B[i - Len(h)]
    BY <1>1, ConcatProperties
  <2> HIDE DEF front
  <2> QED
    BY <1>1, <1>2, <2>1
<1>4. front[n + 1] = b /\ front[n + 2] = c /\ front[n + 3] = e
  BY <1>1, <1>2, <1>3
<1> HIDE DEF front
<1>5. /\ out \in Seq(S) /\ Len(out) = n + 3 + Len(t)
      /\ \A i \in 1 .. n + 3 + Len(t) : out[i] = IF i <= n + 3 THEN front[i] ELSE t[i - (n + 3)]
  <2>1. /\ out \in Seq(S) /\ Len(out) = Len(front) + Len(t)
        /\ \A i \in 1 .. Len(front) + Len(t) :
             out[i] = IF i <= Len(front) THEN front[i] ELSE t[i - Len(front)]
    <3>1. front \in Seq(S)
      BY <1>3
    <3> QED
      BY <3>1, ConcatProperties
  <2> HIDE DEF out
  <2> QED
    BY <1>2, <1>3, <2>1
<1> HIDE DEF out, n
<1>6. \A i \in 1 .. n : out[i] = h[i]
  BY <1>2, <1>3, <1>5
<1>7. out[n + 1] = b /\ out[n + 2] = c /\ out[n + 3] = e
  BY <1>2, <1>4, <1>5
<1>8. \A i \in 1 .. Len(t) : out[n + 3 + i] = t[i]
  <2> SUFFICES ASSUME NEW i \in 1 .. Len(t)
               PROVE  out[n + 3 + i] = t[i]
    OBVIOUS
  <2>1. n + 3 + i \in 1 .. n + 3 + Len(t) /\ ~(n + 3 + i <= n + 3) /\ (n + 3 + i) - (n + 3) = i
    BY <1>2
  <2> QED
    BY <1>5, <2>1
<1> QED
  BY <1>2, <1>5, <1>6, <1>7, <1>8 DEF out, n, front, B

(* A piece of a sequence, line by line.                                    *)
LEMMA PieceOf ==
  ASSUME NEW S, NEW s \in Seq(S), NEW t \in Seq(S), NEW m \in Nat,
         m + Len(t) <= Len(s), \A i \in 1 .. Len(t) : s[m + i] = t[i]
  PROVE  SubSeq(s, m + 1, m + Len(t)) = t
<1> DEFINE n == Len(t)
           piece == SubSeq(s, m + 1, m + n)
<1>1. n \in Nat /\ Len(s) \in Nat
  BY LenProperties
<1>2. \A i \in m + 1 .. m + n : s[i] \in S
  BY <1>1, ElementOfSeq
<1>3. /\ piece \in Seq(S)
      /\ Len(piece) = IF m + 1 <= m + n THEN (m + n) - (m + 1) + 1 ELSE 0
      /\ \A i \in 1 .. (m + n) - (m + 1) + 1 : piece[i] = s[(m + 1) + i - 1]
  BY <1>1, <1>2, SubSeqProperties
<1>4. Len(piece) = n /\ \A i \in 1 .. n : piece[i] = s[m + i]
  <2> HIDE DEF piece
  <2>1. Len(piece) = n
    BY <1>1, <1>3
  <2>2. ASSUME NEW i \in 1 .. n PROVE piece[i] = s[m + i]
    <3>1. i \in 1 .. (m + n) - (m + 1) + 1 /\ (m + 1) + i - 1 = m + i
      BY <1>1
    <3> QED
      BY <1>3, <3>1
  <2> QED
    BY <2>1, <2>2
<1> QED
  BY <1>3, <1>4, SeqEqual

(* Where the markers of a document with one block are.                     *)
LEMMA MarkersAround ==
  ASSUME NEW S, NEW b \in S, NEW c \in S, NEW e \in S, NEW h \in Seq(S), NEW t \in Seq(S),
         MarkerFree(h), b[1] = "begin", c[1] = "content", e[1] = "end"
  PROVE  LET out == (h \o <<b, c, e>>) \o t
         IN  /\ HasBlock(out) /\ ~Malformed(out)
             /\ Least(Positions(out, "begin")) = Len(h) + 1
             /\ Least(Positions(out, "end")) = Len(h) + 3
<1> DEFINE out == (h \o <<b, c, e>>) \o t
           n == Len(h)
<1>1. /\ n \in Nat /\ Len(t) \in Nat
      /\ out \in Seq(S) /\ Len(out) = n + 3 + Len(t)
      /\ \A i \in 1 .. n : out[i] = h[i]
      /\ out[n + 1] = b /\ out[n + 2] = c /\ out[n + 3] = e
  BY LinesAround
<1>2. DOMAIN out = 1 .. n + 3 + Len(t) /\ DOMAIN h = 1 .. n
  BY <1>1, LenProperties
<1> HIDE DEF out, n
<1>3. \A i \in 1 .. n : h[i][1] \notin Marker
  BY <1>2 DEF MarkerFree, Positions, Marker
<1>4. /\ Positions(out, "begin") \subseteq Nat /\ Positions(out, "end") \subseteq Nat
      /\ n + 1 \in Positions(out, "begin")
      /\ n + 3 \in Positions(out, "end")
  BY <1>1, <1>2 DEF Positions
<1>5. \A i \in Positions(out, "begin") : n + 1 <= i
  BY <1>1, <1>2, <1>3 DEF Positions, Marker
<1>6. ASSUME NEW i \in Positions(out, "end")
      PROVE  n + 3 <= i
  <2>1. i \in 1 .. n + 3 + Len(t) /\ out[i][1] = "end"
    BY <1>2 DEF Positions
  <2>2. i \notin 1 .. n
    BY <1>1, <1>3, <2>1 DEF Marker
  <2>3. i # n + 1 /\ i # n + 2
    BY <1>1, <2>1
  <2>4. i \in Nat
    BY <2>1
  <2> QED
    BY <1>1, <2>2, <2>3, <2>4, <2>1
<1>7. Least(Positions(out, "begin")) = n + 1
  BY <1>4, <1>5, LeastIs
<1>8. Least(Positions(out, "end")) = n + 3
  BY <1>4, <1>6, LeastIs
<1>9. HasBlock(out) /\ ~Malformed(out)
  BY <1>1, <1>4, <1>7, <1>8 DEF HasBlock, Malformed
<1> QED
  BY <1>7, <1>8, <1>9 DEF out, n

(* The lines of a block.                                                   *)
BlockLines(S, c) == <<"begin", "">> \in S /\ <<"content", c>> \in S /\ <<"end", "">> \in S

(* A block between two texts.                                              *)
Wrapped(h, c, t) == (h \o Block(c)) \o t

(* The first block of a document.                                          *)
BlockOf(doc) == SubSeq(doc, Least(Positions(doc, "begin")), Least(Positions(doc, "end")))

(* Around a block that is rendered after text without markers, the code    *)
(* finds exactly the text again, before and after it, and the block.       *)
LEMMA Around ==
  ASSUME NEW S, NEW c, BlockLines(S, c), NEW h \in Seq(S), NEW t \in Seq(S), MarkerFree(h)
  PROVE  /\ Wrapped(h, c, t) \in Seq(S)
         /\ HasBlock(Wrapped(h, c, t)) /\ ~Malformed(Wrapped(h, c, t))
         /\ Head1(Wrapped(h, c, t)) = h /\ Tail1(Wrapped(h, c, t)) = t
         /\ BlockOf(Wrapped(h, c, t)) = Block(c)
<1>1. PICK b \in S, m \in S, e \in S : /\ Block(c) = <<b, m, e>>
                                       /\ b[1] = "begin" /\ m[1] = "content" /\ e[1] = "end"
  BY DEF Block, BlockLines
<1> DEFINE out == (h \o <<b, m, e>>) \o t
           n == Len(h)
<1>2. /\ n \in Nat /\ Len(t) \in Nat
      /\ out \in Seq(S) /\ Len(out) = n + 3 + Len(t)
      /\ \A i \in 1 .. n : out[i] = h[i]
      /\ out[n + 1] = b /\ out[n + 2] = m /\ out[n + 3] = e
      /\ \A i \in 1 .. Len(t) : out[n + 3 + i] = t[i]
  BY LinesAround
<1>3. /\ HasBlock(out) /\ ~Malformed(out)
      /\ Least(Positions(out, "begin")) = n + 1
      /\ Least(Positions(out, "end")) = n + 3
  BY <1>1, MarkersAround
<1>4. <<b, m, e>> \in Seq(S) /\ Len(<<b, m, e>>) = 3
  OBVIOUS
<1>5. \A i \in 1 .. 3 : out[n + i] = <<b, m, e>>[i]
  <2> HIDE DEF out, n
  <2> QED
    BY <1>2
<1> HIDE DEF out
<1>6. Head1(out) = h
  <2>1. SubSeq(out, 0 + 1, 0 + Len(h)) = h
    <3>1. \A i \in 1 .. Len(h) : out[0 + i] = h[i]
      BY <1>2
    <3>2. 0 + Len(h) <= Len(out)
      BY <1>2
    <3> QED
      BY <1>2, <3>1, <3>2, PieceOf
  <2>2. 0 + 1 = 1 /\ 0 + Len(h) = Least(Positions(out, "begin")) - 1
    BY <1>2, <1>3
  <2> QED
    BY <2>1, <2>2 DEF Head1
<1>7. Tail1(out) = t
  <2>1. n + 3 \in Nat /\ (n + 3) + Len(t) = Len(out)
    BY <1>2
  <2> HIDE DEF n
  <2> DEFINE m3 == n + 3
  <2>2. m3 \in Nat /\ m3 + Len(t) <= Len(out) /\ \A i \in 1 .. Len(t) : out[m3 + i] = t[i]
    BY <1>2
  <2> HIDE DEF m3
  <2>3. SubSeq(out, m3 + 1, m3 + Len(t)) = t
    BY <1>2, <2>2, PieceOf
  <2> QED
    BY <1>3, <2>1, <2>3 DEF Tail1, m3
<1>8. SubSeq(out, n + 1, n + 3) = <<b, m, e>>
  <2> HIDE DEF n
  <2> DEFINE B == <<b, m, e>>
  <2>1. B \in Seq(S) /\ Len(B) = 3 /\ \A i \in 1 .. 3 : out[n + i] = B[i]
    BY <1>4, <1>5
  <2> HIDE DEF B
  <2>2. n + 3 <= Len(out)
    BY <1>2
  <2>3. SubSeq(out, n + 1, n + 3) = B
    BY <1>2, <2>1, <2>2, PieceOf
  <2> QED
    BY <2>3 DEF B
<1> QED
  <2>1. Wrapped(h, c, t) = out
    BY <1>1 DEF out, Wrapped
  <2> QED
    BY <1>1, <1>2, <1>3, <1>6, <1>7, <1>8, <2>1 DEF BlockOf

(* What is around the first block of a document that is not malformed: the *)
(* text before it has no marker, nor has the one after it if there is one  *)
(* block only.                                                             *)
LEMMA PartsOf ==
  ASSUME NEW S, NEW doc \in Seq(S), HasBlock(doc), ~Malformed(doc)
  PROVE  /\ Head1(doc) \in Seq(S) /\ Tail1(doc) \in Seq(S)
         /\ MarkerFree(Head1(doc))
         /\ MarkersOnce(doc) => MarkerFree(Tail1(doc))
<1> DEFINE b == Least(Positions(doc, "begin"))
           e == Least(Positions(doc, "end"))
           head == SubSeq(doc, 1, b - 1)
           tail == SubSeq(doc, e + 1, Len(doc))
<1>1. Len(doc) \in Nat /\ DOMAIN doc = 1 .. Len(doc)
  BY LenProperties
<1>2. /\ Positions(doc, "begin") \in SUBSET Nat /\ Positions(doc, "begin") # {}
      /\ Positions(doc, "end") \in SUBSET Nat /\ Positions(doc, "end") # {}
  BY <1>1 DEF HasBlock, Positions
<1>3. /\ b \in Positions(doc, "begin") /\ \A i \in Positions(doc, "begin") : b <= i
      /\ e \in Positions(doc, "end") /\ \A i \in Positions(doc, "end") : e <= i
  BY <1>2, LeastPosition
<1>4. b \in 1 .. Len(doc) /\ e \in 1 .. Len(doc) /\ b <= e
  <2>1. b \in 1 .. Len(doc) /\ e \in 1 .. Len(doc)
    BY <1>1, <1>3 DEF Positions
  <2>2. ~(e < b)
    BY DEF Malformed
  <2> QED
    BY <2>1, <2>2
<1> HIDE DEF b, e
<1>5. /\ head \in Seq(S) /\ Len(head) = b - 1
      /\ \A i \in 1 .. b - 1 : head[i] = doc[i]
  <2>1. \A i \in 1 .. b - 1 : doc[i] \in S
    BY <1>1, <1>4, ElementOfSeq
  <2>2. /\ head \in Seq(S)
        /\ Len(head) = IF 1 <= b - 1 THEN (b - 1) - 1 + 1 ELSE 0
        /\ \A i \in 1 .. (b - 1) - 1 + 1 : head[i] = doc[1 + i - 1]
    BY <1>4, <2>1, SubSeqProperties
  <2> HIDE DEF head
  <2> QED
    BY <1>4, <2>2
<1>6. /\ tail \in Seq(S) /\ Len(tail) = Len(doc) - e
      /\ \A i \in 1 .. Len(doc) - e : tail[i] = doc[e + i]
  <2>1. \A i \in e + 1 .. Len(doc) : doc[i] \in S
    BY <1>1, <1>4, ElementOfSeq
  <2>2. /\ tail \in Seq(S)
        /\ Len(tail) = IF e + 1 <= Len(doc) THEN Len(doc) - (e + 1) + 1 ELSE 0
        /\ \A i \in 1 .. Len(doc) - (e + 1) + 1 : tail[i] = doc[(e + 1) + i - 1]
    BY <1>1, <1>4, <2>1, SubSeqProperties
  <2> HIDE DEF head, tail
  <2>3. Len(tail) = Len(doc) - e
    <3>1. Len(doc) \in Nat /\ e \in Nat /\ e <= Len(doc)
      BY <1>1, <1>4
    <3>2. Len(tail) = IF e + 1 <= Len(doc) THEN Len(doc) - (e + 1) + 1 ELSE 0
      BY <2>2
    <3> QED
      BY <3>1, <3>2 DEF Wrapped
  <2>4. ASSUME NEW i \in 1 .. Len(doc) - e PROVE tail[i] = doc[e + i]
    <3>1. i \in 1 .. Len(doc) - (e + 1) + 1 /\ (e + 1) + i - 1 = e + i
      BY <1>1, <1>4
    <3> QED
      BY <2>2, <3>1
  <2> QED
    BY <2>2, <2>3, <2>4
<1>7. head = Head1(doc) /\ tail = Tail1(doc)
  BY DEF Head1, Tail1, b, e, head, tail
<1> HIDE DEF head, tail
<1>8. MarkerFree(head)
  <2> SUFFICES ASSUME NEW k \in Marker, NEW i \in Positions(head, k)
               PROVE  FALSE
    BY DEF MarkerFree
  <2>1. i \in 1 .. b - 1 /\ head[i][1] = k
    BY <1>5, LenProperties DEF Positions
  <2>2. i \in DOMAIN doc /\ doc[i][1] = k /\ i < b /\ i < e
    BY <1>1, <1>4, <1>5, <2>1
  <2>3. i \in Positions(doc, k)
    BY <2>2 DEF Positions
  <2>4. CASE k = "begin"
    BY <1>3, <1>4, <2>1, <2>2, <2>3, <2>4
  <2>5. CASE k = "end"
    BY <1>3, <1>4, <2>1, <2>2, <2>3, <2>5
  <2> QED
    BY <2>4, <2>5 DEF Marker
<1>9. ASSUME MarkersOnce(doc)
      PROVE  MarkerFree(tail)
  <2> SUFFICES ASSUME NEW k \in Marker, NEW i \in Positions(tail, k)
               PROVE  FALSE
    BY DEF MarkerFree
  <2>1. i \in 1 .. Len(doc) - e /\ tail[i][1] = k
    <3>1. DOMAIN tail = 1 .. Len(doc) - e
      BY <1>6, LenProperties
    <3> QED
      BY <3>1 DEF Positions
  <2>2. e + i \in DOMAIN doc /\ doc[e + i][1] = k /\ e < e + i /\ b < e + i
    BY <1>1, <1>4, <1>6, <2>1
  <2>3. e + i \in Positions(doc, k)
    BY <2>2 DEF Positions
  <2>4. \A j \in Positions(doc, k) : j = e + i
    BY <1>9, <2>3 DEF MarkersOnce
  <2>5. k = "begin" => b = e + i
    BY <1>3, <2>4
  <2>6. k = "end" => e = e + i
    BY <1>3, <2>4
  <2> QED
    BY <1>4, <2>1, <2>2, <2>5, <2>6 DEF Marker
<1> QED
  BY <1>5, <1>6, <1>7, <1>8, <1>9

(* Two texts without markers make one.                                     *)
LEMMA FreeTogether ==
  ASSUME NEW S, NEW h \in Seq(S), NEW t \in Seq(S), MarkerFree(h), MarkerFree(t)
  PROVE  h \o t \in Seq(S) /\ MarkerFree(h \o t)
<1> DEFINE out == h \o t
<1>1. /\ out \in Seq(S) /\ Len(out) = Len(h) + Len(t)
      /\ \A i \in 1 .. Len(h) + Len(t) : out[i] = IF i <= Len(h) THEN h[i] ELSE t[i - Len(h)]
  BY ConcatProperties
<1>2. Len(h) \in Nat /\ Len(t) \in Nat /\ DOMAIN h = 1 .. Len(h) /\ DOMAIN t = 1 .. Len(t)
  BY LenProperties
<1>3. DOMAIN out = 1 .. Len(h) + Len(t)
  BY <1>1, LenProperties
<1> HIDE DEF out
<1>4. ASSUME NEW i \in DOMAIN out
      PROVE  out[i][1] \notin Marker
  <2>1. CASE i <= Len(h)
    <3>1. i \in DOMAIN h /\ out[i] = h[i]
      BY <1>1, <1>2, <1>3, <2>1
    <3> QED
      BY <3>1 DEF MarkerFree, Positions
  <2>2. CASE ~(i <= Len(h))
    <3>1. i - Len(h) \in DOMAIN t /\ out[i] = t[i - Len(h)]
      BY <1>1, <1>2, <1>3, <2>2
    <3> QED
      BY <3>1 DEF MarkerFree, Positions
  <2> QED
    BY <2>1, <2>2
<1> QED
  BY <1>1, <1>4 DEF out, MarkerFree, Positions

(* A block between two such texts is the only one.                         *)
LEMMA OnceTogether ==
  ASSUME NEW S, NEW c, BlockLines(S, c), NEW h \in Seq(S), NEW t \in Seq(S),
         MarkerFree(h), MarkerFree(t)
  PROVE  MarkersOnce(Wrapped(h, c, t))
<1>1. PICK b \in S, m \in S, e \in S : /\ Block(c) = <<b, m, e>>
                                       /\ b[1] = "begin" /\ m[1] = "content" /\ e[1] = "end"
  BY DEF Block, BlockLines
<1> DEFINE out == (h \o <<b, m, e>>) \o t
           n == Len(h)
<1>2. /\ n \in Nat /\ Len(t) \in Nat
      /\ out \in Seq(S) /\ Len(out) = n + 3 + Len(t)
      /\ \A i \in 1 .. n : out[i] = h[i]
      /\ out[n + 1] = b /\ out[n + 2] = m /\ out[n + 3] = e
      /\ \A i \in 1 .. Len(t) : out[n + 3 + i] = t[i]
  BY LinesAround
<1>3. DOMAIN out = 1 .. n + 3 + Len(t) /\ DOMAIN h = 1 .. n /\ DOMAIN t = 1 .. Len(t)
  BY <1>2, LenProperties
<1> HIDE DEF out, n
<1>4. ASSUME NEW i \in DOMAIN out, out[i][1] \in Marker
      PROVE  (i = n + 1 /\ out[i][1] = "begin") \/ (i = n + 3 /\ out[i][1] = "end")
  <2>1. i \notin 1 .. n
    BY <1>2, <1>3, <1>4 DEF MarkerFree, Positions
  <2>2. ~(n + 3 < i)
    <3> SUFFICES ASSUME n + 3 < i PROVE FALSE
      OBVIOUS
    <3>1. i - (n + 3) \in 1 .. Len(t) /\ n + 3 + (i - (n + 3)) = i
      BY <1>2, <1>3
    <3>2. out[i] = t[i - (n + 3)]
      BY <1>2, <3>1
    <3> QED
      BY <1>3, <1>4, <3>1, <3>2 DEF MarkerFree, Positions
  <2>3. i # n + 2
    BY <1>1, <1>2, <1>4 DEF Marker
  <2>4. i = n + 1 \/ i = n + 3
    BY <1>2, <1>3, <2>1, <2>2, <2>3
  <2> QED
    BY <1>1, <1>2, <2>4
<1>5. MarkersOnce(out)
  BY <1>4 DEF MarkersOnce, Positions, Marker
<1> QED
  BY <1>1, <1>5 DEF out, Wrapped

(* A document without a block that is not malformed has no marker.         *)
LEMMA NoBlockNoMarker ==
  ASSUME NEW doc, ~HasBlock(doc), ~Malformed(doc)
  PROVE  MarkerFree(doc)
BY DEF HasBlock, Malformed, MarkerFree, Marker

(* Rendering leaves exactly one block, with what it was given, and every   *)
(* line around it.                                                         *)
LEMMA RenderKeepsTheRest ==
  ASSUME NEW S, NEW c, BlockLines(S, c), NEW doc \in Seq(S), ~Malformed(doc)
  PROVE  LET out == renderManagedBlock(doc, c)
         IN  /\ out \in Seq(S) /\ HasBlock(out)
             /\ outsideBlock(out) = outsideBlock(doc)
             /\ BlockOf(out) = Block(c)
             /\ MarkersOnce(doc) => MarkersOnce(out)
<1> DEFINE out == renderManagedBlock(doc, c)
           IsWritten(o) == /\ o \in Seq(S) /\ HasBlock(o)
                           /\ outsideBlock(o) = outsideBlock(doc)
                           /\ BlockOf(o) = Block(c)
                           /\ MarkersOnce(doc) => MarkersOnce(o)
<1> HIDE DEF out, IsWritten
<1>1. CASE HasBlock(doc)
  <2> DEFINE h == Head1(doc)
             t == Tail1(doc)
             o == Wrapped(h, c, t)
  <2>1. h \in Seq(S) /\ t \in Seq(S) /\ MarkerFree(h) /\ (MarkersOnce(doc) => MarkerFree(t))
    BY <1>1, PartsOf
  <2>2. out = o /\ outsideBlock(doc) = h \o t
    BY <1>1 DEF out, renderManagedBlock, outsideBlock, Wrapped
  <2> HIDE DEF h, t
  <2>3. /\ o \in Seq(S) /\ HasBlock(o) /\ ~Malformed(o)
        /\ Head1(o) = h /\ Tail1(o) = t
        /\ BlockOf(o) = Block(c)
    BY <2>1, Around
  <2>4. outsideBlock(o) = h \o t
    BY <2>3 DEF outsideBlock
  <2>5. MarkersOnce(doc) => MarkersOnce(o)
    BY <2>1, OnceTogether
  <2> HIDE DEF o
  <2>6. IsWritten(o)
    BY <2>2, <2>3, <2>4, <2>5 DEF IsWritten
  <2> QED
    BY <2>2, <2>6 DEF out, IsWritten
<1>2. CASE ~HasBlock(doc)
  <2> DEFINE none == SubSeq(doc, 1, 0)
             o == Wrapped(doc, c, none)
  <2>1. none = <<>> /\ <<>> \in Seq(S) /\ MarkerFree(doc) /\ MarkerFree(<<>>)
    <3>1. MarkerFree(<<>>)
      BY DEF MarkerFree, Positions
    <3> QED
      BY <1>2, <3>1, NoBlockNoMarker, SubSeqEmpty, EmptySeq
  <2>2. none \in Seq(S) /\ MarkerFree(none) /\ MarkerFree(doc)
    BY <2>1
  <2> HIDE DEF none
  <2>3. doc \o Block(c) \in Seq(S)
    <3>1. Block(c) \in Seq(S)
      <4>1. PICK b \in S, m \in S, e \in S : Block(c) = <<b, m, e>>
        BY DEF Block, BlockLines
      <4> QED
        BY <4>1
    <3> QED
      BY <3>1, ConcatProperties
  <2>4. out = o /\ outsideBlock(doc) = doc \o none
    <3>1. out = doc \o Block(c) /\ outsideBlock(doc) = doc
      BY <1>2 DEF out, renderManagedBlock, outsideBlock
    <3>2. (doc \o Block(c)) \o none = doc \o Block(c) /\ doc \o none = doc
      BY <2>1, <2>3, ConcatEmptySeq
    <3> QED
      BY <3>1, <3>2 DEF Wrapped
  <2>5. /\ o \in Seq(S) /\ HasBlock(o) /\ ~Malformed(o)
        /\ Head1(o) = doc /\ Tail1(o) = none
        /\ BlockOf(o) = Block(c)
    BY <2>2, Around
  <2>6. outsideBlock(o) = doc \o none
    BY <2>5 DEF outsideBlock
  <2>7. MarkersOnce(o)
    BY <2>2, OnceTogether
  <2> HIDE DEF o
  <2>8. IsWritten(o)
    BY <2>4, <2>5, <2>6, <2>7 DEF IsWritten
  <2> QED
    BY <2>4, <2>8 DEF out, IsWritten
<1> QED
  BY <1>1, <1>2

(* Removing leaves the same lines, and no block if there was one at most.  *)
LEMMA RemovalKeepsTheRest ==
  ASSUME NEW S, NEW doc \in Seq(S), ~Malformed(doc)
  PROVE  LET rest == removeManagedBlock(doc)
         IN  /\ rest \in Seq(S) /\ rest = outsideBlock(doc)
             /\ MarkersOnce(doc) => MarkerFree(rest)
<1>1. CASE HasBlock(doc)
  <2>1. /\ Head1(doc) \in Seq(S) /\ Tail1(doc) \in Seq(S) /\ MarkerFree(Head1(doc))
        /\ MarkersOnce(doc) => MarkerFree(Tail1(doc))
    BY <1>1, PartsOf
  <2>2. removeManagedBlock(doc) = Head1(doc) \o Tail1(doc)
    BY <1>1 DEF removeManagedBlock
  <2>3. outsideBlock(doc) = Head1(doc) \o Tail1(doc)
    BY <1>1 DEF outsideBlock
  <2>4. Head1(doc) \o Tail1(doc) \in Seq(S)
    BY <2>1, ConcatProperties
  <2>5. MarkersOnce(doc) => MarkerFree(Head1(doc) \o Tail1(doc))
    BY <2>1, FreeTogether
  <2> QED
    BY <2>2, <2>3, <2>4, <2>5
<1>2. CASE ~HasBlock(doc)
  BY <1>2, NoBlockNoMarker DEF removeManagedBlock, outsideBlock
<1> QED
  BY <1>1, <1>2

(* A text without markers has no block, and is all there is outside one.   *)
LEMMA FreeOfBlocks ==
  ASSUME NEW doc, MarkerFree(doc)
  PROVE  ~HasBlock(doc) /\ ~Malformed(doc) /\ outsideBlock(doc) = doc /\ MarkersOnce(doc)
<1>1. Positions(doc, "begin") = {} /\ Positions(doc, "end") = {}
  BY DEF MarkerFree, Marker
<1> QED
  BY <1>1 DEF HasBlock, Malformed, outsideBlock, MarkersOnce, Marker

-----------------------------------------------------------------------------
(* A list of lists joined from the left: what is joined after each.        *)
Joins(ss, h) == h[0] = <<>> /\ \A i \in 1 .. Len(ss) : h[i] = h[i - 1] \o ss[i]

(* The library's definition, unfolded.                                     *)
Flattens(ss, n, f) == f = [i \in 1 .. n |-> IF i = 1 THEN ss[i] ELSE f[i - 1] \o ss[i]]

(* What it has joined up to i.                                             *)
LEMMA FlattensAt ==
  ASSUME NEW ss, NEW n, NEW f, Flattens(ss, n, f), NEW i \in 1 .. n
  PROVE  f[i] = IF i = 1 THEN ss[i] ELSE f[i - 1] \o ss[i]
BY DEF Flattens

(* There is such a function for every list: the definition recurs on       *)
(* smaller indices only.                                                   *)
LEMMA FlattensExists ==
  ASSUME NEW ss, NEW n \in Nat
  PROVE  \E f : Flattens(ss, n, f)
<1> DEFINE Bad == {m \in Nat : ~\E f : Flattens(ss, m, f)}
<1> SUFFICES ASSUME Bad # {} PROVE FALSE
  OBVIOUS
<1>1. PICK m \in Bad : \A k \in Bad : m <= k
  BY LeastOf
<1>2. m # 0
  <2>1. Flattens(ss, 0, [i \in 1 .. 0 |-> ss[i]])
    BY DEF Flattens
  <2> QED
    BY <1>1, <2>1
<1>3. m - 1 \in Nat /\ m - 1 \notin Bad
  BY <1>1, <1>2
<1>4. PICK f : Flattens(ss, m - 1, f)
  BY <1>3
<1> DEFINE g == [i \in 1 .. m |-> IF i = 1 THEN ss[i] ELSE f[i - 1] \o ss[i]]
<1>5. m \in Nat \ {0}
  BY <1>1, <1>2
<1> HIDE DEF Bad
<1>6. \A i \in 1 .. m - 1 : g[i] = f[i]
  <2> SUFFICES ASSUME NEW i \in 1 .. m - 1 PROVE g[i] = f[i]
    OBVIOUS
  <2>1. f[i] = IF i = 1 THEN ss[i] ELSE f[i - 1] \o ss[i]
    BY <1>4, FlattensAt
  <2>2. i \in 1 .. m
    BY <1>5
  <2> QED
    BY <2>1, <2>2
<1>7. Flattens(ss, m, g)
  <2>1. \A i \in 1 .. m : i # 1 => i - 1 \in 1 .. m - 1
    BY <1>5
  <2> QED
    BY <1>6, <2>1 DEF Flattens
<1> QED
  BY <1>1, <1>7 DEF Bad

(* The library joins with a function of that kind.                         *)
LEMMA FlattenSeqIs ==
  ASSUME NEW ss, Len(ss) \in Nat \ {0}
  PROVE  \E f : Flattens(ss, Len(ss), f) /\ FlattenSeq(ss) = f[Len(ss)]
<1> DEFINE f == CHOOSE f : Flattens(ss, Len(ss), f)
<1>1. Flattens(ss, Len(ss), f)
  BY FlattensExists
<1>2. FlattenSeq(ss) = f[Len(ss)]
  BY DEF FlattenSeq, Flattens
<1> QED
  BY <1>1, <1>2

(* Whatever joins the lists one by one is what the library returns.        *)
LEMMA JoinsAre ==
  ASSUME NEW S, NEW ss \in Seq(Seq(S)), NEW h, Joins(ss, h)
  PROVE  FlattenSeq(ss) = h[Len(ss)] /\ \A i \in 0 .. Len(ss) : h[i] \in Seq(S)
<1> DEFINE n == Len(ss)
<1>1. n \in Nat /\ DOMAIN ss = 1 .. n /\ \A i \in 1 .. n : ss[i] \in Seq(S)
  BY LenProperties, ElementOfSeq
<1> HIDE DEF n
<1>2. h[0] = <<>> /\ \A i \in 1 .. n : h[i] = h[i - 1] \o ss[i]
  BY DEF Joins, n
<1>3. ASSUME NEW i \in 0 .. n
      PROVE  h[i] \in Seq(S)
  <2> DEFINE Bad == {k \in 0 .. n : h[k] \notin Seq(S)}
  <2> SUFFICES ASSUME Bad # {} PROVE FALSE
    OBVIOUS
  <2>1. Bad \in SUBSET Nat
    BY <1>1
  <2>2. PICK m \in Bad : \A k \in Bad : m <= k
    BY <2>1, LeastOf
  <2>3. m \in 0 .. n /\ h[m] \notin Seq(S)
    BY <2>2
  <2>4. m # 0
    BY <1>2, <2>3, EmptySeq
  <2>5. m \in 1 .. n /\ m - 1 \in 0 .. n /\ ~(m <= m - 1)
    BY <1>1, <2>3, <2>4
  <2>6. h[m - 1] \in Seq(S)
    BY <2>2, <2>5
  <2>7. h[m - 1] \o ss[m] \in Seq(S)
    BY <1>1, <2>5, <2>6, ConcatProperties
  <2> QED
    BY <1>2, <2>3, <2>5, <2>7
<1>4. CASE n = 0
  <2>1. ss = <<>>
    BY <1>1, <1>4, EmptySeq DEF n
  <2>2. FlattenSeq(ss) = ss
    BY <1>4 DEF FlattenSeq, n
  <2> QED
    BY <1>2, <1>3, <1>4, <2>1, <2>2 DEF n
<1>5. CASE n # 0
  <2>1. PICK f : Flattens(ss, n, f) /\ FlattenSeq(ss) = f[n]
    BY <1>1, <1>5, FlattenSeqIs DEF n
  <2> DEFINE Bad == {k \in 1 .. n : f[k] # h[k]}
  <2>2. Bad = {}
    <3> SUFFICES ASSUME Bad # {} PROVE FALSE
      OBVIOUS
    <3>1. Bad \in SUBSET Nat
      BY <1>1
    <3>2. PICK m \in Bad : \A k \in Bad : m <= k
      BY <3>1, LeastOf
    <3>3. m \in 1 .. n /\ f[m] # h[m]
      BY <3>2
    <3>0. f[m] = IF m = 1 THEN ss[m] ELSE f[m - 1] \o ss[m]
      <4> HIDE DEF Bad
      <4> QED
        BY <2>1, <3>3, FlattensAt
    <3>4. CASE m = 1
      <4>1. f[m] = ss[m] /\ m - 1 = 0
        BY <3>0, <3>4
      <4>2. h[m] = h[m - 1] \o ss[m] /\ ss[m] \in Seq(S)
        <5> HIDE DEF Bad
        <5> QED
          BY <1>1, <1>2, <3>3
      <4>3. h[m] = <<>> \o ss[m]
        BY <1>2, <4>1, <4>2
      <4>4. <<>> \o ss[m] = ss[m]
        BY <4>2, ConcatEmptySeq
      <4> QED
        BY <3>3, <4>1, <4>3, <4>4
    <3>5. CASE m # 1
      <4>1. m - 1 \in 1 .. n /\ ~(m <= m - 1)
        BY <1>1, <3>3, <3>5
      <4>2. f[m - 1] = h[m - 1]
        BY <3>2, <4>1
      <4>3. f[m] = f[m - 1] \o ss[m]
        BY <3>5, <3>0
      <4> QED
        BY <1>2, <3>3, <4>2, <4>3
    <3> QED
      BY <3>4, <3>5
  <2>3. n \in 1 .. n
    BY <1>1, <1>5
  <2> QED
    BY <1>3, <2>1, <2>2, <2>3 DEF n
<1> QED
  BY <1>4, <1>5

(* Something joins them one by one.                                        *)
LEMMA JoinsExist ==
  ASSUME NEW S, NEW ss \in Seq(Seq(S))
  PROVE  \E h : Joins(ss, h)
<1> DEFINE n == Len(ss)
<1>1. n \in Nat /\ DOMAIN ss = 1 .. n /\ \A i \in 1 .. n : ss[i] \in Seq(S)
  BY LenProperties, ElementOfSeq
<1> HIDE DEF n
<1>2. PICK f : Flattens(ss, n, f)
  BY <1>1, FlattensExists
<1> DEFINE h == [i \in 0 .. n |-> IF i = 0 THEN <<>> ELSE f[i]]
<1>3. ASSUME NEW i \in 1 .. n
      PROVE  h[i] = h[i - 1] \o ss[i]
  <2>0. f[i] = IF i = 1 THEN ss[i] ELSE f[i - 1] \o ss[i]
    <3> HIDE DEF h
    <3> QED
      BY <1>2, FlattensAt
  <2>1. CASE i = 1
    <3>1. h[i] = ss[1] /\ h[i - 1] = <<>>
      BY <1>1, <2>0, <2>1
    <3> QED
      BY <1>1, <2>1, <3>1, ConcatEmptySeq
  <2>2. CASE i # 1
    <3>1. i - 1 \in 1 .. n /\ i - 1 # 0
      BY <1>1, <2>2
    <3> QED
      BY <1>1, <2>0, <2>2, <3>1
  <2> QED
    BY <2>1, <2>2
<1>4. h[0] = <<>>
  BY <1>1
<1> HIDE DEF h
<1> QED
  BY <1>3, <1>4 DEF Joins, n

-----------------------------------------------------------------------------
(* A file that can be at a path; for `once`, a TOML file has at most one   *)
(* marker of a kind, which is what makes its block come out in one piece.  *)
FitsTo(once, p, file) ==
  Fits(p, file) /\ (once /\ p \in TomlPaths => MarkersOnce(file))

(* The lines of a document are the least set they are all in.              *)
LEMMA LinesOf ==
  ASSUME NEW S, NEW doc \in Seq(S)
  PROVE  Lines(doc) \subseteq S /\ doc \in Seq(Lines(doc))
<1>1. Len(doc) \in Nat /\ DOMAIN doc = 1 .. Len(doc) /\ \A k \in 1 .. Len(doc) : doc[k] \in S
  BY LenProperties, ElementOfSeq
<1>2. Lines(doc) \subseteq S
  BY <1>1 DEF Lines
<1>3. doc = [k \in 1 .. Len(doc) |-> doc[k]]
  OBVIOUS
<1>4. \A k \in 1 .. Len(doc) : doc[k] \in Lines(doc)
  BY <1>1 DEF Lines
<1>5. doc \in Seq(Lines(doc))
  <2> DEFINE T == Lines(doc)
             n == Len(doc)
  <2> HIDE DEF T
  <2>1. \A k \in 1 .. n : doc[k] \in T
    BY <1>4 DEF T
  <2> HIDE DEF n
  <2>2. n \in Nat /\ doc = [k \in 1 .. n |-> doc[k]]
    BY <1>1, <1>3 DEF n
  <2>3. doc \in [1 .. n -> T]
    BY <2>1, <2>2
  <2> QED
    BY <2>2, <2>3 DEF T
<1> QED
  BY <1>2, <1>5

(* What may be between the markers of a file: anything, or the servers     *)
(* with their credentials.                                                 *)
ContentFits(p, c) == p \in TomlPaths => \A ns \in DOMAIN c : CarriesIts(c[ns])

(* Lines that each fit make a file that fits.                              *)
LEMMA TextFitsIs ==
  ASSUME NEW p, NEW S, NEW doc \in Seq(S),
         \A line \in S : /\ line[1] \in LineKinds
                         /\ line[1] = "content" => ContentFits(p, line[2])
  PROVE  TextFits(p, doc)
<1>1. Lines(doc) \subseteq S /\ doc \in Seq(Lines(doc))
  BY LinesOf
<1> QED
  BY <1>1 DEF TextFits, ContentFits

(* The set the lines of a file and of its new block are from.              *)
LEMMA BlockFits ==
  ASSUME NEW p, NEW doc, doc = <<>> \/ TextFits(p, doc), NEW c, ContentFits(p, c)
  PROVE  \E S : /\ BlockLines(S, c) /\ doc \in Seq(S)
                /\ \A line \in S : /\ line[1] \in LineKinds
                                   /\ line[1] = "content" => ContentFits(p, line[2])
<1> DEFINE L == IF doc = <<>> THEN {} ELSE Lines(doc)
           S == L \cup {<<"begin", "">>, <<"content", c>>, <<"end", "">>}
<1>1. BlockLines(S, c)
  BY DEF BlockLines
<1>2. doc \in Seq(L)
  <2>1. CASE doc = <<>>
    BY <2>1, EmptySeq
  <2>2. CASE doc # <<>>
    BY <2>2 DEF TextFits
  <2> QED
    BY <2>1, <2>2
<1>3. \A line \in L : /\ line[1] \in LineKinds
                      /\ line[1] = "content" => ContentFits(p, line[2])
  BY DEF TextFits, ContentFits
<1>4. ASSUME NEW line \in S
      PROVE  /\ line[1] \in LineKinds
             /\ line[1] = "content" => ContentFits(p, line[2])
  <2>1. CASE line \in L
    BY <1>3, <2>1
  <2>2. CASE line = <<"content", c>>
    <3>1. line[1] = "content" /\ line[2] = c
      BY <2>2
    <3> QED
      BY <3>1 DEF LineKinds
  <2>3. CASE line = <<"begin", "">>
    <3>1. line[1] = "begin"
      BY <2>3
    <3> QED
      BY <3>1 DEF LineKinds
  <2>4. CASE line = <<"end", "">>
    <3>1. line[1] = "end"
      BY <2>4
    <3> QED
      BY <3>1 DEF LineKinds
  <2> QED
    BY <1>4, <2>1, <2>2, <2>3, <2>4
<1>5. doc \in Seq(S)
  <2> HIDE DEF L
  <2>1. L \subseteq S
    OBVIOUS
  <2> HIDE DEF S
  <2>2. Len(doc) \in Nat /\ DOMAIN doc = 1 .. Len(doc) /\ \A k \in 1 .. Len(doc) : doc[k] \in L
    BY <1>2, LenProperties, ElementOfSeq
  <2>3. doc \in [1 .. Len(doc) -> S]
    <3>1. doc \in [1 .. Len(doc) -> L]
      BY <1>2, LenProperties
    <3> QED
      BY <2>1, <3>1
  <2> QED
    BY <2>2, <2>3
<1> QED
  BY <1>1, <1>4, <1>5

(* A managed block is rendered into a file that fits.                      *)
LEMMA RenderFits ==
  ASSUME NEW once, NEW p \in TextPaths \cup TomlPaths, NEW doc, ~Malformed(doc),
         doc = <<>> \/ FitsTo(once, p, doc), NEW c, ContentFits(p, c)
  PROVE  /\ FitsTo(once, p, renderManagedBlock(doc, c))
         /\ outsideBlock(renderManagedBlock(doc, c)) = outsideBlock(doc)
<1>1. doc = <<>> \/ TextFits(p, doc)
  BY DEF FitsTo, Fits, IsBlock
<1>2. PICK S : /\ BlockLines(S, c) /\ doc \in Seq(S)
               /\ \A line \in S : /\ line[1] \in LineKinds
                                  /\ line[1] = "content" => ContentFits(p, line[2])
  BY <1>1, BlockFits
<1> DEFINE out == renderManagedBlock(doc, c)
<1>3. /\ out \in Seq(S)
      /\ outsideBlock(out) = outsideBlock(doc)
      /\ MarkersOnce(doc) => MarkersOnce(out)
  BY <1>2, RenderKeepsTheRest
<1> HIDE DEF out
<1>4. TextFits(p, out)
  BY <1>2, <1>3, TextFitsIs
<1>5. ~IsJson(p)
  BY HarnessTable DEF IsJson
<1>6. doc = <<>> => MarkersOnce(doc)
  BY DEF MarkersOnce, Positions
<1>7. once /\ p \in TomlPaths => MarkersOnce(out)
  BY <1>3, <1>6 DEF FitsTo
<1> QED
  BY <1>3, <1>4, <1>5, <1>7 DEF FitsTo, Fits, out

(* And removed from one.                                                   *)
LEMMA RemovalFits ==
  ASSUME NEW once, NEW p \in TextPaths \cup TomlPaths, NEW doc, ~Malformed(doc),
         doc = <<>> \/ FitsTo(once, p, doc)
  PROVE  /\ FitsTo(once, p, removeManagedBlock(doc))
         /\ once /\ p \in TomlPaths =>
              outsideBlock(removeManagedBlock(doc)) = outsideBlock(doc)
<1> DEFINE out == removeManagedBlock(doc)
<1>1. doc = <<>> \/ TextFits(p, doc)
  BY DEF FitsTo, Fits, IsBlock
<1>2. PICK S : doc \in Seq(S) /\ \A line \in S : /\ line[1] \in LineKinds
                                                 /\ line[1] = "content" => ContentFits(p, line[2])
  <2>1. CASE doc = <<>>
    <3>1. doc \in Seq({}) /\ \A line \in {} : FALSE
      BY <2>1, EmptySeq
    <3> QED
      BY <3>1
  <2>2. CASE doc # <<>>
    <3>1. doc \in Seq(Lines(doc)) /\ \A line \in Lines(doc) :
             line[1] \in LineKinds /\ (line[1] = "content" => ContentFits(p, line[2]))
      BY <1>1, <2>2 DEF TextFits, ContentFits
    <3> QED
      BY <3>1
  <2> QED
    BY <2>1, <2>2
<1>3. /\ out \in Seq(S) /\ out = outsideBlock(doc)
      /\ MarkersOnce(doc) => MarkerFree(out)
  BY <1>2, RemovalKeepsTheRest
<1> HIDE DEF out
<1>4. TextFits(p, out)
  BY <1>2, <1>3, TextFitsIs
<1>5. ~IsJson(p)
  BY HarnessTable DEF IsJson
<1>6. doc = <<>> => MarkersOnce(doc)
  BY DEF MarkersOnce, Positions
<1>7. once /\ p \in TomlPaths => MarkersOnce(out) /\ outsideBlock(out) = outsideBlock(doc)
  BY <1>3, <1>6, FreeOfBlocks DEF FitsTo
<1> QED
  BY <1>4, <1>5, <1>7 DEF FitsTo, Fits, out

-----------------------------------------------------------------------------
(* With --overwrite-local, the TOML file keeps the lines that are of no    *)
(* server, and gets a block of its own.                                    *)
LEMMA CategoryFits ==
  ASSUME NEW once, NEW p \in TomlPaths, NEW doc, doc = <<>> \/ FitsTo(once, p, doc),
         NEW c, ContentFits(p, c), NEW block \in {<<>>, Block(c)}
  PROVE  FitsTo(once, p, removeTomlCategory(doc) \o block)
<1>1. doc = <<>> \/ TextFits(p, doc)
  BY DEF FitsTo, Fits, IsBlock
<1>2. PICK S : /\ BlockLines(S, c) /\ doc \in Seq(S)
               /\ \A line \in S : /\ line[1] \in LineKinds
                                  /\ line[1] = "content" => ContentFits(p, line[2])
  BY <1>1, BlockFits
<1> DEFINE R == {line \in S : Foreign(line)}
           Kept(line) == IF Foreign(line) THEN <<line>> ELSE <<>>
           ss == [k \in DOMAIN doc |-> Kept(doc[k])]
           rest == removeTomlCategory(doc)
           n == Len(doc)
<1>3. n \in Nat /\ DOMAIN doc = 1 .. n /\ \A k \in 1 .. n : doc[k] \in S
  BY <1>2, LenProperties, ElementOfSeq
<1>4. ss \in Seq(Seq(R))
  <2>1. ASSUME NEW k \in 1 .. n
        PROVE  Kept(doc[k]) \in Seq(R)
    <3>1. CASE Foreign(doc[k])
      <4>1. doc[k] \in R
        BY <1>3, <2>1, <3>1
      <4> HIDE DEF R
      <4> QED
        BY <3>1, <4>1
    <3>2. CASE ~Foreign(doc[k])
      BY <3>2, EmptySeq
    <3> QED
      BY <3>1, <3>2
  <2> HIDE DEF R, Kept, n
  <2> QED
    BY <1>3, <2>1
<1>5. rest = FlattenSeq(ss)
  BY DEF removeTomlCategory
<1> HIDE DEF ss, rest
<1>6. PICK h : Joins(ss, h)
  BY <1>4, JoinsExist
<1>7. FlattenSeq(ss) = h[Len(ss)] /\ \A i \in 0 .. Len(ss) : h[i] \in Seq(R)
  BY <1>4, <1>6, JoinsAre
<1>8. Len(ss) \in 0 .. Len(ss)
  BY <1>4, LenProperties
<1>9. rest \in Seq(R)
  BY <1>5, <1>7, <1>8
<1>10. MarkerFree(rest)
  <2>1. \A k \in DOMAIN rest : rest[k] \in R
    <3> HIDE DEF R
    <3> QED
      BY <1>9, ElementOfSeq, LenProperties
  <2>2. \A line \in R : line[1] # "begin" /\ line[1] # "end"
    BY DEF Foreign
  <2> QED
    BY <2>1, <2>2 DEF MarkerFree, Marker, Positions
<1>11. Lines(rest) \subseteq R /\ rest \in Seq(Lines(rest))
  BY <1>9, LinesOf
<1>12. rest \in Seq(S)
  <2>1. R \subseteq S
    OBVIOUS
  <2> HIDE DEF R
  <2>2. Len(rest) \in Nat /\ rest \in [1 .. Len(rest) -> R]
    BY <1>9, LenProperties
  <2>3. rest \in [1 .. Len(rest) -> S]
    BY <2>1, <2>2
  <2> QED
    BY <2>2, <2>3
<1> HIDE DEF R
<1>13. /\ rest \o block \in Seq(S)
       /\ MarkersOnce(rest \o block)
  <2>1. CASE block = <<>>
    <3>1. rest \o block = rest
      BY <1>12, <2>1, ConcatEmptySeq
    <3> QED
      BY <1>10, <1>12, <3>1, FreeOfBlocks
  <2>2. CASE block = Block(c)
    <3>1. /\ <<>> \in Seq(S) /\ MarkerFree(<<>>)
      BY EmptySeq DEF MarkerFree, Positions
    <3>2. Wrapped(rest, c, <<>>) \in Seq(S) /\ MarkersOnce(Wrapped(rest, c, <<>>))
      BY <1>2, <1>10, <1>12, <3>1, Around, OnceTogether
    <3>3. Wrapped(rest, c, <<>>) = rest \o block
      <4>1. Block(c) \in Seq(S)
        <5>1. PICK b \in S, m \in S, e \in S : Block(c) = <<b, m, e>>
          BY <1>2 DEF Block, BlockLines
        <5> QED
          BY <5>1
      <4>2. rest \o Block(c) \in Seq(S)
        BY <1>12, <4>1, ConcatProperties
      <4> QED
        BY <2>2, <4>2, ConcatEmptySeq DEF Wrapped
    <3> QED
      BY <3>2, <3>3
  <2> QED
    BY <2>1, <2>2
<1>14. TextFits(p, rest \o block)
  BY <1>2, <1>13, TextFitsIs
<1>15. ~IsJson(p)
  BY HarnessTable DEF IsJson
<1> QED
  BY <1>13, <1>14, <1>15 DEF FitsTo, Fits, rest

-----------------------------------------------------------------------------
(* The engineer's hooks among hooks.                                       *)
Mine1(hooks) == FlattenSeq([i \in DOMAIN hooks |-> MyHook(hooks[i])])

(* They come one by one.                                                   *)
LEMMA MineJoins ==
  ASSUME NEW T, NEW hooks \in Seq(T)
  PROVE  /\ [i \in DOMAIN hooks |-> MyHook(hooks[i])] \in Seq(Seq({x[2] : x \in T}))
         /\ Len([i \in DOMAIN hooks |-> MyHook(hooks[i])]) = Len(hooks)
<1> DEFINE V == {x[2] : x \in T}
           n == Len(hooks)
<1>1. n \in Nat /\ DOMAIN hooks = 1 .. n /\ \A k \in 1 .. n : hooks[k] \in T
  BY LenProperties, ElementOfSeq
<1>2. ASSUME NEW k \in 1 .. n
      PROVE  MyHook(hooks[k]) \in Seq(V)
  <2>1. hooks[k][2] \in V
    BY <1>1
  <2> HIDE DEF V
  <2> QED
    BY <2>1, EmptySeq DEF MyHook
<1> HIDE DEF V, n
<1>3. [i \in 1 .. n |-> MyHook(hooks[i])] \in [1 .. n -> Seq(V)]
  BY <1>2
<1>4. [i \in 1 .. n |-> MyHook(hooks[i])] \in Seq(Seq(V))
  BY <1>1, <1>3
<1>5. Len([i \in 1 .. n |-> MyHook(hooks[i])]) = n
  BY <1>1
<1> QED
  BY <1>1, <1>4, <1>5 DEF V, n

(* What is left of a list of hooks is a list of the hooks in it.           *)
LEMMA MineIsSeq ==
  ASSUME NEW T, NEW hooks \in Seq(T)
  PROVE  Mine1(hooks) \in Seq({x[2] : x \in T})
<1> DEFINE V == {x[2] : x \in T}
           ss == [i \in DOMAIN hooks |-> MyHook(hooks[i])]
<1>1. ss \in Seq(Seq(V))
  BY MineJoins
<1> HIDE DEF ss, V
<1>2. PICK h : Joins(ss, h)
  BY <1>1, JoinsExist
<1>3. Len(ss) \in 0 .. Len(ss)
  BY <1>1, LenProperties
<1> QED
  BY <1>1, <1>2, <1>3, JoinsAre DEF Mine1, ss, V

(* One more hook adds at most itself.                                      *)
LEMMA MineAfter ==
  ASSUME NEW T, NEW hooks \in Seq(T), NEW x \in T
  PROVE  Mine1(hooks \o <<x>>) = Mine1(hooks) \o MyHook(x)
<1> DEFINE V == {y[2] : y \in T}
           n == Len(hooks)
           more == hooks \o <<x>>
           ss == [i \in DOMAIN hooks |-> MyHook(hooks[i])]
           tt == [i \in DOMAIN more |-> MyHook(more[i])]
<1>1. n \in Nat /\ DOMAIN hooks = 1 .. n
  BY LenProperties
<1>2. /\ more \in Seq(T) /\ Len(more) = n + 1 /\ DOMAIN more = 1 .. n + 1
      /\ more[n + 1] = x /\ \A i \in 1 .. n : more[i] = hooks[i]
  <2>1. <<x>> \in Seq(T) /\ Len(<<x>>) = 1 /\ <<x>>[1] = x
    OBVIOUS
  <2> HIDE DEF n
  <2>2. /\ more \in Seq(T) /\ Len(more) = n + 1
        /\ \A i \in 1 .. n + 1 : more[i] = IF i <= n THEN hooks[i] ELSE <<x>>[i - n]
    BY <1>1, <2>1, ConcatProperties DEF n
  <2>3. DOMAIN more = 1 .. n + 1
    BY <2>2, LenProperties
  <2>4. more[n + 1] = <<x>>[(n + 1) - n] /\ (n + 1) - n = 1
    BY <1>1, <2>2
  <2> QED
    BY <1>1, <2>1, <2>2, <2>3, <2>4
<1> HIDE DEF more
<1>3. ss \in Seq(Seq(V)) /\ Len(ss) = n /\ tt \in Seq(Seq(V)) /\ Len(tt) = n + 1
  BY <1>2, MineJoins
<1>4. /\ \A i \in 1 .. n : tt[i] = ss[i]
      /\ tt[n + 1] = MyHook(x)
  BY <1>1, <1>2
<1> HIDE DEF ss, tt, n, V
<1>5. PICK h : Joins(tt, h)
  BY <1>3, JoinsExist
<1>6. Joins(ss, h)
  <2>1. ASSUME NEW i \in 1 .. n
        PROVE  h[i] = h[i - 1] \o ss[i]
    <3>1. i \in 1 .. Len(tt)
      BY <1>1, <1>3
    <3>2. h[i] = h[i - 1] \o tt[i]
      BY <1>5, <3>1 DEF Joins
    <3> QED
      BY <1>4, <3>2
  <2> QED
    BY <1>3, <1>5, <2>1 DEF Joins
<1>7. FlattenSeq(tt) = h[n + 1] /\ FlattenSeq(ss) = h[n]
  BY <1>3, <1>5, <1>6, JoinsAre
<1>8. h[n + 1] = h[n] \o tt[n + 1]
  <2>1. n + 1 \in 1 .. Len(tt) /\ (n + 1) - 1 = n
    BY <1>1, <1>3
  <2> QED
    BY <1>5, <2>1 DEF Joins
<1> QED
  BY <1>4, <1>7, <1>8 DEF Mine1, ss, tt, more

(* Merging wagglebot's hook leaves the engineer's hooks and their order.   *)
LEMMA HooksMerge ==
  ASSUME NEW S, NEW hooks \in Seq(S), NEW entry, entry[1] = "marked"
  PROVE  /\ \E T : mergeHookEntries(hooks, entry) \in Seq(T)
         /\ Mine1(mergeHookEntries(hooks, entry)) = Mine1(hooks)
<1> DEFINE T == {<<"mine", x[2]>> : x \in S} \cup {entry}
           V == {x[2] : x \in T}
           W == {x[2] : x \in S}
           n == Len(hooks)
           marked == {i \in DOMAIN hooks : Marked(hooks[i])}
           First(i) == IF hooks[i][1] # "marked" THEN <<<<"mine", hooks[i][2]>>>> ELSE <<>>
           Second(i) == IF i \in marked /\ i = Least(marked) THEN <<entry>> ELSE <<>>
           Piece(i) == First(i) \o Second(i)
           ss == [i \in DOMAIN hooks |-> Piece(i)]
           gg == [i \in DOMAIN hooks |-> MyHook(hooks[i])]
           last == IF marked = {} THEN <<entry>> ELSE <<>>
           out == mergeHookEntries(hooks, entry)
<1>1. n \in Nat /\ DOMAIN hooks = 1 .. n /\ \A k \in 1 .. n : hooks[k] \in S
  BY LenProperties, ElementOfSeq
<1>2. out = FlattenSeq(ss) \o last
  BY DEF mergeHookEntries
<1>3. MyHook(entry) = <<>> /\ entry \in T
  BY DEF MyHook
<1>4. ASSUME NEW k \in 1 .. n
      PROVE  \/ First(k) = <<>> /\ MyHook(hooks[k]) = <<>>
             \/ \E x \in T : First(k) = <<x>> /\ MyHook(x) = MyHook(hooks[k])
  <2>1. CASE hooks[k][1] = "marked"
    BY <2>1 DEF MyHook
  <2>2. CASE hooks[k][1] # "marked"
    <3> DEFINE x == <<"mine", hooks[k][2]>>
    <3>1. x \in T /\ First(k) = <<x>>
      BY <1>1, <2>2
    <3>2. x[1] = "mine" /\ x[2] = hooks[k][2]
      OBVIOUS
    <3> HIDE DEF x, T, First
    <3>3. MyHook(x) = MyHook(hooks[k])
      BY <2>2, <3>2 DEF MyHook
    <3> QED
      BY <3>1, <3>3
  <2> QED
    BY <2>1, <2>2
<1>5. ASSUME NEW k \in 1 .. n
      PROVE  Second(k) \in {<<>>, <<entry>>}
  OBVIOUS
<1>6. last \in {<<>>, <<entry>>}
  OBVIOUS
<1>7. gg \in Seq(Seq(W)) /\ Len(gg) = n
  BY MineJoins
<1>8. ss = [i \in 1 .. n |-> Piece(i)] /\ gg = [i \in 1 .. n |-> MyHook(hooks[i])]
  BY <1>1
<1> HIDE DEF First, Second, last, T, marked
<1>9. <<>> \in Seq(T) /\ <<entry>> \in Seq(T)
  BY <1>3, EmptySeq
<1>10. ASSUME NEW k \in 1 .. n
       PROVE  First(k) \in Seq(T) /\ Second(k) \in Seq(T) /\ Piece(k) \in Seq(T)
  <2>1. First(k) \in Seq(T)
    <3>1. \A x \in T : <<x>> \in Seq(T)
      OBVIOUS
    <3> QED
      BY <1>4, <1>9, <3>1
  <2>2. Second(k) \in Seq(T)
    BY <1>5, <1>9
  <2> QED
    BY <2>1, <2>2, ConcatProperties
<1> HIDE DEF Piece, ss, n
<1>11. ss \in Seq(Seq(T)) /\ Len(ss) = n /\ \A i \in 1 .. n : ss[i] = Piece(i)
  <2>1. ss \in [1 .. n -> Seq(T)]
    BY <1>8, <1>10
  <2> QED
    BY <1>1, <1>8, <2>1
<1>12. PICK h : Joins(ss, h)
  BY <1>11, JoinsExist
<1>13. PICK g : Joins(gg, g)
  BY <1>7, JoinsExist
<1> HIDE DEF W, gg
<1>14. FlattenSeq(ss) = h[n] /\ \A i \in 0 .. n : h[i] \in Seq(T)
  BY <1>11, <1>12, JoinsAre
<1>15. Mine1(hooks) = g[n]
  BY <1>7, <1>13, JoinsAre DEF Mine1, gg
<1>16. ASSUME NEW u \in Seq(T)
       PROVE  Mine1(u \o <<entry>>) = Mine1(u)
  <2>1. Mine1(u \o <<entry>>) = Mine1(u) \o <<>>
    BY <1>3, MineAfter
  <2>2. Mine1(u) \in Seq({x[2] : x \in T})
    BY MineIsSeq
  <2> QED
    BY <2>1, <2>2, ConcatEmptySeq
<1> DEFINE Bad == {k \in 0 .. n : Mine1(h[k]) # g[k]}
<1>17. Bad = {}
  <2> SUFFICES ASSUME Bad # {} PROVE FALSE
    OBVIOUS
  <2>1. Bad \in SUBSET Nat
    BY <1>1
  <2>2. PICK m \in Bad : \A k \in Bad : m <= k
    BY <2>1, LeastOf
  <2>3. m \in 0 .. n /\ Mine1(h[m]) # g[m]
    BY <2>2
  <2>4. Mine1(<<>>) = <<>>
    <3> DEFINE none == [i \in DOMAIN <<>> |-> MyHook(<<>>[i])]
    <3>1. none = <<>>
      OBVIOUS
    <3>2. FlattenSeq(<<>>) = <<>>
      BY DEF FlattenSeq
    <3> QED
      BY <3>1, <3>2 DEF Mine1
  <2>5. m # 0
    BY <1>12, <1>13, <2>3, <2>4 DEF Joins
  <2>6. m \in 1 .. n /\ m - 1 \in 0 .. n /\ ~(m <= m - 1)
    BY <1>1, <2>3, <2>5
  <2>7. Mine1(h[m - 1]) = g[m - 1] /\ h[m - 1] \in Seq(T)
    BY <1>14, <2>2, <2>6
  <2> HIDE DEF Bad
  <2>8. h[m] = h[m - 1] \o Piece(m) /\ g[m] = g[m - 1] \o MyHook(hooks[m])
    <3>1. h[m] = h[m - 1] \o ss[m] /\ g[m] = g[m - 1] \o gg[m]
      BY <1>7, <1>11, <1>12, <1>13, <2>6 DEF Joins
    <3>2. gg[m] = MyHook(hooks[m])
      BY <1>8, <2>6
    <3> QED
      BY <1>11, <2>6, <3>1, <3>2
  <2> DEFINE s == h[m - 1] \o First(m)
  <2>9. s \in Seq(T) /\ h[m] = s \o Second(m)
    <3>1. First(m) \in Seq(T) /\ Second(m) \in Seq(T)
      BY <1>10, <2>6
    <3>2. (h[m - 1] \o First(m)) \o Second(m) = h[m - 1] \o (First(m) \o Second(m))
      <4>1. \A a, b, c \in Seq(T) : (a \o b) \o c = a \o (b \o c)
        BY ConcatAssociative
      <4> QED
        BY <2>7, <3>1, <4>1
    <3> QED
      BY <2>7, <2>8, <3>1, <3>2, ConcatProperties DEF Piece
  <2>10. Mine1(s) = g[m]
    <3>1. CASE First(m) = <<>> /\ MyHook(hooks[m]) = <<>>
      <4>1. s = h[m - 1]
        BY <2>7, <3>1, ConcatEmptySeq
      <4>2. g[m] = g[m - 1]
        <5>1. \A i \in 0 .. n : g[i] \in Seq(W)
          BY <1>7, <1>13, JoinsAre
        <5>2. g[m - 1] \in Seq(W)
          BY <2>6, <5>1
        <5> QED
          BY <2>8, <3>1, <5>2, ConcatEmptySeq
      <4> QED
        BY <2>7, <4>1, <4>2
    <3>2. ASSUME NEW x \in T, First(m) = <<x>>, MyHook(x) = MyHook(hooks[m])
          PROVE  Mine1(s) = g[m]
      <4>1. Mine1(h[m - 1] \o <<x>>) = Mine1(h[m - 1]) \o MyHook(x)
        BY <2>7, MineAfter
      <4> QED
        BY <2>7, <2>8, <3>2, <4>1
    <3> QED
      BY <1>4, <2>6, <3>1, <3>2
  <2> HIDE DEF s
  <2>11. Mine1(s \o Second(m)) = Mine1(s)
    <3>1. CASE Second(m) = <<>>
      BY <2>9, <3>1, ConcatEmptySeq
    <3>2. CASE Second(m) = <<entry>>
      BY <1>16, <2>9, <3>2
    <3> QED
      BY <1>5, <2>6, <3>1, <3>2
  <2> QED
    BY <2>3, <2>9, <2>10, <2>11
<1>18. n \in 0 .. n
  BY <1>1
<1>19. h[n] \in Seq(T) /\ Mine1(h[n]) = g[n]
  BY <1>14, <1>17, <1>18
<1>20. out \in Seq(T) /\ Mine1(out) = Mine1(h[n])
  <2>1. out = h[n] \o last
    BY <1>2, <1>14
  <2>2. CASE last = <<>>
    BY <1>19, <2>1, <2>2, ConcatEmptySeq
  <2>3. CASE last = <<entry>>
    BY <1>9, <1>16, <1>19, <2>1, <2>3, ConcatProperties
  <2> QED
    BY <1>6, <2>2, <2>3
<1> QED
  BY <1>15, <1>19, <1>20

(* A JSON file with other hooks, or with other servers.                    *)
LEMMA JsonHooksFit ==
  ASSUME NEW doc, JsonFits(doc), NEW hooks, \E T : hooks \in Seq(T)
  PROVE  LET out == [doc EXCEPT !.hooks = hooks] IN
         JsonFits(out) /\ out.servers = doc.servers /\ out.hooks = hooks
<1> DEFINE out == [doc EXCEPT !.hooks = hooks]
<1>1. /\ DOMAIN out = DOMAIN doc
      /\ out.hooks = hooks /\ out.servers = doc.servers /\ out.form = doc.form
  BY DEF JsonFits
<1>2. hooks \in Seq(Lines(hooks))
  BY LinesOf
<1> HIDE DEF out
<1>3. JsonFits(out)
  BY <1>1, <1>2 DEF JsonFits, Names
<1> QED
  BY <1>1, <1>3 DEF out

(* New servers, each with its credential, in a JSON file.                  *)
LEMMA JsonServersFit ==
  ASSUME NEW doc, JsonFits(doc), NEW servers, \A ns \in DOMAIN servers : CarriesIts(servers[ns])
  PROVE  LET out == [doc EXCEPT !.servers = servers] IN
         JsonFits(out) /\ out.servers = servers /\ out.hooks = doc.hooks
<1> DEFINE out == [doc EXCEPT !.servers = servers]
<1>1. /\ DOMAIN out = DOMAIN doc
      /\ out.hooks = doc.hooks /\ out.servers = servers /\ out.form = doc.form
  BY DEF JsonFits
<1> HIDE DEF out
<1>2. JsonFits(out)
  BY <1>1 DEF JsonFits, Names
<1> QED
  BY <1>1, <1>2 DEF out

-----------------------------------------------------------------------------
(* The files the theorem is about: text with at most one managed block.    *)
Documents == {d \in Seq(Line) : MarkersOnce(d)} \cup {Missing}
ProjectPaths == Targets \cup EnsuredFiles
OneBlockEach == ProjectEdits \subseteq Documents

(* In step with the sources, for a file that is not yet in its place.      *)
FileInStep(t, file) ==
  IF sources = "" THEN file = Missing \/ ~HasBlock(file)
  ELSE file # Missing /\ HasBlock(file) /\ Block(TargetContent(t)) = BlockOf(file)

(* What a run does between its preflight and its end.                      *)
PlanIsRight ==
  phase = "apply" =>
    /\ DOMAIN plan \subseteq Targets
    /\ \A t \in DOMAIN plan :
         /\ plan[t] \in Documents
         /\ OwnText(plan[t]) = OwnText(atStart[t])
         /\ FileInStep(t, plan[t])
    /\ outcome = "ok" => \A t \in Targets \ DOMAIN plan : FileInStep(t, repo[t])

ProjectTypes ==
  /\ repo \in [ProjectPaths -> Documents]
  /\ atStart \in [ProjectPaths -> Documents]
  /\ sources \in SourceTexts

ProjectInv ==
  /\ ProjectTypes
  /\ PlanIsRight
  /\ phase = "ensure" => outcome = "none" /\ \A t \in Targets : repo[t] = atStart[t]
  /\ outcome = "aborted" => phase = "idle"
  /\ ProjectAllOrNothing

(* The lines a run adds.                                                   *)
LEMMA ProjectLines ==
  /\ \A c \in STRING : BlockLines(Line, c)
  /\ <<>> \in Seq(Line) /\ MarkersOnce(<<>>) /\ ~HasBlock(<<>>) /\ ~Malformed(<<>>)
  /\ <<<<"text", "template">>>> \in Documents
<1>1. ASSUME NEW c \in STRING
      PROVE  BlockLines(Line, c)
  BY LiteralsAreStrings DEF BlockLines, Line, LineKinds
<1>2. MarkerFree(<<>>)
  BY DEF MarkerFree, Positions
<1>3. <<>> \in Seq(Line)
  BY EmptySeq
<1> DEFINE line == <<"text", "template">>
<1>4. line \in Line /\ line[1] = "text"
  BY LiteralsAreStrings DEF Line, LineKinds
<1> HIDE DEF line
<1>5. MarkerFree(<<line>>) /\ <<line>> \in Seq(Line)
  BY <1>4 DEF MarkerFree, Positions, Marker
<1>6. <<line>> \in Documents
  BY <1>5, FreeOfBlocks DEF Documents
<1> QED
  BY <1>1, <1>2, <1>3, <1>6, FreeOfBlocks DEF line

(* What a run would write in a target keeps the engineer's text and is in  *)
(* step with the sources.                                                  *)
LEMMA OutputIsRight ==
  ASSUME ProjectTypes, NEW t \in Targets, ~Malformed(TargetText(t))
  PROVE  /\ TargetOutput(t) \in Documents
         /\ OwnText(TargetOutput(t)) = OwnText(repo[t])
         /\ FileInStep(t, TargetOutput(t))
<1> DEFINE text == TargetText(t)
           out == TargetOutput(t)
<1>1. repo[t] \in Documents /\ sources \in STRING /\ TargetContent(t) \in STRING
  BY ProjectConstants, LiteralsAreStrings DEF ProjectTypes, ProjectPaths, TargetContent
<1>2. text \in Seq(Line) /\ MarkersOnce(text) /\ OwnText(repo[t]) = outsideBlock(text)
  <2>1. CASE repo[t] = Missing
    BY <2>1, ProjectLines DEF TargetText, OwnText, outsideBlock
  <2>2. CASE repo[t] # Missing
    BY <1>1, <2>2 DEF TargetText, OwnText, Documents
  <2> QED
    BY <2>1, <2>2
<1>3. ~Malformed(text)
  OBVIOUS
<1> HIDE DEF text
<1>4. CASE sources # ""
  <2> DEFINE c == TargetContent(t)
             next == renderManagedBlock(text, c)
  <2>1. out = next
    BY <1>4 DEF TargetOutput, text
  <2>2. BlockLines(Line, c)
    BY <1>1, ProjectLines
  <2>3. /\ next \in Seq(Line) /\ HasBlock(next) /\ outsideBlock(next) = outsideBlock(text)
        /\ BlockOf(next) = Block(c) /\ MarkersOnce(next)
    BY <1>2, <1>3, <2>2, RenderKeepsTheRest
  <2>4. next # Missing
    BY <2>3, ProjectConstants
  <2> HIDE DEF next, out
  <2>5. out \in Documents /\ OwnText(out) = OwnText(repo[t]) /\ FileInStep(t, out)
    BY <1>2, <1>4, <2>1, <2>3, <2>4 DEF Documents, OwnText, FileInStep
  <2> QED
    BY <2>5 DEF out
<1>5. CASE sources = ""
  <2> DEFINE rest == removeManagedBlock(text)
  <2>1. rest \in Seq(Line) /\ rest = outsideBlock(text) /\ MarkerFree(rest)
    BY <1>2, <1>3, RemovalKeepsTheRest
  <2>2. rest # Missing /\ ~HasBlock(rest) /\ outsideBlock(rest) = rest /\ MarkersOnce(rest)
    BY <2>1, FreeOfBlocks, ProjectConstants
  <2>3. out = IF rest = <<>> /\ HasBlock(text) THEN Missing
              ELSE IF repo[t] = Missing THEN Missing ELSE rest
    BY <1>5 DEF TargetOutput, text
  <2>4. repo[t] = Missing => rest = <<>>
    BY <1>2, <2>1 DEF OwnText
  <2> HIDE DEF rest, out
  <2>5. out = Missing => rest = <<>>
    BY <2>2, <2>3, <2>4
  <2>6. out = Missing \/ out = rest
    BY <2>3
  <2>7. out \in Documents /\ OwnText(out) = OwnText(repo[t]) /\ FileInStep(t, out)
    BY <1>2, <1>5, <2>1, <2>2, <2>5, <2>6 DEF Documents, OwnText, FileInStep
  <2> QED
    BY <2>7 DEF out
<1> QED
  BY <1>4, <1>5

(* The invariant holds at first, of a repository of such files.            *)
LEMMA ProjectInvInit ==
  ASSUME NEW files \in [ProjectPaths -> Documents], ProjectInit(files)
  PROVE  ProjectInv
BY DEF ProjectInit, ProjectInv, ProjectTypes, PlanIsRight, ProjectAllOrNothing

(* The property is that every target is in step.                           *)
LEMMA InStepIs == \A t : InStep(t) <=> FileInStep(t, repo[t])
BY DEF InStep, FileInStep, BlockOf

(* Each step keeps it.                                                     *)
LEMMA ProjectInvNext ==
  ASSUME ProjectInv, OneBlockEach, [ProjectNext]_projectVars
  PROVE  ProjectInv'
<1> USE DEF ProjectInv
<1>1. CASE ProjectStart
  <2>1. ProjectTypes' /\ PlanIsRight'
    BY <1>1 DEF ProjectStart, ProjectTypes, PlanIsRight
  <2> QED
    BY <1>1, <2>1 DEF ProjectStart, ProjectAllOrNothing
<1>2. ASSUME NEW f \in EnsuredFiles, Ensure(f)
      PROVE  ProjectInv'
  <2>1. /\ repo' = [repo EXCEPT ![f] = <<<<"text", "template">>>>]
        /\ UNCHANGED <<sources, phase, plan, outcome, atStart>> /\ phase = "ensure"
    BY <1>2 DEF Ensure
  <2>2. ProjectTypes'
    BY <2>1, ProjectLines DEF ProjectTypes
  <2>3. \A t \in Targets : repo'[t] = repo[t]
    BY <1>2, <2>1, ProjectConstants DEF ProjectTypes, ProjectPaths
  <2> QED
    BY <2>1, <2>2, <2>3 DEF PlanIsRight, ProjectAllOrNothing
<1>3. CASE Preflight /\ PreflightFails
  <2>1. /\ phase = "ensure" /\ phase' = "idle" /\ outcome' = "aborted"
        /\ UNCHANGED <<repo, sources, atStart>>
    BY <1>3 DEF Preflight, Ends
  <2>2. ProjectTypes' /\ PlanIsRight'
    BY <2>1 DEF ProjectTypes, PlanIsRight
  <2> QED
    BY <2>1, <2>2 DEF ProjectAllOrNothing
<1>4. CASE Preflight /\ ~PreflightFails
  <2> DEFINE changes == {t \in Targets : TargetOutput(t) # repo[t]}
  <2>1. /\ phase = "ensure" /\ phase' = "apply" /\ outcome' = "ok"
        /\ plan' = [t \in changes |-> TargetOutput(t)]
        /\ UNCHANGED <<repo, sources, atStart>>
    BY <1>4 DEF Preflight, Ends
  <2>2. ASSUME NEW t \in Targets
        PROVE  /\ TargetOutput(t) \in Documents
               /\ OwnText(TargetOutput(t)) = OwnText(repo[t])
               /\ FileInStep(t, TargetOutput(t))
    <3>1. ~Malformed(TargetText(t))
      BY <1>4 DEF PreflightFails, Fails
    <3> QED
      BY <3>1, OutputIsRight
  <2>3. ProjectTypes'
    BY <2>1 DEF ProjectTypes
  <2>4. \A t \in Targets : repo'[t] = atStart'[t]
    BY <2>1
  <2> HIDE DEF changes
  <2>5. DOMAIN plan' = changes /\ \A t \in changes : plan'[t] = TargetOutput(t)
    BY <2>1
  <2>7. PlanIsRight'
    <3>1. changes \subseteq Targets /\ \A t \in Targets \ changes : repo[t] = TargetOutput(t)
      BY DEF changes
    <3>2. /\ DOMAIN plan' \subseteq Targets
          /\ \A t \in DOMAIN plan' :
               /\ plan'[t] \in Documents
               /\ OwnText(plan'[t]) = OwnText(atStart'[t])
               /\ (FileInStep(t, plan[t]))'
      <4> SUFFICES ASSUME NEW t \in changes
                   PROVE  /\ plan'[t] \in Documents
                          /\ OwnText(plan'[t]) = OwnText(atStart'[t])
                          /\ (FileInStep(t, plan[t]))'
        BY <2>5, <3>1
      <4>1. plan'[t] = TargetOutput(t) /\ t \in Targets
        BY <2>5, <3>1
      <4>2. OwnText(repo[t]) = OwnText(atStart'[t])
        BY <2>1, <4>1
      <4>3. FileInStep(t, plan'[t])
        BY <2>2, <4>1
      <4>4. (FileInStep(t, plan[t]))'
        BY <2>1, <4>3 DEF FileInStep, TargetContent
      <4> QED
        BY <2>2, <4>1, <4>2, <4>4
    <3>3. \A t \in Targets \ DOMAIN plan' : (FileInStep(t, repo[t]))'
      <4> SUFFICES ASSUME NEW t \in Targets \ changes
                   PROVE  (FileInStep(t, repo[t]))'
        BY <2>5
      <4>1. FileInStep(t, repo[t])
        BY <2>2, <3>1
      <4> QED
        BY <2>1, <4>1 DEF FileInStep, TargetContent
    <3> QED
      BY <3>2, <3>3 DEF PlanIsRight
  <2> QED
    BY <2>1, <2>3, <2>4, <2>7 DEF ProjectAllOrNothing
<1>5. ASSUME NEW t \in Targets, Apply(t)
      PROVE  ProjectInv'
  <2>1. /\ phase = "apply" /\ phase' = "apply" /\ t \in DOMAIN plan
        /\ UNCHANGED <<sources, atStart>>
        /\ DOMAIN plan' = DOMAIN plan \ {t} /\ \A u \in DOMAIN plan' : plan'[u] = plan[u]
    BY <1>5 DEF Apply, Planned
  <2>2. \/ repo' = [repo EXCEPT ![t] = plan[t]] /\ outcome' = outcome
        \/ repo' = repo /\ outcome' = "failed"
    BY <1>5 DEF Apply
  <2>3. /\ DOMAIN plan \subseteq Targets
        /\ \A u \in DOMAIN plan : /\ plan[u] \in Documents
                                  /\ OwnText(plan[u]) = OwnText(atStart[u])
                                  /\ FileInStep(u, plan[u])
        /\ outcome = "ok" => \A u \in Targets \ DOMAIN plan : FileInStep(u, repo[u])
    BY <2>1 DEF PlanIsRight
  <2>4. t \in DOMAIN repo /\ \A u \in Targets \ {t} : repo'[u] = repo[u]
    BY <2>2 DEF ProjectTypes, ProjectPaths
  <2>5. ProjectTypes'
    BY <2>1, <2>2, <2>3 DEF ProjectTypes
  <2>7. \A u \in DOMAIN plan' : /\ plan'[u] \in Documents
                                /\ OwnText(plan'[u]) = OwnText(atStart'[u])
                                /\ (FileInStep(u, plan[u]))'
    <3> SUFFICES ASSUME NEW u \in DOMAIN plan'
                 PROVE  /\ plan'[u] \in Documents
                        /\ OwnText(plan'[u]) = OwnText(atStart'[u])
                        /\ (FileInStep(u, plan[u]))'
      OBVIOUS
    <3>1. u \in DOMAIN plan /\ plan'[u] = plan[u]
      BY <2>1
    <3>2. FileInStep(u, plan'[u])
      BY <2>3, <3>1
    <3>3. (FileInStep(u, plan[u]))'
      BY <2>1, <3>2 DEF FileInStep, TargetContent
    <3> QED
      BY <2>1, <2>3, <3>1, <3>3
  <2>8. ASSUME outcome' = "ok", NEW u \in Targets \ DOMAIN plan'
        PROVE  (FileInStep(u, repo[u]))'
    <3>1. outcome = "ok" /\ repo' = [repo EXCEPT ![t] = plan[t]]
      BY <2>2, <2>8
    <3>2. FileInStep(u, repo'[u])
      <4>1. CASE u = t
        BY <2>1, <2>3, <2>4, <3>1, <4>1
      <4>2. CASE u # t
        BY <2>1, <2>3, <2>4, <2>8, <3>1, <4>2
      <4> QED
        BY <4>1, <4>2
    <3> QED
      BY <2>1, <3>2 DEF FileInStep, TargetContent
  <2>9. PlanIsRight'
    BY <2>1, <2>3, <2>7, <2>8 DEF PlanIsRight
  <2>10. \A u \in Targets : OwnText(repo'[u]) = OwnText(atStart'[u])
    <3> SUFFICES ASSUME NEW u \in Targets
                 PROVE  OwnText(repo'[u]) = OwnText(atStart'[u])
      OBVIOUS
    <3>1. OwnText(repo[u]) = OwnText(atStart[u])
      BY <2>1 DEF ProjectAllOrNothing
    <3>2. repo'[u] = repo[u] \/ (repo'[u] = plan[u] /\ u \in DOMAIN plan)
      BY <2>1, <2>2, <2>4
    <3> QED
      BY <2>1, <2>3, <3>1, <3>2
  <2> QED
    BY <2>1, <2>2, <2>5, <2>9, <2>10 DEF ProjectAllOrNothing
<1>6. CASE ProjectEnds
  <2>1. /\ phase = "apply" /\ DOMAIN plan = {} /\ phase' = "idle" /\ outcome' = outcome
        /\ UNCHANGED <<repo, sources, atStart>>
    BY <1>6 DEF ProjectEnds, Ends
  <2>2. ProjectTypes' /\ PlanIsRight'
    BY <2>1 DEF ProjectTypes, PlanIsRight
  <2>3. ASSUME outcome' = "ok", NEW t \in Targets
        PROVE  InStep(t)'
    <3>1. InStep(t)
      BY <2>1, <2>3, InStepIs DEF PlanIsRight
    <3> QED
      BY <2>1, <3>1 DEF InStep, TargetContent
  <2> QED
    BY <2>1, <2>2, <2>3 DEF ProjectAllOrNothing
<1>7. CASE ProjectKilled
  <2>1. /\ phase # "idle" /\ phase' = "idle" /\ outcome' = "killed"
        /\ UNCHANGED <<repo, sources, atStart>>
    BY <1>7 DEF ProjectKilled, Ends
  <2>2. ProjectTypes' /\ PlanIsRight'
    BY <2>1 DEF ProjectTypes, PlanIsRight
  <2> QED
    BY <2>1, <2>2 DEF ProjectAllOrNothing
<1>8. CASE EditProject
  <2>1. /\ phase = "idle" /\ phase' = "idle" /\ outcome' = "none" /\ atStart' = atStart
        /\ \/ /\ \E t \in Targets : \E file \in ProjectEdits : repo' = [repo EXCEPT ![t] = file]
              /\ sources' = sources
           \/ sources' \in SourceTexts /\ repo' = repo
    BY <1>8 DEF EditProject
  <2>2. ProjectTypes' /\ PlanIsRight'
    BY <2>1, OneBlockEach DEF ProjectTypes, PlanIsRight, OneBlockEach
  <2> QED
    BY <2>1, <2>2 DEF ProjectAllOrNothing
<1>9. CASE UNCHANGED projectVars
  <2>1. UNCHANGED <<repo, sources, phase, plan, outcome, atStart>>
    BY <1>9 DEF projectVars
  <2>2. \A t : InStep(t) => InStep(t)'
    BY <2>1 DEF InStep, TargetContent
  <2>3. ProjectTypes' /\ ProjectAllOrNothing'
    BY <2>1, <2>2 DEF ProjectTypes, ProjectAllOrNothing
  <2>4. PlanIsRight'
    BY <2>1 DEF PlanIsRight, FileInStep, TargetContent
  <2> QED
    BY <2>1, <2>3, <2>4
<1> QED
  BY <1>1, <1>2, <1>3, <1>4, <1>5, <1>6, <1>7, <1>8, <1>9 DEF ProjectNext

(* A run of `wagglebot update` in a repository that aborts has changed no  *)
(* target, one that succeeds leaves every target in step with the          *)
(* sources, and no run, however it ends, takes the engineer's own text.    *)
(* Of any targets, sources and edits, if a file has one block at most.     *)
THEOREM ProjectIsAllOrNothing ==
  ASSUME NEW files \in [ProjectPaths -> Documents], OneBlockEach
  PROVE  ProjectSpec(files) => []ProjectAllOrNothing
<1>1. ProjectInit(files) => ProjectInv
  BY ProjectInvInit
<1>2. ProjectInv /\ [ProjectNext]_projectVars => ProjectInv'
  BY ProjectInvNext
<1>3. ProjectInv => ProjectAllOrNothing
  BY DEF ProjectInv
<1> QED
  BY <1>1, <1>2, <1>3, PTL DEF ProjectSpec
=============================================================================
