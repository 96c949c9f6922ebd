-------------------------- MODULE HttpMessage_proofs -------------------------
(***************************************************************************)
(* Every honest message arrives as it was sent, however it is cut and      *)
(* whatever the size of the buffer: what the parser knows after any number *)
(* of bytes is where the parts of the message are among them.              *)
(***************************************************************************)
EXTENDS HttpParser_proofs

-----------------------------------------------------------------------------
(* Where the parts of a message are.                                       *)

\* t is in s, behind its first a elements.
Has(s, a, t) ==
    /\ a \in Nat /\ a + Len(t) <= Len(s)
    /\ \A j \in 1 .. Len(t) : s[a + j] = t[j]

WordBegin(m, k) ==
    IF k = 1 THEN 0
    ELSE IF k = 2 THEN Len(m.start[1]) + 1
    ELSE (Len(m.start[1]) + 1) + (Len(m.start[2]) + 1)
WordEnd(m, k) == WordBegin(m, k) + Len(m.start[k])
HeadersBegin(m) == WordEnd(m, 3) + Len(m.eol)

\* b[i] bytes of the sequences in seqs are in front of the i-th but one.
Places(seqs, b) ==
    /\ b \in [0 .. Len(seqs) -> Nat] /\ b[0] = 0 /\ b[Len(seqs)] = Len(FlattenSeq(seqs))
    /\ \A i \in 1 .. Len(seqs) :
         b[i] = b[i - 1] + Len(seqs[i]) /\ Has(FlattenSeq(seqs), b[i - 1], seqs[i])
Line(h, eol) == h.name \o <<":", SP>> \o h.value \o eol
HeaderLines(m) == [i \in DOMAIN m.headers |-> Line(m.headers[i], m.eol)]
HeaderBegin(m, n) == HeadersBegin(m) + (CHOOSE b : Places(HeaderLines(m), b))[n]
NameEnd(m, n) == HeaderBegin(m, n) + Len(m.headers[n + 1].name)
ValueBegin(m, n) == NameEnd(m, n) + 2
ValueEnd(m, n) == ValueBegin(m, n) + Len(m.headers[n + 1].value)
BodyBegin(m) == HeaderBegin(m, Len(m.headers)) + Len(m.eol)

\* Two sequences of bytes, one behind the other.
LEMMA Split ==
    ASSUME NEW s \in Seq(Byte), NEW t \in Seq(Byte)
    PROVE  /\ s \o t \in Seq(Byte) /\ Len(s \o t) = Len(s) + Len(t)
           /\ Len(s) \in Nat /\ Len(t) \in Nat
           /\ Has(s \o t, 0, s) /\ Has(s \o t, Len(s), t)
  <1>1. Len(s) \in Nat /\ Len(t) \in Nat
    BY LenProperties
  <1>2. /\ s \o t \in Seq(Byte) /\ Len(s \o t) = Len(s) + Len(t)
        /\ \A i \in 1 .. Len(s) + Len(t) :
             (s \o t)[i] = IF i <= Len(s) THEN s[i] ELSE t[i - Len(s)]
    BY ConcatProperties
  <1>3. Has(s \o t, 0, s)
    BY <1>1, <1>2 DEF Has
  <1>4. Has(s \o t, Len(s), t)
    <2>1. ASSUME NEW j \in 1 .. Len(t)
          PROVE  (s \o t)[Len(s) + j] = t[j]
      <3>1. Len(s) + j \in 1 .. Len(s) + Len(t) /\ ~ (Len(s) + j <= Len(s))
            /\ (Len(s) + j) - Len(s) = j
        BY <1>1
      <3> QED BY <1>2, <3>1
    <2> QED BY <1>1, <1>2, <2>1 DEF Has
  <1> QED BY <1>1, <1>2, <1>3, <1>4

\* What is in a part is in the whole.
LEMMA HasIn ==
    ASSUME NEW s, NEW t, NEW u, NEW a, NEW b, Has(s, a, t), Has(t, b, u),
           Len(s) \in Nat, Len(t) \in Nat, Len(u) \in Nat
    PROVE  Has(s, a + b, u)
  <1>1. a \in Nat /\ b \in Nat /\ a + b \in Nat /\ (a + b) + Len(u) <= Len(s)
    BY DEF Has
  <1>2. ASSUME NEW j \in 1 .. Len(u)
        PROVE  s[(a + b) + j] = u[j]
    <2>1. b + j \in 1 .. Len(t) /\ a + (b + j) = (a + b) + j
      BY <1>1 DEF Has
    <2> QED BY <2>1 DEF Has
  <1> QED BY <1>1, <1>2 DEF Has

\* FlattenSeq puts every sequence at a place of its own, behind the ones before it.
LEMMA PlacesExist ==
    ASSUME NEW seqs \in Seq(Seq(Byte))
    PROVE  \E b : Places(seqs, b)
  <1> DEFINE n == Len(seqs)
  <1>0. n \in Nat
    BY LenProperties
  <1>1. CASE n = 0
    <2>1. seqs = <<>>
      BY <1>1, EmptySeq
    <2>2. FlattenSeq(seqs) = <<>> /\ Len(<<>>) = 0
      BY <1>1, <2>1, EmptySeq DEF FlattenSeq
    <2> DEFINE b == [i \in 0 .. n |-> 0]
    <2>3. Places(seqs, b)
      BY <1>1, <2>2 DEF Places
    <2> QED BY <2>3
  <1>2. CASE n # 0
    <2> DEFINE V == Seq(Byte)
               Longer(i, v) == IF i = 1 THEN seqs[i] ELSE v \o seqs[i]
               All(f) == [i \in 1 .. n |-> Longer(i, f[i - 1])]
               flatten == CHOOSE f : f = All(f)
               F == [i \in 1 .. n |-> [v \in V |-> Longer(i, v)]]
    <2>1. FlattenSeq(seqs) = flatten[n]
      BY <1>2, Zenon DEF FlattenSeq
    <2>2. \A i \in 1 .. n : seqs[i] \in V
      BY ElementOfSeq
    <2>3. <<>> \in V
      BY EmptySeq
    <2> HIDE DEF n, V
    <2>4. \A i \in 1 .. n, v \in V : Longer(i, v) \in V
      BY <2>2, ConcatProperties DEF V
    <2>5. F \in Walks(n, V)
      BY <2>4 DEF Walks
    <2>6. PICK g \in [0 .. n -> V] : g[0] = <<>> /\ \A i \in 1 .. n : g[i] = F[i][g[i - 1]]
      <3> HIDE DEF F
      <3>1. Paths(n, V, <<>>, F) # {}
        BY <1>0, <2>3, <2>5, Recursion
      <3> QED BY <3>1 DEF Paths
    <2>7. \A i \in 1 .. n : i - 1 \in 0 .. n /\ i \in 0 .. n
      BY <1>0
    <2>8. \A i \in 1 .. n : g[i] = Longer(i, g[i - 1])
      BY <2>6, <2>7
    <2> DEFINE h == [i \in 1 .. n |-> g[i]]
    <2> HIDE DEF F
    <2>9. h = All(h)
      <3>1. ASSUME NEW i \in 1 .. n
            PROVE  g[i] = Longer(i, h[i - 1])
        <4>1. CASE i = 1
          BY <2>8, <4>1
        <4>2. CASE i # 1
          <5>1. i - 1 \in 1 .. n
            BY <1>0, <4>2
          <5>2. h[i - 1] = g[i - 1]
            BY <5>1
          <5> QED BY <2>8, <5>2
        <4> QED BY <4>1, <4>2
      <3> HIDE DEF Longer
      <3> QED BY <3>1
    <2>10. flatten = All(flatten)
      <3> HIDE DEF All, h
      <3> QED BY <2>9
    <2> HIDE DEF flatten
    <2>11. \A i \in 1 .. n : flatten[i] = Longer(i, flatten[i - 1])
      <3> HIDE DEF Longer
      <3> QED BY <2>10
    \* a[i] is what the first i sequences are together.
    <2> DEFINE a(i) == IF i = 0 THEN <<>> ELSE flatten[i]
    <2>12. \A i \in 1 .. n : a(i) = IF i = 1 THEN seqs[i] ELSE a(i - 1) \o seqs[i]
      BY <1>0, <2>11
    <2> HIDE DEF a
    <2>13. a(0) = <<>> /\ Len(a(0)) = 0 /\ a(n) = FlattenSeq(seqs)
      BY <1>0, <1>2, <2>1, EmptySeq DEF a
    <2>14. 0 .. n \subseteq {i \in Nat : a(i) \in Seq(Byte)}
      <3> DEFINE G == {i \in Nat : a(i) \in Seq(Byte)}
      <3>1. 0 \in G
        BY <2>3, <2>13 DEF V
      <3>2. ASSUME NEW i \in 0 .. n, i < n, i \in G PROVE i + 1 \in G
        <4>1. i + 1 \in 1 .. n /\ (i + 1) - 1 = i /\ i + 1 \in Nat
          BY <1>0, <3>2
        <4>2. a(i) \in Seq(Byte) /\ seqs[i + 1] \in Seq(Byte)
          BY <2>2, <3>2, <4>1 DEF V
        <4>3. a(i) \o seqs[i + 1] \in Seq(Byte)
          BY <4>2, Joined
        <4>4. a(i + 1) \in {seqs[i + 1], a(i) \o seqs[i + 1]}
          BY <2>12, <4>1
        <4> QED BY <4>1, <4>2, <4>3, <4>4
      <3> HIDE DEF G
      <3>3. 0 .. n \subseteq G
        BY <1>0, <3>1, <3>2, UpTo
      <3> QED BY <3>3 DEF G
    <2>15. \A i \in 0 .. n : a(i) \in Seq(Byte) /\ Len(a(i)) \in Nat
      <3>1. \A i \in 0 .. n : a(i) \in Seq(Byte)
        BY <2>14
      <3> QED BY <3>1, LenProperties
    <2>16. ASSUME NEW i \in 1 .. n
           PROVE  /\ Len(seqs[i]) \in Nat /\ Len(a(i)) = Len(a(i - 1)) + Len(seqs[i])
                  /\ Has(a(i), 0, a(i - 1)) /\ Has(a(i), Len(a(i - 1)), seqs[i])
      <3>1. i - 1 \in 0 .. n /\ a(i - 1) \in Seq(Byte) /\ seqs[i] \in Seq(Byte)
        BY <1>0, <2>2, <2>15 DEF V
      <3>2. a(i) = a(i - 1) \o seqs[i]
        <4>1. CASE i = 1
          <5>1. <<>> \o seqs[i] = seqs[i] /\ i - 1 = 0
            BY <3>1, <4>1, ConcatEmptySeq
          <5>2. a(i - 1) = <<>>
            BY <2>13, <5>1
          <5>3. a(i) = seqs[i]
            BY <2>12, <4>1
          <5> QED BY <5>1, <5>2, <5>3
        <4>2. CASE i # 1
          BY <2>12, <4>2
        <4> QED BY <4>1, <4>2
      <3> QED BY <3>1, <3>2, Split
    <2>17. 0 .. n \subseteq {d \in Nat : d <= n /\ Has(a(n), 0, a(n - d))}
      <3> DEFINE G == {d \in Nat : d <= n /\ Has(a(n), 0, a(n - d))}
      <3>1. 0 \in G
        <4>1. n - 0 = n /\ Len(a(n)) \in Nat
          BY <1>0, <2>15
        <4>2. Has(a(n), 0, a(n))
          BY <4>1 DEF Has
        <4> QED BY <1>0, <4>1, <4>2
      <3>2. ASSUME NEW d \in 0 .. n, d < n, d \in G PROVE d + 1 \in G
        <4>1. /\ n - d \in 1 .. n /\ n - d \in 0 .. n /\ n \in 0 .. n
              /\ n - (d + 1) \in 0 .. n /\ (n - d) - 1 = n - (d + 1)
              /\ d + 1 \in Nat /\ d + 1 <= n
          BY <1>0, <3>2
        <4>2. Has(a(n), 0, a(n - d)) /\ Has(a(n - d), 0, a(n - (d + 1)))
          BY <2>16, <3>2, <4>1
        <4>3. Has(a(n), 0 + 0, a(n - (d + 1)))
          BY <2>15, <4>1, <4>2, HasIn
        <4> QED BY <4>1, <4>3
      <3> HIDE DEF G
      <3>3. 0 .. n \subseteq G
        BY <1>0, <3>1, <3>2, UpTo
      <3> QED BY <3>3 DEF G
    <2> DEFINE b == [i \in 0 .. n |-> Len(a(i))]
    <2>18. /\ b \in [0 .. n -> Nat] /\ b[0] = 0 /\ b[n] = Len(FlattenSeq(seqs))
      BY <1>0, <2>13, <2>15
    <2>19. ASSUME NEW i \in 1 .. n
           PROVE  b[i] = b[i - 1] + Len(seqs[i]) /\ Has(FlattenSeq(seqs), b[i - 1], seqs[i])
      <3>1. /\ i \in 0 .. n /\ i - 1 \in 0 .. n /\ n \in 0 .. n
            /\ n - i \in 0 .. n /\ n - (n - i) = i
        BY <1>0
      <3>2. Has(a(n), 0, a(i))
        BY <2>17, <3>1
      <3>3. Has(a(n), 0 + Len(a(i - 1)), seqs[i])
        BY <2>15, <2>16, <3>1, <3>2, HasIn
      <3>4. 0 + Len(a(i - 1)) = Len(a(i - 1))
        BY <2>15, <3>1
      <3> QED BY <2>13, <2>16, <3>1, <3>3, <3>4
    <2> HIDE DEF b
    <2>20. Places(seqs, b)
      BY <2>18, <2>19 DEF Places, n
    <2> QED BY <2>20
  <1> QED BY <1>1, <1>2

\* What two sequences together are in, each of them is in.
LEMMA Parted ==
    ASSUME NEW r \in Seq(Byte), NEW s \in Seq(Byte), NEW t \in Seq(Byte), NEW a,
           Has(r, a, s \o t)
    PROVE  /\ Has(r, a, s) /\ Has(r, a + Len(s), t)
           /\ Len(s \o t) = Len(s) + Len(t) /\ Len(s) \in Nat /\ Len(t) \in Nat /\ a \in Nat
  <1>1. /\ s \o t \in Seq(Byte) /\ Len(s \o t) = Len(s) + Len(t)
        /\ Len(s) \in Nat /\ Len(t) \in Nat
        /\ Has(s \o t, 0, s) /\ Has(s \o t, Len(s), t)
    BY Split
  <1>2. Len(r) \in Nat /\ Len(s \o t) \in Nat /\ a \in Nat
    BY <1>1, LenProperties DEF Has
  <1>3. Has(r, a + 0, s) /\ Has(r, a + Len(s), t)
    BY <1>1, <1>2, HasIn
  <1>4. a + 0 = a
    BY <1>2
  <1> QED BY <1>1, <1>2, <1>3, <1>4

-----------------------------------------------------------------------------
(* The parts of a message that is not chunked.                             *)

\* What the parts are.
LEMMA Typed ==
    ASSUME NEW m \in Message
    PROVE  /\ m.eol \in {<<CR, LF>>, <<LF>>} /\ m.eol \in Seq(Byte)
           /\ m.start[1] \in Seq(Byte) /\ m.start[2] \in Seq(Byte) /\ m.start[3] \in Seq(Byte)
           /\ m.start \in Seq(Seq(Byte)) /\ Len(m.start) = 3
           /\ m.headers \in Seq(Field) /\ Len(m.headers) \in Nat
           /\ DOMAIN m.headers = 1 .. Len(m.headers)
           /\ \A i \in 1 .. Len(m.headers) :
                m.headers[i].name \in Seq(Byte) /\ m.headers[i].value \in Seq(Byte)
           /\ Lines(m.headers, m.eol) \in Seq(Byte) /\ Content(m) \in Seq(Byte)
           /\ Len(m.eol) \in {1, 2} /\ m.held \in Nat
  <1>1. /\ m.eol \in {<<CR, LF>>, <<LF>>} /\ m.start \in Seq(Seq(Byte)) /\ Len(m.start) = 3
        /\ m.headers \in Seq(Field) /\ m.chunks \in Seq(Seq(Byte)) /\ m.held \in Nat
    BY HttpParserAssumption DEF MessageType
  <1>2. m.start[1] \in Seq(Byte) /\ m.start[2] \in Seq(Byte) /\ m.start[3] \in Seq(Byte)
    BY <1>1, ElementOfSeq
  <1>3. /\ Len(m.headers) \in Nat /\ DOMAIN m.headers = 1 .. Len(m.headers)
        /\ \A i \in 1 .. Len(m.headers) : m.headers[i] \in Field
    BY <1>1, InSeq
  <1>4. Lines(m.headers, m.eol) \in Seq(Byte)
    BY <1>1, LinesAreBytes
  <1>5. Content(m) \in Seq(Byte)
    BY <1>1, FlattenedIsSeq DEF Content
  <1>6. m.eol \in Seq(Byte) /\ Len(m.eol) \in {1, 2}
    BY <1>1, Separators
  <1> QED BY <1>1, <1>2, <1>3, <1>4, <1>5, <1>6 DEF Field

\* The header lines have places.
LEMMA LinesHavePlaces ==
    ASSUME NEW m \in Message
    PROVE  /\ HeaderLines(m) \in Seq(Seq(Byte)) /\ Len(HeaderLines(m)) = Len(m.headers)
           /\ Lines(m.headers, m.eol) = FlattenSeq(HeaderLines(m))
           /\ Places(HeaderLines(m), CHOOSE b : Places(HeaderLines(m), b))
  <1>1. \A i \in 1 .. Len(m.headers) : Line(m.headers[i], m.eol) \in Seq(Byte)
    BY Typed, Joined, Separators DEF Line
  <1>2. HeaderLines(m) \in [1 .. Len(m.headers) -> Seq(Byte)]
    BY <1>1, Typed DEF HeaderLines
  <1>3. HeaderLines(m) \in Seq(Seq(Byte)) /\ Len(HeaderLines(m)) = Len(m.headers)
    <2> DEFINE x == HeaderLines(m)
               n == Len(m.headers)
               S == Seq(Byte)
    <2>1. x \in [1 .. n -> S] /\ n \in Nat
      BY <1>2, Typed
    <2> HIDE DEF x, n, S
    <2>2. x \in Seq(S)
      BY <2>1, SeqDef
    <2>3. DOMAIN x = 1 .. Len(x) /\ Len(x) \in Nat
      BY <2>2, LenProperties
    <2>4. Len(x) = n
      BY <2>1, <2>3
    <2> QED BY <2>2, <2>4 DEF x, n, S
  <1>4. Lines(m.headers, m.eol) = FlattenSeq(HeaderLines(m))
    BY DEF Lines, HeaderLines, Line
  <1>5. \E b : Places(HeaderLines(m), b)
    BY <1>3, PlacesExist
  <1> QED BY <1>3, <1>4, <1>5, Zenon

\* The n-th header but one begins behind the first line and the n lines before it.
LineLaid(m, n) ==
    LET h == m.headers[n + 1] IN
    /\ Has(Render(m), HeaderBegin(m, n), h.name)
    /\ Has(Render(m), NameEnd(m, n), <<":", SP>>)
    /\ Has(Render(m), ValueBegin(m, n), h.value)
    /\ Has(Render(m), ValueEnd(m, n), m.eol)
    /\ HeaderBegin(m, n + 1) = ValueEnd(m, n) + Len(m.eol)
Laid(m) ==
    /\ Render(m) \in Seq(Byte) /\ Len(Render(m)) = BodyBegin(m) + Len(Content(m))
    /\ Has(Render(m), WordBegin(m, 1), m.start[1]) /\ Has(Render(m), WordEnd(m, 1), <<SP>>)
    /\ Has(Render(m), WordBegin(m, 2), m.start[2]) /\ Has(Render(m), WordEnd(m, 2), <<SP>>)
    /\ Has(Render(m), WordBegin(m, 3), m.start[3]) /\ Has(Render(m), WordEnd(m, 3), m.eol)
    /\ HeaderBegin(m, 0) = HeadersBegin(m)
    /\ \A n \in 0 .. Len(m.headers) :
         HeaderBegin(m, n) \in Nat /\ HeadersBegin(m) <= HeaderBegin(m, n)
    /\ \A n \in 0 .. Len(m.headers) - 1 : LineLaid(m, n)
    /\ Has(Render(m), HeaderBegin(m, Len(m.headers)), m.eol)
    /\ Has(Render(m), BodyBegin(m), Content(m))

\* The layout of a message whose content is not chunked.
LEMMA LaidOut ==
    ASSUME NEW m \in Message, ~ m.chunked
    PROVE  Laid(m)
  <1> DEFINE R == Render(m)
             eol == m.eol
             w1 == m.start[1]
             w2 == m.start[2]
             w3 == m.start[3]
             L == Lines(m.headers, m.eol)
             C == Content(m)
             p1 == w1 \o <<SP>>
             p2 == p1 \o w2
             p3 == p2 \o <<SP>>
             p4 == p3 \o w3
             p5 == p4 \o eol
             p6 == p5 \o L
             p7 == p6 \o eol
  <1>1. R = p7 \o C
    BY DEF Render, Coded
  <1>2. /\ w1 \in Seq(Byte) /\ w2 \in Seq(Byte) /\ w3 \in Seq(Byte) /\ eol \in Seq(Byte)
        /\ L \in Seq(Byte) /\ C \in Seq(Byte) /\ <<SP>> \in Seq(Byte) /\ Len(<<SP>>) = 1
        /\ R \in Seq(Byte) /\ Len(eol) \in {1, 2}
    BY Typed, Separators, MessageIsBytes
  <1>3. WordBegin(m, 1) = 0 /\ WordEnd(m, 1) = Len(w1) /\ WordBegin(m, 2) = Len(w1) + 1
        /\ WordEnd(m, 2) = (Len(w1) + 1) + Len(w2)
        /\ WordBegin(m, 3) = (Len(w1) + 1) + (Len(w2) + 1)
        /\ WordEnd(m, 3) = ((Len(w1) + 1) + (Len(w2) + 1)) + Len(w3)
    <2>1. Len(w1) \in Nat
      BY <1>2, LenProperties
    <2> QED BY <2>1 DEF WordBegin, WordEnd
  <1>4. HeadersBegin(m) = WordEnd(m, 3) + Len(eol)
    BY DEF HeadersBegin
  <1>5. BodyBegin(m) = HeaderBegin(m, Len(m.headers)) + Len(eol)
    BY DEF BodyBegin
  <1> DEFINE lines == HeaderLines(m)
             b == CHOOSE x : Places(HeaderLines(m), x)
             H == Len(m.headers)
  <1>6. /\ H \in Nat /\ b \in [0 .. H -> Nat] /\ b[0] = 0 /\ b[H] = Len(L)
        /\ \A i \in 1 .. H : b[i] = b[i - 1] + Len(lines[i]) /\ Has(L, b[i - 1], lines[i])
    <2>1. Len(lines) = H /\ L = FlattenSeq(lines) /\ Places(lines, b) /\ H \in Nat
      BY LinesHavePlaces, Typed
    <2> HIDE DEF b, lines, L, H
    <2> QED BY <2>1 DEF Places
  <1>7. \A n : HeaderBegin(m, n) = HeadersBegin(m) + b[n]
    BY DEF HeaderBegin
  <1> HIDE DEF b, R, eol, w1, w2, w3, L, C
  <1>10. p1 \in Seq(Byte) /\ Len(p1) = Len(w1) + 1
    BY <1>2, Split
  <1> HIDE DEF p1
  <1>11. p2 \in Seq(Byte) /\ Len(p2) = Len(p1) + Len(w2)
    BY <1>2, <1>10, Split
  <1> HIDE DEF p2
  <1>12. p3 \in Seq(Byte) /\ Len(p3) = Len(p2) + 1
    BY <1>2, <1>11, Split
  <1> HIDE DEF p3
  <1>13. p4 \in Seq(Byte) /\ Len(p4) = Len(p3) + Len(w3)
    BY <1>2, <1>12, Split
  <1> HIDE DEF p4
  <1>14. p5 \in Seq(Byte) /\ Len(p5) = Len(p4) + Len(eol)
    BY <1>2, <1>13, Split
  <1> HIDE DEF p5
  <1>15. p6 \in Seq(Byte) /\ Len(p6) = Len(p5) + Len(L)
    BY <1>2, <1>14, Split
  <1> HIDE DEF p6
  <1>16. p7 \in Seq(Byte) /\ Len(p7) = Len(p6) + Len(eol)
    BY <1>2, <1>15, Split
  <1> HIDE DEF p7
  <1>17. Len(R) = Len(p7) + Len(C) /\ Has(R, 0, p7) /\ Has(R, Len(p7), C)
    BY <1>1, <1>2, <1>16, Split
  <1>18. Has(R, 0, p6) /\ Has(R, 0 + Len(p6), eol)
    BY <1>2, <1>15, <1>17, Parted DEF p7
  <1>19. Has(R, 0, p5) /\ Has(R, 0 + Len(p5), L)
    BY <1>2, <1>14, <1>18, Parted DEF p6
  <1>20. Has(R, 0, p4) /\ Has(R, 0 + Len(p4), eol)
    BY <1>2, <1>13, <1>19, Parted DEF p5
  <1>21. Has(R, 0, p3) /\ Has(R, 0 + Len(p3), w3)
    BY <1>2, <1>12, <1>20, Parted DEF p4
  <1>22. Has(R, 0, p2) /\ Has(R, 0 + Len(p2), <<SP>>)
    BY <1>2, <1>11, <1>21, Parted DEF p3
  <1>23. Has(R, 0, p1) /\ Has(R, 0 + Len(p1), w2)
    BY <1>2, <1>10, <1>22, Parted DEF p2
  <1>24. Has(R, 0, w1) /\ Has(R, 0 + Len(w1), <<SP>>)
    BY <1>2, <1>23, Parted DEF p1
  <1>25. /\ Len(w1) \in Nat /\ Len(w2) \in Nat /\ Len(w3) \in Nat /\ Len(L) \in Nat
         /\ Len(C) \in Nat
    BY <1>2, LenProperties
  <1>26. /\ 0 + Len(w1) = WordEnd(m, 1) /\ 0 + Len(p1) = WordBegin(m, 2)
         /\ 0 + Len(p2) = WordEnd(m, 2) /\ 0 + Len(p3) = WordBegin(m, 3)
         /\ 0 + Len(p4) = WordEnd(m, 3) /\ 0 + Len(p5) = HeadersBegin(m)
         /\ HeadersBegin(m) \in Nat
         /\ 0 + Len(p6) = HeadersBegin(m) + Len(L)
         /\ Len(p7) = (HeadersBegin(m) + Len(L)) + Len(eol)
    <2>1. /\ Len(eol) \in Nat
          /\ Len(p1) = Len(w1) + 1 /\ Len(p2) = Len(p1) + Len(w2) /\ Len(p3) = Len(p2) + 1
          /\ Len(p4) = Len(p3) + Len(w3) /\ Len(p5) = Len(p4) + Len(eol)
          /\ Len(p6) = Len(p5) + Len(L) /\ Len(p7) = Len(p6) + Len(eol)
      BY <1>2, <1>10, <1>11, <1>12, <1>13, <1>14, <1>15, <1>16, LenProperties
    <2>2. 0 + Len(w1) = WordEnd(m, 1) /\ 0 + Len(p1) = WordBegin(m, 2) /\ Len(p1) \in Nat
      BY ONLY <1>3, <1>25, <2>1
    <2>3. 0 + Len(p2) = WordEnd(m, 2) /\ 0 + Len(p3) = WordBegin(m, 3) /\ Len(p3) \in Nat
      BY ONLY <1>3, <1>25, <2>1, <2>2
    <2>4. 0 + Len(p4) = WordEnd(m, 3) /\ 0 + Len(p5) = HeadersBegin(m) /\ HeadersBegin(m) \in Nat
      BY ONLY <1>3, <1>4, <1>25, <2>1, <2>3
    <2> QED BY ONLY <1>25, <2>1, <2>2, <2>3, <2>4
  <1>27. /\ HeaderBegin(m, H) = HeadersBegin(m) + Len(L) /\ HeaderBegin(m, 0) = HeadersBegin(m)
         /\ BodyBegin(m) = Len(p7)
         /\ \A n \in 0 .. H :
              HeaderBegin(m, n) \in Nat /\ HeadersBegin(m) <= HeaderBegin(m, n)
    <2>1. HeaderBegin(m, H) = HeadersBegin(m) + Len(L)
      BY <1>6, <1>7
    <2>2. HeaderBegin(m, 0) = HeadersBegin(m)
      BY <1>6, <1>7, <1>26
    <2>3. BodyBegin(m) = Len(p7)
      BY <1>5, <1>26, <2>1 DEF H
    <2>4. ASSUME NEW n \in 0 .. H
          PROVE  HeaderBegin(m, n) \in Nat /\ HeadersBegin(m) <= HeaderBegin(m, n)
      <3> DEFINE x == b[n]
      <3>1. x \in Nat /\ HeaderBegin(m, n) = HeadersBegin(m) + x
        BY <1>6, <1>7
      <3>2. HeadersBegin(m) \in Nat
        BY <1>26
      <3> HIDE DEF x
      <3> QED BY ONLY <3>1, <3>2
    <2> QED BY <2>1, <2>2, <2>3, <2>4
  <1>28. ASSUME NEW n \in 0 .. H - 1
         PROVE  LineLaid(m, n)
    <2> DEFINE h == m.headers[n + 1]
               x == b[n]
               q1 == h.name \o <<":", SP>>
               q2 == q1 \o h.value
    <2>1. n + 1 \in 1 .. H /\ (n + 1) - 1 = n /\ n \in 0 .. H /\ n + 1 \in DOMAIN m.headers
      BY <1>6, Typed
    <2>2. x \in Nat /\ b[n + 1] = x + Len(lines[n + 1]) /\ Has(L, x, lines[n + 1])
      BY <1>6, <2>1
    <2>3. lines[n + 1] = q2 \o eol
      BY <2>1 DEF HeaderLines, Line, eol
    <2>4. h.name \in Seq(Byte) /\ h.value \in Seq(Byte) /\ <<":", SP>> \in Seq(Byte)
          /\ Len(<<":", SP>>) = 2
      BY <2>1, Typed, Separators
    <2>5. /\ HeaderBegin(m, n) = HeadersBegin(m) + x
          /\ HeaderBegin(m, n + 1) = HeadersBegin(m) + b[n + 1]
      BY <1>7
    <2>6. /\ NameEnd(m, n) = HeaderBegin(m, n) + Len(h.name)
          /\ ValueBegin(m, n) = NameEnd(m, n) + 2
          /\ ValueEnd(m, n) = ValueBegin(m, n) + Len(h.value)
      BY DEF NameEnd, ValueBegin, ValueEnd
    <2> HIDE DEF h, x, lines
    <2>7. q1 \in Seq(Byte) /\ Len(q1) = Len(h.name) + 2 /\ Len(h.name) \in Nat
      BY <2>4, Split
    <2> HIDE DEF q1
    <2>8. q2 \in Seq(Byte) /\ Len(q2) = Len(q1) + Len(h.value) /\ Len(h.value) \in Nat
      BY <2>4, <2>7, Split
    <2> HIDE DEF q2
    <2>9. q2 \o eol \in Seq(Byte) /\ Len(q2 \o eol) = Len(q2) + Len(eol)
      BY <1>2, <2>8, Split
    <2>10. Has(R, HeadersBegin(m) + x, q2 \o eol)
      <3>1. Has(R, HeadersBegin(m), L)
        BY <1>19, <1>26
      <3>2. Len(R) \in Nat /\ Len(L) \in Nat /\ Len(q2 \o eol) \in Nat
        BY <1>2, <2>9, LenProperties
      <3> QED BY <2>2, <2>3, <3>1, <3>2, HasIn
    <2> DEFINE a == HeadersBegin(m) + x
    <2>11. a \in Nat
      BY ONLY <1>26, <2>2
    <2> HIDE DEF a
    <2>12. Has(R, a, q2) /\ Has(R, a + Len(q2), eol)
      BY <1>2, <2>8, <2>10, Parted DEF a
    <2>13. Has(R, a, q1) /\ Has(R, a + Len(q1), h.value)
      BY <1>2, <2>4, <2>7, <2>12, Parted DEF q2
    <2>14. Has(R, a, h.name) /\ Has(R, a + Len(h.name), <<":", SP>>)
      BY <1>2, <2>4, <2>13, Parted DEF q1
    <2>15. /\ HeaderBegin(m, n) = a /\ NameEnd(m, n) = a + Len(h.name)
           /\ ValueBegin(m, n) = a + Len(q1) /\ ValueEnd(m, n) = a + Len(q2)
      <3>1. /\ HeaderBegin(m, n) = a /\ NameEnd(m, n) = HeaderBegin(m, n) + Len(h.name)
            /\ ValueBegin(m, n) = NameEnd(m, n) + 2
            /\ ValueEnd(m, n) = ValueBegin(m, n) + Len(h.value)
        BY ONLY <2>5, <2>6 DEF a
      <3>2. /\ Len(q1) = Len(h.name) + 2 /\ Len(q2) = Len(q1) + Len(h.value)
            /\ Len(h.name) \in Nat /\ Len(h.value) \in Nat
        BY <2>7, <2>8
      <3> DEFINE i == Len(h.name)
                 j == Len(h.value)
      <3>3. i \in Nat /\ j \in Nat /\ Len(q1) = i + 2 /\ Len(q2) = Len(q1) + j
        BY <3>2
      <3>4. /\ NameEnd(m, n) = a + i /\ ValueBegin(m, n) = NameEnd(m, n) + 2
            /\ ValueEnd(m, n) = ValueBegin(m, n) + j
        BY <3>1
      <3> HIDE DEF i, j
      <3>5. ValueBegin(m, n) = a + Len(q1) /\ ValueEnd(m, n) = a + Len(q2)
        BY ONLY <2>11, <3>3, <3>4
      <3> QED BY <3>1, <3>5
    <2>16. HeaderBegin(m, n + 1) = ValueEnd(m, n) + Len(eol)
      <3>1. HeaderBegin(m, n + 1) = HeadersBegin(m) + (x + (Len(q2) + Len(eol)))
        BY <2>2, <2>3, <2>5, <2>9
      <3>2. a + Len(q2) = ValueEnd(m, n) /\ Len(q2) \in Nat /\ Len(eol) \in Nat
        BY <1>2, <2>8, <2>15, LenProperties
      <3>3. HeadersBegin(m) \in Nat /\ x \in Nat /\ a = HeadersBegin(m) + x
        BY <1>26, <2>2 DEF a
      <3> QED BY ONLY <3>1, <3>2, <3>3
    <2> QED BY <2>12, <2>13, <2>14, <2>15, <2>16 DEF LineLaid, R, eol, h
  <1>29. Has(R, WordBegin(m, 1), w1) /\ Has(R, WordEnd(m, 1), <<SP>>)
         /\ Has(R, WordBegin(m, 2), w2) /\ Has(R, WordEnd(m, 2), <<SP>>)
         /\ Has(R, WordBegin(m, 3), w3) /\ Has(R, WordEnd(m, 3), eol)
    BY <1>3, <1>20, <1>21, <1>22, <1>23, <1>24, <1>26
  <1>30. Has(R, HeaderBegin(m, H), eol) /\ Has(R, BodyBegin(m), C)
         /\ Len(R) = BodyBegin(m) + Len(C)
    BY <1>17, <1>18, <1>26, <1>27
  <1> QED BY <1>2, <1>27, <1>28, <1>29, <1>30 DEF Laid, R, eol, w1, w2, w3, C

-----------------------------------------------------------------------------
(* What is in the buffer, and what a search finds there.                   *)

Letter == Piece \cup ToSet(Digit)
Came(m) == \A i \in 1 .. fill_ptr : memory[i] = Render(m)[i]

\* The characters of words are none of those that separate words.
LEMMA Separate ==
    /\ \A c \in Letter : c \notin {SP, CR, LF, ":"}
    /\ SP \notin {CR, LF, ":"} /\ CR \notin {SP, LF, ":"} /\ LF \notin {SP, CR, ":"}
    /\ ":" \notin {SP, CR, LF}
  <1>1. \A c \in Piece : c \notin {SP, CR, LF, ":"}
    BY HttpParserAssumption
  <1>2. \A c \in ToSet(Digit) : c \in {"0", "1", "2", "3", "4"}
    BY DEF ToSet, Digit
  <1>3. \A c \in ToSet(Digit) : c \notin {SP, CR, LF, ":"}
    BY <1>2 DEF SP, CR, LF
  <1>4. /\ SP \notin {CR, LF, ":"} /\ CR \notin {SP, LF, ":"} /\ LF \notin {SP, CR, ":"}
        /\ ":" \notin {SP, CR, LF}
    BY DEF SP, CR, LF
  <1> QED BY <1>1, <1>3, <1>4 DEF Letter

\* A byte of a part of the message, as soon as it was received.
LEMMA ByteOf ==
    ASSUME fill_ptr \in Nat, NEW m, Came(m), NEW a, NEW t, Has(Render(m), a, t),
           NEW q \in Nat, a <= q, q < a + Len(t), q < fill_ptr, Len(t) \in Nat
    PROVE  At(q) = t[(q - a) + 1]
  <1>1. a \in Nat /\ (q - a) + 1 \in 1 .. Len(t) /\ a + ((q - a) + 1) = q + 1
        /\ q + 1 \in 1 .. fill_ptr
    BY DEF Has
  <1>2. At(q) = Render(m)[q + 1]
    BY <1>1 DEF Came, At
  <1> QED BY <1>1, <1>2 DEF Has

\* A part of the message that was received is found where it is.
LEMMA PartOf ==
    ASSUME ParserInv, NEW m \in Message, Came(m), NEW a, NEW t \in Seq(Byte),
           Has(Render(m), a, t), a + Len(t) <= fill_ptr
    PROVE  SubSeq(memory, a + 1, a + Len(t)) = t
  <1>1. a \in Nat /\ Len(t) \in Nat /\ fill_ptr \in Nat /\ fill_ptr < buf_size
        /\ buf_size \in Nat
    BY InBuffer, LenProperties DEF Has
  <1> DEFINE n == Len(t)
             x == SubSeq(memory, a + 1, a + n)
  <1>2. a + 1 \in 1 .. buf_size + 1 /\ a + n \in 0 .. buf_size
    BY <1>1
  <1>3. /\ x \in Seq(Byte)
        /\ Len(x) = IF a + 1 <= a + n THEN ((a + n) - (a + 1)) + 1 ELSE 0
        /\ \A i \in 1 .. ((a + n) - (a + 1)) + 1 : x[i] = memory[((a + 1) + i) - 1]
    BY <1>2, PartOfBuffer
  <1> HIDE DEF x, n
  <1>4. n \in Nat /\ ((a + n) - (a + 1)) + 1 = n /\ Len(x) = n
    BY <1>1, <1>3 DEF n
  <1>5. ASSUME NEW i \in 1 .. n
        PROVE  x[i] = t[i]
    <2>1. ((a + 1) + i) - 1 = a + i /\ a + i \in 1 .. fill_ptr
      BY <1>1, <1>4 DEF n
    <2>2. x[i] = memory[a + i]
      BY <1>3, <1>4, <2>1
    <2>3. memory[a + i] = Render(m)[a + i]
      BY <2>1 DEF Came
    <2>4. Render(m)[a + i] = t[i]
      BY DEF Has, n
    <2> QED BY <2>2, <2>3, <2>4
  <1>6. x = t
    <2>1. Len(t) = n
      BY DEF n
    <2> QED BY <1>3, <1>4, <1>5, <2>1, SeqEqual
  <1> QED BY <1>6 DEF x, n

\* The least element of a set.
LEMMA LeastIs ==
    ASSUME NEW T \in SUBSET Nat, NEW x \in T, \A y \in T : x <= y
    PROVE  Min(T) = x
  <1>1. Min(T) \in T /\ \A y \in T : Min(T) <= y
    BY Zenon DEF Min
  <1>2. Min(T) \in Nat /\ x \in Nat /\ Min(T) <= x /\ x <= Min(T)
    BY <1>1
  <1> QED BY <1>2

\* A search ends at s, or at the end of what was received.
LEMMA SeekTo ==
    ASSUME fill_ptr \in Nat, NEW q \in 0 .. fill_ptr, NEW s \in Nat, q <= s, NEW stop,
           \A r \in q .. s - 1 : r < fill_ptr => At(r) \notin stop,
           s < fill_ptr => At(s) \in stop
    PROVE  Seek(q, stop) = IF s < fill_ptr THEN s ELSE fill_ptr
  <1> DEFINE x == IF s < fill_ptr THEN s ELSE fill_ptr
             T == {r \in q .. fill_ptr : r = fill_ptr \/ At(r) \in stop}
  <1>1. T \in SUBSET Nat /\ x \in T
    OBVIOUS
  <1>2. ASSUME NEW r \in T PROVE x <= r
    <2>1. r \in q .. fill_ptr /\ (r = fill_ptr \/ At(r) \in stop) /\ q \in Nat /\ r \in Nat
      OBVIOUS
    <2>2. CASE r = fill_ptr
      BY <2>1, <2>2
    <2>3. CASE r # fill_ptr
      <3>1. ~ (r \in q .. s - 1)
        BY <2>1, <2>3
      <3> QED BY <2>1, <2>3, <3>1
    <2> QED BY <2>2, <2>3
  <1> HIDE DEF T, x
  <1>3. Min(T) = x
    BY <1>1, <1>2, LeastIs
  <1> QED BY <1>3 DEF T, x, Seek

\* The same for what is skipped.
LEMMA PastTo ==
    ASSUME fill_ptr \in Nat, NEW q \in 0 .. fill_ptr, NEW s \in Nat, q <= s, NEW skip,
           \A r \in q .. s - 1 : r < fill_ptr => At(r) \in skip,
           s < fill_ptr => At(s) \notin skip
    PROVE  Past(q, skip) = IF s < fill_ptr THEN s ELSE fill_ptr
  <1> DEFINE x == IF s < fill_ptr THEN s ELSE fill_ptr
             T == {r \in q .. fill_ptr : r = fill_ptr \/ At(r) \notin skip}
  <1>1. T \in SUBSET Nat /\ x \in T
    OBVIOUS
  <1>2. ASSUME NEW r \in T PROVE x <= r
    <2>1. r \in q .. fill_ptr /\ (r = fill_ptr \/ At(r) \notin skip) /\ q \in Nat /\ r \in Nat
      OBVIOUS
    <2>2. CASE r = fill_ptr
      BY <2>1, <2>2
    <2>3. CASE r # fill_ptr
      <3>1. ~ (r \in q .. s - 1)
        BY <2>1, <2>3
      <3> QED BY <2>1, <2>3, <3>1
    <2> QED BY <2>2, <2>3
  <1> HIDE DEF T, x
  <1>3. Min(T) = x
    BY <1>1, <1>2, LeastIs
  <1> QED BY <1>3 DEF T, x, Past

\* The search back ends at s.
LEMMA BackTo ==
    ASSUME NEW q \in Nat, NEW s \in 0 .. q - 1, NEW skip, At(s) \notin skip,
           \A r \in s + 1 .. q - 1 : At(r) \in skip
    PROVE  Back(q, skip) = s
  <1> DEFINE S == {r \in 0 .. q - 1 : At(r) \notin skip}
  <1>1. s \in S /\ \A r \in S : r \in Nat
    OBVIOUS
  <1>2. ASSUME NEW r \in S PROVE s >= r
    <2>1. r \in 0 .. q - 1 /\ ~ (r \in s + 1 .. q - 1)
      OBVIOUS
    <2> QED BY <2>1
  <1> HIDE DEF S
  <1>3. Max(S) \in S /\ \A y \in S : Max(S) >= y
    BY <1>1, <1>2, Zenon DEF Max
  <1>4. Max(S) \in Nat /\ s \in Nat /\ Max(S) >= s /\ s >= Max(S)
    BY <1>1, <1>2, <1>3
  <1>5. Back(q, skip) = Max(S)
    BY DEF Back, S
  <1> QED BY <1>4, <1>5

-----------------------------------------------------------------------------
(* What the parser knows when it has looked at q bytes of the message m.   *)

\* Without a value, the search back for its end goes to the colon (see HeaderValue).
ValueLen(v) == IF v = <<>> THEN -1 ELSE Len(v)
WordAt(m, k) == [offset |-> WordBegin(m, k), len |-> Len(m.start[k])]
HeaderAt(m, n) ==
    LET h == m.headers[n + 1] IN
    [name |-> [offset |-> HeaderBegin(m, n), len |-> Len(h.name)],
     value |-> [offset |-> ValueBegin(m, n), len |-> ValueLen(h.value)]]

\* The words, the headers and the length of the content that were read are right; the
\* length is not known before the header that has it was read.
LengthNoted(f, m) ==
    /\ f.content_length \in {0, Len(Content(m))} /\ ~ f.chunked /\ ~ f.reforming_flag
    /\ f.content_length # Len(Content(m)) =>
         \A i \in 1 .. Len(f.headers) : m.headers[i].name # ContentLength
Known(f, m) ==
    /\ f \in EnvType /\ Len(f.words) <= 3 /\ Len(f.headers) <= Len(m.headers)
    /\ \A k \in 1 .. Len(f.words) : f.words[k] = WordAt(m, k)
    /\ \A i \in 1 .. Len(f.headers) : f.headers[i] = HeaderAt(m, i - 1)
    /\ LengthNoted(f, m)

\* Where the LF is that ends a line, counted from where what is in the line ends.
UpToLF(m) == Len(m.eol) - 1

InWords(f, m, q) ==
    LET k == Len(f.words) + 1 IN
    /\ k <= 3 /\ Len(f.headers) = 0 /\ f.body_base_offset = 0
    /\ \/ f.parse_step = "WORD0" /\ q = WordBegin(m, k)
       \/ /\ f.parse_step = "WORD" /\ f.offset = WordBegin(m, k)
          /\ WordBegin(m, k) < q
          /\ q <= (IF k = 3 THEN WordEnd(m, k) + UpToLF(m) ELSE WordEnd(m, k))

InName(f, m, q, n) ==
    /\ f.parse_step = "HEADER_NAME"
    /\ HeaderBegin(m, n) < q /\ q <= NameEnd(m, n)
BeforeValue(f, m, q, n) ==
    /\ f.parse_step = "HEADER_VALUE0" /\ f.header.name.len = Len(m.headers[n + 1].name)
    /\ NameEnd(m, n) < q /\ q <= ValueBegin(m, n)
InValue(f, m, q, n) ==
    /\ f.parse_step = "HEADER_VALUE" /\ f.header.name.len = Len(m.headers[n + 1].name)
    /\ f.header.value.offset = ValueBegin(m, n)
    /\ ValueBegin(m, n) < q /\ q <= ValueEnd(m, n) + UpToLF(m)
InHeaders(f, m, q) ==
    LET n == Len(f.headers) IN
    /\ Len(f.words) = 3 /\ f.body_base_offset = 0
    /\ \/ f.parse_step = "HEADER_NAME0" /\ q = HeaderBegin(m, n)
       \/ /\ n < Len(m.headers) /\ f.header.name.offset = HeaderBegin(m, n)
          /\ InName(f, m, q, n) \/ BeforeValue(f, m, q, n) \/ InValue(f, m, q, n)

AllRead(f, m) == Len(f.words) = 3 /\ Len(f.headers) = Len(m.headers)
InBody(f, m) ==
    /\ f.parse_step = "BODY" /\ AllRead(f, m) /\ f.body_base_offset = BodyBegin(m)
    /\ f.content_length = Len(Content(m))

Reading(f, m, q) == Known(f, m) /\ (InWords(f, m, q) \/ InHeaders(f, m, q) \/ InBody(f, m))

\* The message is complete, and q bytes long.
Read(f, m, q) ==
    /\ Known(f, m) /\ AllRead(f, m) /\ m.held = 0 /\ q = Len(Render(m))
    /\ \/ f.body_base_offset = 0 /\ Content(m) = <<>>
       \/ f.body_base_offset = BodyBegin(m) /\ f.content_length = Len(Content(m))

-----------------------------------------------------------------------------
(* The ways a case of ParseHttpBuffer ends.                                *)

\* At the beginning of a case.  The CR of the line that ends the headers was not received
\* as the last byte (Recv).
LastLineWhole(m) == Len(m.eol) = 2 => fill_ptr # HeaderBegin(m, Len(m.headers)) + 1
Amid(m) ==
    /\ Laid(m) /\ m.role = role /\ Came(m) /\ LastLineWhole(m)
    /\ fill_ptr <= Len(Render(m)) - m.held
    /\ Reading(e, m, p)

\* At its end.
Went(m) ==
    /\ fill_ptr' = fill_ptr
    /\ \/ at' = "receive" /\ memory' = memory /\ Reading(e', m, process_ptr')
       \/ at' = "parse" /\ memory' = memory /\ Reading(e', m, p')
       \/ /\ at' = "taken" /\ \A i \in 1 .. fill_ptr : memory'[i] = memory[i]
          /\ Read(e', m, process_ptr') /\ process_ptr' = fill_ptr

\* It returns for more.
LEMMA MoreNeeded ==
    ASSUME NEW m, NEW q, NEW f, NeedMore(q, f), Reading(f, m, q)
    PROVE  Went(m)
  BY DEF NeedMore, Went

\* It falls through to the next one.
LEMMA GoneOn ==
    ASSUME Parsing, NEW m, NEW q, NEW f, GoOn(q, f), Reading(f, m, q)
    PROVE  Went(m)
  BY DEF GoOn, Went, Parsing, bufferVars

\* The message is complete: nothing is behind it, and the 0 is written there.
LEMMA Taken ==
    ASSUME ParserInv, Parsing, NEW m \in Message, Amid(m), NEW keeps_rest \in BOOLEAN,
           NEW q, NEW f, Done(q, f, keeps_rest), Known(f, m), AllRead(f, m), q <= fill_ptr,
           q = Len(Render(m)),
           \/ f.body_base_offset = 0 /\ Content(m) = <<>>
           \/ f.body_base_offset = BodyBegin(m) /\ f.content_length = Len(Content(m))
    PROVE  Went(m)
  <1>1. /\ q \in Nat /\ m.held \in Nat /\ fill_ptr \in Nat
        /\ fill_ptr <= Len(Render(m)) - m.held
    BY Typed, LenProperties, InBuffer DEF Amid, Laid
  <1>2. m.held = 0 /\ fill_ptr = q /\ ~ (fill_ptr > q)
    BY <1>1
  <1>3. /\ process_ptr' = q /\ at' = "taken" /\ fill_ptr' = fill_ptr
        /\ memory' = [memory EXCEPT ![q + 1] = NUL]
        /\ e' = [f EXCEPT !.parse_step = "DONE",
                          !.reforming_flag = f.reforming_flag \/ (keeps_rest /\ fill_ptr > q)]
    BY DEF Done
  <1>4. \A i \in 1 .. fill_ptr : memory'[i] = memory[i]
    BY <1>1, <1>2, <1>3, InBuffer
  <1>5. Known(e', m) /\ AllRead(e', m) /\ e'.body_base_offset = f.body_base_offset
        /\ e'.content_length = f.content_length
    <2>1. f \in EnvType /\ f.reforming_flag = FALSE
      BY DEF Known, LengthNoted
    <2>2. e' = [f EXCEPT !.parse_step = "DONE", !.reforming_flag = FALSE]
      BY <1>2, <1>3, <2>1
    <2>3. /\ e' \in EnvType /\ e'.words = f.words /\ e'.headers = f.headers
          /\ e'.content_length = f.content_length /\ e'.chunked = f.chunked
          /\ e'.reforming_flag = FALSE /\ e'.body_base_offset = f.body_base_offset
      BY <2>1, <2>2 DEF EnvType, Steps
    <2> QED BY <2>3 DEF Known, AllRead, LengthNoted
  <1>6. Read(e', m, q)
    BY <1>2, <1>5 DEF Read
  <1> QED BY <1>2, <1>3, <1>4, <1>6 DEF Went

\* The numbers that say where the parts of a message are.
LEMMA Numbers ==
    ASSUME NEW m \in Message, Laid(m)
    PROVE  /\ \A k \in 1 .. 3 :
                /\ WordBegin(m, k) \in Nat /\ Len(m.start[k]) \in Nat
                /\ WordEnd(m, k) = WordBegin(m, k) + Len(m.start[k])
                /\ Has(Render(m), WordBegin(m, k), m.start[k])
                /\ m.start[k] \in Seq(Byte)
           /\ \A k \in 1 .. 2 : WordBegin(m, k + 1) = WordEnd(m, k) + 1
                /\ Has(Render(m), WordEnd(m, k), <<SP>>)
           /\ HeaderBegin(m, 0) = (WordEnd(m, 3) + UpToLF(m)) + 1
           /\ UpToLF(m) \in {0, 1} /\ Len(m.eol) = UpToLF(m) + 1
           /\ m.eol[Len(m.eol)] = LF /\ (UpToLF(m) = 1 => m.eol[1] = CR)
           /\ Len(Content(m)) \in Nat
  <1>1. \A k \in 1 .. 3 : k = 1 \/ k = 2 \/ k = 3
    OBVIOUS
  <1>2. m.start[1] \in Seq(Byte) /\ m.start[2] \in Seq(Byte) /\ m.start[3] \in Seq(Byte)
    BY Typed
  <1>3. Len(m.start[1]) \in Nat /\ Len(m.start[2]) \in Nat /\ Len(m.start[3]) \in Nat
    BY <1>2, LenProperties
  <1>4. /\ WordBegin(m, 1) = 0 /\ WordBegin(m, 2) = Len(m.start[1]) + 1
        /\ WordBegin(m, 3) = (Len(m.start[1]) + 1) + (Len(m.start[2]) + 1)
    BY DEF WordBegin
  <1>5. \A k \in 1 .. 3 : WordEnd(m, k) = WordBegin(m, k) + Len(m.start[k])
    BY DEF WordEnd
  <1>6. /\ WordBegin(m, 1) \in Nat /\ WordBegin(m, 2) \in Nat /\ WordBegin(m, 3) \in Nat
        /\ WordBegin(m, 2) = WordEnd(m, 1) + 1 /\ WordBegin(m, 3) = WordEnd(m, 2) + 1
    <2> DEFINE i == Len(m.start[1])
               j == Len(m.start[2])
    <2>1. /\ i \in Nat /\ j \in Nat
          /\ WordBegin(m, 1) = 0 /\ WordBegin(m, 2) = i + 1
          /\ WordBegin(m, 3) = (i + 1) + (j + 1)
          /\ WordEnd(m, 1) = WordBegin(m, 1) + i /\ WordEnd(m, 2) = WordBegin(m, 2) + j
      <3>1. WordEnd(m, 1) = WordBegin(m, 1) + i /\ WordEnd(m, 2) = WordBegin(m, 2) + j
        <4>1. 1 \in 1 .. 3 /\ 2 \in 1 .. 3
          OBVIOUS
        <4> QED BY <1>5, <4>1, Zenon
      <3> QED BY <1>3, <1>4, <3>1, Zenon
    <2> HIDE DEF i, j
    <2> QED BY ONLY <2>1
  <1>8. \A k \in 1 .. 2 : (k = 1 /\ k + 1 = 2) \/ (k = 2 /\ k + 1 = 3)
    OBVIOUS
  <1>9. /\ UpToLF(m) \in {0, 1} /\ Len(m.eol) = UpToLF(m) + 1
        /\ m.eol[Len(m.eol)] = LF /\ (UpToLF(m) = 1 => m.eol[1] = CR)
    <2>1. CASE m.eol = <<CR, LF>>
      <3>1. Len(m.eol) = 2 /\ m.eol[2] = LF /\ m.eol[1] = CR
        BY <2>1
      <3> QED BY <3>1 DEF UpToLF
    <2>2. CASE m.eol = <<LF>>
      <3>1. Len(m.eol) = 1 /\ m.eol[1] = LF
        BY <2>2
      <3> QED BY <3>1 DEF UpToLF
    <2> QED BY <2>1, <2>2, Typed
  <1>10. HeaderBegin(m, 0) = (WordEnd(m, 3) + UpToLF(m)) + 1
    <2>1. HeaderBegin(m, 0) = WordEnd(m, 3) + Len(m.eol)
      BY DEF Laid, HeadersBegin
    <2>2. WordEnd(m, 3) = WordBegin(m, 3) + Len(m.start[3])
      BY <1>5
    <2>3. WordEnd(m, 3) \in Nat
      BY <1>3, <1>6, <2>2
    <2> QED BY <1>9, <2>1, <2>3
  <1>11. Len(Content(m)) \in Nat
    BY Typed, LenProperties
  <1> QED BY <1>1, <1>2, <1>3, <1>5, <1>6, <1>8, <1>9, <1>10, <1>11 DEF Laid

\* The characters of a word.
LEMMA LettersAt ==
    ASSUME ParserInv, NEW m \in Message, Amid(m), NEW a, NEW t \in Seq(Byte),
           Has(Render(m), a, t), ToSet(t) \subseteq Letter
    PROVE  /\ a \in Nat /\ Len(t) \in Nat
           /\ \A q \in Nat : a <= q /\ q < a + Len(t) /\ q < fill_ptr =>
                At(q) \notin {SP, CR, LF, ":"}
  <1>1. a \in Nat /\ Len(t) \in Nat /\ fill_ptr \in Nat /\ Came(m)
    BY InBuffer, LenProperties DEF Has, Amid
  <1>2. ASSUME NEW q \in Nat, a <= q, q < a + Len(t), q < fill_ptr
        PROVE  At(q) \notin {SP, CR, LF, ":"}
    <2>1. At(q) = t[(q - a) + 1]
      BY <1>1, <1>2, ByteOf
    <2>2. (q - a) + 1 \in 1 .. Len(t)
      BY <1>1, <1>2
    <2>3. t[(q - a) + 1] \in ToSet(t)
      <3>1. (q - a) + 1 \in DOMAIN t
        BY <2>2, InSeq
      <3> QED BY <3>1 DEF ToSet
    <2> QED BY <2>1, <2>3, Separate
  <1> QED BY <1>1, <1>2

\* A space between words.
LEMMA SpaceAt ==
    ASSUME ParserInv, NEW m \in Message, Amid(m), NEW a, Has(Render(m), a, <<SP>>),
           a < fill_ptr
    PROVE  At(a) = SP
  <1>1. a \in Nat /\ fill_ptr \in Nat /\ Came(m) /\ Len(<<SP>>) = 1 /\ <<SP>>[1] = SP
    BY InBuffer DEF Has, Amid
  <1>2. a <= a /\ a < a + Len(<<SP>>) /\ (a - a) + 1 = 1 /\ Len(<<SP>>) \in Nat
    BY <1>1
  <1>3. At(a) = <<SP>>[(a - a) + 1]
    BY <1>1, <1>2, ByteOf
  <1> QED BY <1>1, <1>2, <1>3

\* The end of a line.
LEMMA LineEndAt ==
    ASSUME ParserInv, NEW m \in Message, Amid(m), NEW a, Has(Render(m), a, m.eol)
    PROVE  /\ a \in Nat
           /\ a + UpToLF(m) < fill_ptr => At(a + UpToLF(m)) = LF
           /\ UpToLF(m) = 1 /\ a < fill_ptr => At(a) = CR
           /\ UpToLF(m) = 0 /\ a < fill_ptr => At(a) = LF
  <1>1. a \in Nat /\ fill_ptr \in Nat /\ Came(m) /\ Laid(m)
    BY InBuffer DEF Has, Amid
  <1>2. /\ UpToLF(m) \in {0, 1} /\ Len(m.eol) = UpToLF(m) + 1
        /\ m.eol[Len(m.eol)] = LF /\ (UpToLF(m) = 1 => m.eol[1] = CR)
    BY <1>1, Numbers
  <1> DEFINE u == UpToLF(m)
             l == Len(m.eol)
  <1>3. u \in {0, 1} /\ l = u + 1
    BY <1>2
  <1> HIDE DEF u, l
  <1>4. /\ l \in Nat /\ a + u \in Nat /\ a <= a + u /\ a + u < a + l /\ a < a + l
        /\ ((a + u) - a) + 1 = l /\ (a - a) + 1 = 1 /\ a <= a
        /\ (u = 0 => a + u = a)
    BY ONLY <1>1, <1>3
  <1>5. a + u < fill_ptr => At(a + u) = m.eol[((a + u) - a) + 1]
    BY <1>1, <1>4, ByteOf DEF l
  <1>6. a < fill_ptr => At(a) = m.eol[(a - a) + 1]
    BY <1>1, <1>4, ByteOf DEF l
  <1>7. a + u < fill_ptr => At(a + u) = LF
    BY <1>2, <1>4, <1>5 DEF l
  <1>8. u = 1 /\ a < fill_ptr => At(a) = CR
    BY <1>2, <1>4, <1>6 DEF u
  <1>9. u = 0 /\ a < fill_ptr => At(a) = LF
    BY <1>4, <1>7
  <1> QED BY <1>1, <1>7, <1>8, <1>9 DEF u

\* There is no space in front of a word: it begins where the search for it begins.
LEMMA BeginsAt ==
    ASSUME ParserInv, NEW m \in Message, Amid(m), NEW a, NEW t \in Seq(Byte),
           Has(Render(m), a, t), ToSet(t) \subseteq Letter, t # <<>>, a <= fill_ptr
    PROVE  /\ Past(a, {SP}) = a /\ Len(t) >= 1
           /\ a < fill_ptr => At(a) \notin {SP, CR, LF, ":"}
  <1>1. a \in Nat /\ Len(t) \in Nat /\ fill_ptr \in Nat
    BY LettersAt, InBuffer
  <1>2. Len(t) >= 1
    <2>1. Len(t) # 0
      BY EmptySeq
    <2> QED BY <1>1, <2>1
  <1>3. a < fill_ptr => At(a) \notin {SP, CR, LF, ":"}
    <2>1. a <= a /\ a < a + Len(t)
      BY <1>1, <1>2
    <2> QED BY <1>1, <2>1, LettersAt
  <1>4. Past(a, {SP}) = IF a < fill_ptr THEN a ELSE fill_ptr
    <2>1. a \in 0 .. fill_ptr /\ a <= a
      BY <1>1
    <2>2. \A r \in a .. a - 1 : r < fill_ptr => At(r) \in {SP}
      BY <1>1
    <2>3. a < fill_ptr => At(a) \notin {SP}
      BY <1>3
    <2> HIDE DEF Past
    <2> QED BY <1>1, <2>1, <2>2, <2>3, PastTo
  <1> QED BY <1>1, <1>2, <1>3, <1>4

\* What is said of an honest message here.
LEMMA HonestWords ==
    ASSUME NEW m \in Message, Honest(m)
    PROVE  /\ ~ m.chunked
           /\ \A k \in 1 .. 3 : m.start[k] # <<>> /\ ToSet(m.start[k]) \subseteq Letter
           /\ \A i \in 1 .. Len(m.headers) :
                LET h == m.headers[i] IN
                /\ h.name \in Seq(Byte) /\ h.value \in Seq(Byte)
                /\ h.name # <<>> /\ ToSet(h.name) \subseteq Letter
                /\ ToSet(h.value) \subseteq Letter
                /\ UpToLF(m) = 0 => h.value # <<>>
                /\ h.name = ContentLength => Strtol(h.value) = Len(Content(m))
                /\ h.name # TransferEncoding
           /\ m \notin CutLastLine
  <1>1. DOMAIN m.headers = 1 .. Len(m.headers)
        /\ \A i \in 1 .. Len(m.headers) :
             m.headers[i].name \in Seq(Byte) /\ m.headers[i].value \in Seq(Byte)
    BY Typed
  <1>2. UpToLF(m) = 0 => m.eol = <<LF>>
    <2>1. CASE m.eol = <<CR, LF>>
      <3>1. Len(m.eol) = 2
        BY <2>1
      <3> QED BY <3>1 DEF UpToLF
    <2> QED BY <2>1, Typed
  <1>3. \A k \in 1 .. 3 : m.start[k] # <<>> /\ ToSet(m.start[k]) \subseteq Letter
    BY DEF Honest, Letter
  <1>4. ASSUME NEW i \in 1 .. Len(m.headers)
        PROVE  LET h == m.headers[i] IN
               /\ h.name # <<>> /\ ToSet(h.name) \subseteq Letter
               /\ ToSet(h.value) \subseteq Letter
               /\ m.eol = <<LF>> => h.value # <<>>
               /\ h.name = ContentLength => Strtol(h.value) = Len(Content(m))
               /\ h.name # TransferEncoding
    BY <1>1 DEF Honest, Letter
  <1> QED BY <1>1, <1>2, <1>3, <1>4 DEF Honest

-----------------------------------------------------------------------------
(* The first line.                                                         *)

\* What is known of the message at the beginning of a case.
LEMMA AmidCase ==
    ASSUME ParserInv, Parsing, NEW m \in Message, Amid(m)
    PROVE  /\ Laid(m) /\ m.role = role /\ Came(m) /\ Known(e, m) /\ e \in EnvType
           /\ fill_ptr \in Nat /\ p \in Nat /\ p <= fill_ptr /\ p \in 0 .. fill_ptr
           /\ e.words \in Seq(WordType) /\ Len(e.words) \in Nat /\ Len(e.words) <= 3
           /\ e.headers \in Seq(HeaderType) /\ Len(e.headers) \in Nat
           /\ Len(e.headers) <= Len(m.headers) /\ Len(m.headers) \in Nat
           /\ InWords(e, m, p) \/ InHeaders(e, m, p) \/ InBody(e, m)
  <1>1. e.words \in Seq(WordType) /\ e.headers \in Seq(HeaderType)
    BY InCase DEF EnvType
  <1>2. Len(e.words) \in Nat /\ Len(e.headers) \in Nat
    BY <1>1, LenProperties
  <1>3. Len(e.headers) <= Len(m.headers)
    BY DEF Amid, Reading, Known
  <1>4. p \in Nat /\ fill_ptr \in Nat /\ p <= fill_ptr
    BY InCase
  <1> QED BY <1>1, <1>2, <1>3, <1>4, InCase, Typed DEF Amid, Reading

\* METHOD0, URI0 and VERSION0; VERSION0, STATUSCODE0 and REASONPHRASE0.
LEMMA Word0Goes ==
    ASSUME ParserInv, Parsing, NEW m \in Message, Honest(m), Amid(m), Word0
    PROVE  Went(m)
  <1> DEFINE k == Len(e.words) + 1
             q == Past(p, {SP})
             f == [e EXCEPT !.parse_step = "WORD", !.offset = q]
  <1>1. /\ e.parse_step = "WORD0"
        /\ \/ NeedMore(q, e)
           \/ q < fill_ptr /\ At(q) = LF /\ Refuse
           \/ q < fill_ptr /\ GoOn(q + 1, f)
    BY DEF Word0
  <1>2. k \in 1 .. 3 /\ p = WordBegin(m, k) /\ InWords(e, m, p)
    <2>1. InWords(e, m, p)
      BY <1>1, AmidCase DEF InHeaders, InName, BeforeValue, InValue, InBody
    <2>2. k <= 3 /\ p = WordBegin(m, k)
      BY <1>1, <2>1 DEF InWords
    <2> QED BY <2>1, <2>2, AmidCase
  <1>3. q = p /\ Len(m.start[k]) >= 1 /\ (p < fill_ptr => At(p) # LF)
    <2>1. /\ Has(Render(m), p, m.start[k]) /\ m.start[k] \in Seq(Byte)
          /\ ToSet(m.start[k]) \subseteq Letter /\ m.start[k] # <<>>
      BY <1>2, AmidCase, Numbers, HonestWords
    <2> HIDE DEF k, q
    <2>2. /\ Past(p, {SP}) = p /\ Len(m.start[k]) >= 1
          /\ p < fill_ptr => At(p) \notin {SP, CR, LF, ":"}
      BY <2>1, AmidCase, BeginsAt
    <2> QED BY <2>2 DEF q
  <1> HIDE DEF q
  <1>4. Known(e, m)
    BY AmidCase
  <1>5. CASE NeedMore(q, e)
    <2>1. Reading(e, m, q)
      BY <1>2, <1>3, <1>4 DEF Reading
    <2> QED BY <1>5, <2>1, MoreNeeded
  <1>6. CASE q < fill_ptr /\ At(q) = LF /\ Refuse
    BY <1>3, <1>6
  <1>7. CASE q < fill_ptr /\ GoOn(q + 1, f)
    <2>1. q \in Nat
      BY <1>3, AmidCase
    <2>2. /\ f \in EnvType /\ f.words = e.words /\ f.headers = e.headers
          /\ f.content_length = e.content_length /\ f.chunked = e.chunked
          /\ f.reforming_flag = e.reforming_flag /\ f.body_base_offset = e.body_base_offset
          /\ f.parse_step = "WORD" /\ f.offset = q
      BY <2>1, AmidCase DEF EnvType, Steps
    <2> HIDE DEF f
    <2>3. Known(f, m)
      BY <1>4, <2>2 DEF Known, LengthNoted
    <2>4. /\ WordEnd(m, k) = WordBegin(m, k) + Len(m.start[k])
          /\ WordBegin(m, k) \in Nat /\ Len(m.start[k]) \in Nat /\ UpToLF(m) \in {0, 1}
      BY <1>2, AmidCase, Numbers
    <2>5. /\ q = WordBegin(m, k) /\ WordBegin(m, k) < q + 1 /\ q + 1 <= WordEnd(m, k)
          /\ q + 1 <= WordEnd(m, k) + UpToLF(m)
      <3> DEFINE l == Len(m.start[k])
                 u == UpToLF(m)
      <3>1. /\ WordEnd(m, k) = WordBegin(m, k) + l /\ WordBegin(m, k) \in Nat /\ l \in Nat
            /\ l >= 1 /\ q = WordBegin(m, k) /\ u \in {0, 1}
        BY <1>2, <1>3, <2>4
      <3> HIDE DEF l, u, k
      <3>2. /\ WordBegin(m, k) < q + 1 /\ q + 1 <= WordEnd(m, k) /\ q + 1 <= WordEnd(m, k) + u
        BY ONLY <3>1
      <3> QED BY <3>1, <3>2 DEF u
    <2>6. InWords(f, m, q + 1)
      <3>1. Len(f.words) + 1 = k /\ k <= 3 /\ Len(f.headers) = 0 /\ f.body_base_offset = 0
        BY <1>2, <2>2 DEF InWords
      <3> HIDE DEF k
      <3> QED BY <2>2, <2>5, <3>1 DEF InWords
    <2>7. Reading(f, m, q + 1)
      BY <2>3, <2>6 DEF Reading
    <2> QED BY <1>7, <2>7, GoneOn
  <1> QED BY <1>1, <1>5, <1>6, <1>7

\* The search for the end of a word that ends with a space, or with the line.
LEMMA WordFound ==
    ASSUME ParserInv, Parsing, NEW m \in Message, Honest(m), Amid(m), NEW k \in 1 .. 3,
           WordBegin(m, k) < p,
           p <= (IF k = 3 THEN WordEnd(m, k) + UpToLF(m) ELSE WordEnd(m, k))
    PROVE  LET s == IF k = 3 THEN WordEnd(m, k) + UpToLF(m) ELSE WordEnd(m, k) IN
           /\ s \in Nat
           /\ Seek(p, IF k = 3 THEN {LF} ELSE {SP, LF}) = IF s < fill_ptr THEN s ELSE fill_ptr
           /\ s < fill_ptr => At(s) = IF k = 3 THEN LF ELSE SP
           /\ s < fill_ptr /\ k = 3 => (At(s - 1) = CR <=> UpToLF(m) = 1)
  <1> DEFINE b == WordBegin(m, k)
             d == WordEnd(m, k)
             u == UpToLF(m)
             l == Len(m.start[k])
             s == IF k = 3 THEN d + u ELSE d
             stop == IF k = 3 THEN {LF} ELSE {SP, LF}
  <1>1. /\ Has(Render(m), b, m.start[k]) /\ m.start[k] \in Seq(Byte)
        /\ ToSet(m.start[k]) \subseteq Letter /\ b \in Nat /\ l \in Nat /\ d = b + l
        /\ u \in {0, 1} /\ fill_ptr \in Nat /\ p \in Nat /\ p <= fill_ptr
        /\ p \in 0 .. fill_ptr /\ b < p /\ p <= s
    BY AmidCase, Numbers, HonestWords
  <1>2. \A r \in Nat : b <= r /\ r < d /\ r < fill_ptr => At(r) \notin {SP, CR, LF, ":"}
    BY <1>1, LettersAt
  <1>3. k # 3 => (d < fill_ptr => At(d) = SP)
    <2>1. k # 3 => Has(Render(m), d, <<SP>>)
      BY AmidCase, Numbers
    <2> QED BY <2>1, SpaceAt
  <1>4. k = 3 => /\ d + u < fill_ptr => At(d + u) = LF
                 /\ u = 1 /\ d < fill_ptr => At(d) = CR
    <2>1. k = 3 => Has(Render(m), d, m.eol)
      BY AmidCase DEF Laid
    <2> QED BY <2>1, LineEndAt
  <1> HIDE DEF b, d, u, l
  <1>5. s \in Nat /\ b <= p
    BY ONLY <1>1, k \in 1 .. 3
  <1>6. ASSUME NEW r \in p .. s - 1, r < fill_ptr
        PROVE  At(r) \notin stop
    <2>1. r \in Nat /\ b <= r /\ (r < d \/ (k = 3 /\ u = 1 /\ r = d))
      BY ONLY <1>1, <1>5, <1>6
    <2>2. CASE r < d
      BY <1>2, <1>6, <2>1, <2>2
    <2>3. CASE k = 3 /\ u = 1 /\ r = d
      BY <1>4, <1>6, <2>3, Separate
    <2> QED BY <2>1, <2>2, <2>3
  <1>7. s < fill_ptr => At(s) = IF k = 3 THEN LF ELSE SP
    BY <1>3, <1>4
  <1>8. s < fill_ptr => At(s) \in stop
    BY <1>7
  <1>9. Seek(p, stop) = IF s < fill_ptr THEN s ELSE fill_ptr
    <2> HIDE DEF s, stop
    <2> QED BY <1>1, <1>5, <1>6, <1>8, SeekTo
  <1>10. s < fill_ptr /\ k = 3 => (At(s - 1) = CR <=> u = 1)
    <2>1. SUFFICES ASSUME s < fill_ptr, k = 3
                   PROVE  At(s - 1) = CR <=> u = 1
      OBVIOUS
    <2>2. CASE u = 1
      <3>1. s - 1 = d /\ d < fill_ptr
        BY <1>1, <2>1, <2>2
      <3> QED BY <1>4, <2>1, <2>2, <3>1
    <2>3. CASE u = 0
      <3>1. s - 1 \in Nat /\ b <= s - 1 /\ s - 1 < d /\ s - 1 < fill_ptr
        BY <1>1, <2>1, <2>3
      <3> QED BY <1>2, <2>3, <3>1
    <2> QED BY <1>1, <2>2, <2>3
  <1> QED BY <1>5, <1>7, <1>9, <1>10 DEF b, d, u

\* The methods and versions of an honest message are known.
LEMMA HonestKnown ==
    ASSUME NEW m \in Message, Honest(m), m.role = role, role \in {"request", "response"},
           NEW k \in 1 .. 3
    PROVE  WordKnown(k, m.start[k])
  <1>1. \A t \in Versions : Len(t) = 2
    BY DEF Versions
  <1>2. role = "request" => m.start[1] \in Methods /\ m.start[3] \in Versions
    BY DEF Honest
  <1>3. role = "response" => m.start[1] \in Versions
    BY DEF Honest
  <1>4. \A t \in Versions : VersionKnown(t)
    BY <1>1 DEF VersionKnown
  <1>5. CASE role = "request"
    BY <1>2, <1>4, <1>5 DEF WordKnown
  <1>6. CASE role = "response"
    BY <1>3, <1>4, <1>6 DEF WordKnown
  <1> QED BY <1>5, <1>6

\* METHOD, URI and VERSION; VERSION, STATUSCODE and REASONPHRASE.
LEMMA WordGoes ==
    ASSUME ParserInv, Parsing, NEW m \in Message, Honest(m), Amid(m), Word
    PROVE  Went(m)
  <1> DEFINE k == Len(e.words) + 1
             q == Seek(p, IF k = 3 THEN {LF} ELSE {SP, LF})
             cr == IF k = 3 /\ At(q - 1) = CR THEN 1 ELSE 0
             w == [offset |-> e.offset, len |-> q - e.offset - cr]
             invalid == (k < 3 /\ At(q) = LF) \/ ~ WordKnown(k, Text(w))
             step == IF k = 3 THEN "HEADER_NAME0" ELSE "WORD0"
             f == [e EXCEPT !.parse_step = step, !.words = Append(@, w)]
             s == IF k = 3 THEN WordEnd(m, k) + UpToLF(m) ELSE WordEnd(m, k)
             l == Len(m.start[k])
  <1>1. /\ e.parse_step = "WORD"
        /\ \/ q = fill_ptr /\ NeedMore(q, e)
           \/ q < fill_ptr /\ invalid /\ Refuse
           \/ q < fill_ptr /\ GoOn(q + 1, f)
    BY DEF Word
  <1>2. /\ k \in 1 .. 3 /\ InWords(e, m, p)
        /\ Len(e.headers) = 0 /\ e.body_base_offset = 0
        /\ e.offset = WordBegin(m, k) /\ WordBegin(m, k) < p /\ p <= s
    <2>1. InWords(e, m, p)
      BY <1>1, AmidCase DEF InHeaders, InName, BeforeValue, InValue, InBody
    <2>2. /\ k <= 3 /\ Len(e.headers) = 0 /\ e.body_base_offset = 0
          /\ e.offset = WordBegin(m, k) /\ WordBegin(m, k) < p /\ p <= s
      BY <1>1, <2>1 DEF InWords
    <2>3. k \in 1 .. 3
      BY <2>2, AmidCase
    <2> QED BY <2>1, <2>2, <2>3
  <1>3. Len(e.words) = k - 1 /\ Len(e.words) + 1 = k
    BY AmidCase
  <1> HIDE DEF k
  <1>4. /\ s \in Nat /\ q = IF s < fill_ptr THEN s ELSE fill_ptr
        /\ s < fill_ptr => At(s) = IF k = 3 THEN LF ELSE SP
        /\ s < fill_ptr /\ k = 3 => (At(s - 1) = CR <=> UpToLF(m) = 1)
    BY <1>2, WordFound
  <1>5. /\ Has(Render(m), WordBegin(m, k), m.start[k]) /\ m.start[k] \in Seq(Byte)
        /\ WordEnd(m, k) = WordBegin(m, k) + l /\ WordBegin(m, k) \in Nat /\ l \in Nat
        /\ UpToLF(m) \in {0, 1} /\ Came(m) /\ Known(e, m)
        /\ fill_ptr \in Nat /\ p \in Nat /\ p <= fill_ptr
    BY <1>2, AmidCase, Numbers
  <1> HIDE DEF q
  <1>6. CASE q = fill_ptr /\ NeedMore(q, e)
    <2>1. WordBegin(m, k) < fill_ptr /\ fill_ptr <= s
      <3>1. ~ (s < fill_ptr)
        BY <1>4, <1>5, <1>6
      <3> HIDE DEF s
      <3> QED BY ONLY <1>2, <1>4, <1>5, <3>1
    <2>2. InWords(e, m, q)
      BY <1>1, <1>2, <1>3, <1>6, <2>1 DEF InWords, k
    <2>3. Reading(e, m, q)
      BY <1>5, <2>2 DEF Reading
    <2> QED BY <1>6, <2>3, MoreNeeded
  <1>7. ASSUME q < fill_ptr
        PROVE  /\ q = s /\ s < fill_ptr /\ q \in Nat
               /\ w = WordAt(m, k) /\ Text(w) = m.start[k] /\ ~ invalid
    <2>1. q = s /\ s < fill_ptr /\ q \in Nat
      <3> HIDE DEF s
      <3> QED BY ONLY <1>4, <1>5, <1>7
    <2>2. cr = IF k = 3 THEN UpToLF(m) ELSE 0
      <3> HIDE DEF s
      <3> QED BY <1>4, <1>5, <2>1
    <2>3. (q - e.offset) - cr = l
      <3>1. q = IF k = 3 THEN WordEnd(m, k) + UpToLF(m) ELSE WordEnd(m, k)
        BY <2>1
      <3> HIDE DEF cr, l
      <3> QED BY ONLY <1>2, <1>5, <2>2, <3>1
    <2>4. w = WordAt(m, k)
      <3> HIDE DEF cr
      <3> QED BY <1>2, <2>3 DEF WordAt, l
    <2>5. Text(w) = m.start[k]
      <3>1. WordBegin(m, k) + l <= fill_ptr
        <4>1. WordEnd(m, k) <= s
          <5> HIDE DEF l
          <5> QED BY ONLY <1>5
        <4> HIDE DEF s, l
        <4> QED BY ONLY <1>4, <1>5, <2>1, <4>1
      <3>2. SubSeq(memory, WordBegin(m, k) + 1, WordBegin(m, k) + Len(m.start[k])) = m.start[k]
        BY <1>5, <3>1, PartOf
      <3>3. w.offset = WordBegin(m, k) /\ w.len = Len(m.start[k])
        BY <2>4 DEF WordAt
      <3> HIDE DEF w
      <3> QED BY <3>2, <3>3 DEF Text
    <2>6. WordKnown(k, m.start[k])
      <3>1. role \in {"request", "response"} /\ m.role = role
        BY AmidCase DEF ParserInv, HttpParserTypeOK
      <3> QED BY <1>2, <3>1, HonestKnown
    <2>7. ~ (k < 3 /\ At(q) = LF)
      <3> HIDE DEF s
      <3> QED BY <1>4, <2>1, Separate
    <2> HIDE DEF w
    <2> QED BY <2>1, <2>4, <2>5, <2>6, <2>7
  <1> HIDE DEF w, invalid
  <1>8. CASE q < fill_ptr /\ GoOn(q + 1, f)
    <2>1. q = s /\ q \in Nat /\ w = WordAt(m, k)
      BY <1>7, <1>8
    <2>2. w \in WordType
      BY <1>5, <2>1 DEF WordAt, WordType
    <2>3. /\ e.words \in Seq(WordType) /\ step \in {"HEADER_NAME0", "WORD0"}
          /\ (step = "HEADER_NAME0" <=> k = 3)
      BY AmidCase
    <2>4. /\ Append(e.words, w) \in Seq(WordType) /\ Len(Append(e.words, w)) = Len(e.words) + 1
          /\ \A i \in 1 .. Len(e.words) : Append(e.words, w)[i] = e.words[i]
          /\ Append(e.words, w)[Len(e.words) + 1] = w
      BY <2>2, <2>3, AppendProperties
    <2> HIDE DEF step
    <2>5. /\ f \in EnvType /\ f.words = Append(e.words, w) /\ f.headers = e.headers
          /\ f.content_length = e.content_length /\ f.chunked = e.chunked
          /\ f.reforming_flag = e.reforming_flag /\ f.body_base_offset = e.body_base_offset
          /\ f.parse_step = step
      BY <2>3, <2>4, AmidCase DEF EnvType, Steps
    <2> HIDE DEF f
    <2>6. Len(f.words) = k /\ \A i \in 1 .. k : f.words[i] = WordAt(m, i)
      <3>1. \A i \in 1 .. Len(e.words) : e.words[i] = WordAt(m, i)
        BY <1>5 DEF Known
      <3>2. \A i \in 1 .. k : i \in 1 .. Len(e.words) \/ i = Len(e.words) + 1
        BY <1>2, <1>3
      <3> QED BY <1>3, <2>1, <2>4, <2>5, <3>1, <3>2
    <2>7. Known(f, m)
      <3>1. Len(f.words) <= 3
        BY <1>2, <2>6
      <3> QED BY <1>5, <2>5, <2>6, <3>1 DEF Known, LengthNoted
    <2>8. CASE k = 3
      <3>1. q + 1 = HeaderBegin(m, 0)
        BY <2>1, <2>8, AmidCase, Numbers
      <3>2. InHeaders(f, m, q + 1)
        BY <1>2, <2>3, <2>5, <2>6, <2>8, <3>1 DEF InHeaders
      <3>3. Reading(f, m, q + 1)
        BY <2>7, <3>2 DEF Reading
      <3> QED BY <1>8, <3>3, GoneOn
    <2>9. CASE k # 3
      <3>1. k \in 1 .. 2
        BY <1>2, <2>9
      <3>2. q + 1 = WordBegin(m, k + 1) /\ k + 1 <= 3
        BY <2>1, <2>9, <3>1, AmidCase, Numbers
      <3>3. InWords(f, m, q + 1)
        BY <1>2, <2>3, <2>5, <2>6, <2>9, <3>2 DEF InWords
      <3>4. Reading(f, m, q + 1)
        BY <2>7, <3>3 DEF Reading
      <3> QED BY <1>8, <3>4, GoneOn
    <2> QED BY <2>8, <2>9
  <1> QED BY <1>1, <1>6, <1>7, <1>8

-----------------------------------------------------------------------------
(* The headers.                                                            *)

\* The numbers that say where the parts of a header are.
LEMMA HeaderNumbers ==
    ASSUME NEW m \in Message, Laid(m), Honest(m), NEW n \in Nat, n < Len(m.headers)
    PROVE  LET h == m.headers[n + 1] IN
           /\ n + 1 \in 1 .. Len(m.headers) /\ LineLaid(m, n)
           /\ h.name \in Seq(Byte) /\ h.value \in Seq(Byte)
           /\ Len(h.name) \in Nat /\ Len(h.value) \in Nat
           /\ HeaderBegin(m, n) \in Nat /\ NameEnd(m, n) = HeaderBegin(m, n) + Len(h.name)
           /\ NameEnd(m, n) \in Nat /\ ValueBegin(m, n) = NameEnd(m, n) + 2
           /\ ValueEnd(m, n) = ValueBegin(m, n) + Len(h.value) /\ ValueEnd(m, n) \in Nat
           /\ UpToLF(m) \in {0, 1} /\ HeaderBegin(m, n + 1) = (ValueEnd(m, n) + UpToLF(m)) + 1
  <1> DEFINE h == m.headers[n + 1]
             i == Len(h.name)
             j == Len(h.value)
             u == UpToLF(m)
  <1>1. n + 1 \in 1 .. Len(m.headers) /\ n \in 0 .. Len(m.headers) - 1
        /\ n \in 0 .. Len(m.headers)
    BY Typed
  <1>2. /\ LineLaid(m, n) /\ HeaderBegin(m, n) \in Nat
        /\ h.name \in Seq(Byte) /\ h.value \in Seq(Byte) /\ i \in Nat /\ j \in Nat
    BY <1>1, Typed, LenProperties DEF Laid
  <1>3. /\ NameEnd(m, n) = HeaderBegin(m, n) + i /\ ValueBegin(m, n) = NameEnd(m, n) + 2
        /\ ValueEnd(m, n) = ValueBegin(m, n) + j
    BY DEF NameEnd, ValueBegin, ValueEnd
  <1>4. u \in {0, 1} /\ Len(m.eol) = u + 1
        /\ HeaderBegin(m, n + 1) = ValueEnd(m, n) + Len(m.eol)
    BY <1>2, Numbers DEF LineLaid
  <1> HIDE DEF i, j, u, h
  <1>5. /\ NameEnd(m, n) \in Nat /\ ValueEnd(m, n) \in Nat
        /\ HeaderBegin(m, n + 1) = (ValueEnd(m, n) + u) + 1
    BY ONLY <1>2, <1>3, <1>4
  <1> QED BY <1>1, <1>2, <1>3, <1>4, <1>5 DEF h, i, j, u

\* The headers are behind the first word.
LEMMA HeadersBehind ==
    ASSUME NEW m \in Message, Laid(m)
    PROVE  /\ BodyBegin(m) \in Nat /\ WordBegin(m, 1) + Len(m.start[1]) <= BodyBegin(m)
           /\ Len(m.headers) \in Nat /\ HeaderBegin(m, Len(m.headers)) \in Nat
           /\ BodyBegin(m) = (HeaderBegin(m, Len(m.headers)) + UpToLF(m)) + 1
  <1> DEFINE i == Len(m.start[1])
             j == Len(m.start[2])
             l == Len(m.start[3])
             u == UpToLF(m)
             b == HeaderBegin(m, Len(m.headers))
  <1>1. 1 \in 1 .. 3 /\ 2 \in 1 .. 3 /\ 3 \in 1 .. 3 /\ 1 \in 1 .. 2 /\ 2 \in 1 .. 2
        /\ 1 + 1 = 2 /\ 2 + 1 = 3 /\ Len(m.headers) \in 0 .. Len(m.headers)
        /\ Len(m.headers) \in Nat
    BY Typed
  <1>2. /\ WordEnd(m, 1) = WordBegin(m, 1) + i /\ WordEnd(m, 2) = WordBegin(m, 2) + j
        /\ WordEnd(m, 3) = WordBegin(m, 3) + l
        /\ i \in Nat /\ j \in Nat /\ l \in Nat
    BY <1>1, Numbers, Zenon
  <1>3. WordBegin(m, 2) = WordEnd(m, 1) + 1 /\ WordBegin(m, 3) = WordEnd(m, 2) + 1
    BY <1>1, Numbers
  <1>4. /\ WordBegin(m, 1) \in Nat /\ Len(m.eol) = u + 1 /\ u \in {0, 1}
    BY <1>1, Numbers
  <1>5. /\ b \in Nat /\ HeadersBegin(m) <= b /\ BodyBegin(m) = b + Len(m.eol)
        /\ HeadersBegin(m) = WordEnd(m, 3) + Len(m.eol)
    BY <1>1 DEF Laid, HeadersBegin, BodyBegin
  <1> HIDE DEF i, j, l, u, b
  <1>6. BodyBegin(m) \in Nat /\ WordBegin(m, 1) + i <= BodyBegin(m) /\ BodyBegin(m) = (b + u) + 1
    BY ONLY <1>2, <1>3, <1>4, <1>5
  <1> QED BY <1>1, <1>5, <1>6 DEF i, b, u

\* The end of the headers: a message without content is complete.
LEMMA EndGoes ==
    ASSUME ParserInv, Parsing, NEW m \in Message, Honest(m), Amid(m), AllRead(e, m),
           e.body_base_offset = 0, BodyBegin(m) <= fill_ptr, EndOfHeaders(BodyBegin(m))
    PROVE  Went(m)
  <1> DEFINE q == BodyBegin(m)
             head == role = "request" /\ Text(e.words[1]) = <<"HEA", "D">>
             body == [e EXCEPT !.parse_step = "BODY", !.body_base_offset = q]
  <1>1. /\ Known(e, m) /\ m.role = role /\ Laid(m)
        /\ Len(Render(m)) = q + Len(Content(m)) /\ Len(Content(m)) \in Nat /\ q \in Nat
        /\ ~ e.chunked /\ e.content_length \in {0, Len(Content(m))} /\ Came(m)
        /\ e.content_length # Len(Content(m)) =>
             \A i \in 1 .. Len(m.headers) : m.headers[i].name # ContentLength
    BY AmidCase, Numbers DEF Laid, Known, LengthNoted, AllRead, Has
  <1>2. head => m.start[1] = <<"HEA", "D">>
    <2>1. e.words[1] = WordAt(m, 1) /\ Has(Render(m), WordBegin(m, 1), m.start[1])
          /\ m.start[1] \in Seq(Byte)
      BY <1>1, Numbers DEF Known, AllRead
    <2>2. WordBegin(m, 1) + Len(m.start[1]) <= fill_ptr
      <3>1. WordBegin(m, 1) + Len(m.start[1]) <= BodyBegin(m)
            /\ WordBegin(m, 1) \in Nat /\ Len(m.start[1]) \in Nat
        BY <1>1, HeadersBehind, Numbers
      <3> DEFINE x == WordBegin(m, 1) + Len(m.start[1])
      <3>2. x \in Nat /\ x <= q
        BY <3>1
      <3>3. fill_ptr \in Nat /\ q <= fill_ptr /\ q \in Nat
        BY <1>1, AmidCase
      <3> HIDE DEF x, q
      <3>4. x <= fill_ptr
        BY ONLY <3>2, <3>3
      <3> QED BY <3>4 DEF x
    <2>3. SubSeq(memory, WordBegin(m, 1) + 1, WordBegin(m, 1) + Len(m.start[1])) = m.start[1]
      BY <1>1, <2>1, <2>2, PartOf
    <2> DEFINE w == e.words[1]
    <2>4. w.offset = WordBegin(m, 1) /\ w.len = Len(m.start[1])
      BY <2>1 DEF WordAt
    <2> HIDE DEF w
    <2>5. Text(w) = m.start[1]
      BY <2>3, <2>4 DEF Text
    <2> QED BY <2>5 DEF w
  <1>3. CASE head
    <2>1. Content(m) = <<>>
      BY <1>1, <1>2, <1>3 DEF Honest
    <2>2. Len(Content(m)) = 0 /\ q = Len(Render(m))
      BY <1>1, <2>1, EmptySeq
    <2>3. Done(q, e, FALSE)
      BY <1>3 DEF EndOfHeaders
    <2> HIDE DEF q
    <2> QED BY <1>1, <2>1, <2>2, <2>3, Taken DEF q
  <1>4. CASE ~ head /\ e.content_length > 0
    <2>1. e.content_length = Len(Content(m))
      BY <1>1, <1>4
    <2>2. GoOn(q, body)
      BY <1>4 DEF EndOfHeaders
    <2>3. /\ body \in EnvType /\ body.words = e.words /\ body.headers = e.headers
          /\ body.content_length = e.content_length /\ body.chunked = e.chunked
          /\ body.reforming_flag = e.reforming_flag /\ body.body_base_offset = q
          /\ body.parse_step = "BODY"
      BY <1>1, AmidCase DEF EnvType, Steps
    <2> HIDE DEF body, q
    <2>4. Known(body, m) /\ InBody(body, m)
      BY <1>1, <2>1, <2>3 DEF Known, LengthNoted, InBody, AllRead, q
    <2>5. Reading(body, m, q)
      BY <2>4 DEF Reading
    <2> QED BY <2>2, <2>5, GoneOn
  <1>5. CASE ~ head /\ ~ (e.content_length > 0)
    <2>1. e.content_length = 0
      BY <1>1, <1>5
    <2>2. Content(m) = <<>>
      <3>1. CASE Len(Content(m)) = 0
        BY <3>1, Typed, EmptySeq
      <3>2. CASE Len(Content(m)) # 0
        <4>1. \A i \in DOMAIN m.headers : m.headers[i].name # ContentLength
          BY <1>1, <2>1, <3>2, Typed
        <4> QED BY <4>1 DEF Honest
      <3> QED BY <3>1, <3>2
    <2>3. Len(Content(m)) = 0 /\ q = Len(Render(m))
      BY <1>1, <2>2, EmptySeq
    <2>4. Done(q, e, FALSE)
      BY <1>1, <1>5 DEF EndOfHeaders
    <2> HIDE DEF q
    <2> QED BY <1>1, <2>2, <2>3, <2>4, Taken DEF q
  <1> QED BY <1>3, <1>4, <1>5

\* HEADER_NAME0: the next header, or the end of the headers.
LEMMA HeaderName0Goes ==
    ASSUME ParserInv, Parsing, NEW m \in Message, Honest(m), Amid(m), HeaderName0
    PROVE  Went(m)
  <1> DEFINE n == Len(e.headers)
             q == Past(p, {SP})
             f == [e EXCEPT !.parse_step = "HEADER_NAME", !.header.name.offset = q]
  <1>1. /\ e.parse_step = "HEADER_NAME0"
        /\ \/ q = fill_ptr /\ NeedMore(q, e)
           \/ q < fill_ptr /\ At(q) = CR /\ q + 1 = fill_ptr
           \/ q < fill_ptr /\ At(q) = CR /\ q + 1 # fill_ptr
              /\ EndOfHeaders(IF At(q + 1) = LF THEN q + 2 ELSE q + 1)
           \/ q < fill_ptr /\ At(q) = LF /\ EndOfHeaders(q + 1)
           \/ q < fill_ptr /\ At(q) \notin {CR, LF} /\ GoOn(q + 1, f)
    BY DEF HeaderName0
  <1>2. /\ InHeaders(e, m, p) /\ p = HeaderBegin(m, n) /\ n \in Nat /\ n <= Len(m.headers)
        /\ Len(e.words) = 3 /\ e.body_base_offset = 0 /\ Len(m.headers) \in Nat
    <2>1. InHeaders(e, m, p)
      BY <1>1, AmidCase DEF InWords, InBody
    <2>2. p = HeaderBegin(m, n) /\ Len(e.words) = 3 /\ e.body_base_offset = 0
      BY <1>1, <2>1 DEF InHeaders, InName, BeforeValue, InValue
    <2> QED BY <2>1, <2>2, AmidCase
  <1>3. Known(e, m) /\ Laid(m) /\ Came(m) /\ p \in 0 .. fill_ptr /\ fill_ptr \in Nat /\ p \in Nat
        /\ p <= fill_ptr
    BY AmidCase
  <1>4. CASE n < Len(m.headers)
    <2> DEFINE t == m.headers[n + 1].name
    <2>1. /\ Has(Render(m), p, t) /\ t \in Seq(Byte) /\ ToSet(t) \subseteq Letter /\ t # <<>>
          /\ NameEnd(m, n) = HeaderBegin(m, n) + Len(t) /\ HeaderBegin(m, n) \in Nat
      BY <1>2, <1>3, <1>4, HeaderNumbers, HonestWords DEF LineLaid
    <2> HIDE DEF t, q
    <2>2. /\ q = p /\ Len(t) >= 1 /\ (p < fill_ptr => At(p) \notin {SP, CR, LF, ":"})
      BY <1>3, <2>1, BeginsAt DEF q
    <2>3. CASE q = fill_ptr /\ NeedMore(q, e)
      BY <1>2, <1>3, <2>2, <2>3, MoreNeeded DEF Reading
    <2>4. CASE q < fill_ptr /\ At(q) \notin {CR, LF} /\ GoOn(q + 1, f)
      <3>1. q \in Nat /\ NameEnd(m, n) = q + Len(t) /\ HeaderBegin(m, n) = q
        BY <1>2, <1>3, <2>1, <2>2
      <3>2. /\ f \in EnvType /\ f.words = e.words /\ f.headers = e.headers
            /\ f.content_length = e.content_length /\ f.chunked = e.chunked
            /\ f.reforming_flag = e.reforming_flag /\ f.body_base_offset = e.body_base_offset
            /\ f.parse_step = "HEADER_NAME" /\ f.header.name.offset = q
        BY <3>1, AmidCase DEF EnvType, Steps, HeaderType, WordType
      <3> HIDE DEF f
      <3>3. Known(f, m)
        BY <1>3, <3>2 DEF Known, LengthNoted
      <3>4. HeaderBegin(m, n) < q + 1 /\ q + 1 <= NameEnd(m, n)
        <4>1. Len(t) \in Nat
          BY <2>1, LenProperties
        <4> QED BY ONLY <2>2, <3>1, <4>1
      <3>5. Len(f.headers) = n
        BY <3>2
      <3> HIDE DEF n
      <3>6. InName(f, m, q + 1, n)
        BY <3>2, <3>4 DEF InName
      <3>7. InHeaders(f, m, q + 1)
        BY <1>2, <1>4, <3>1, <3>2, <3>5, <3>6 DEF InHeaders
      <3> QED BY <2>4, <3>3, <3>7, GoneOn DEF Reading
    <2> QED BY <1>1, <2>2, <2>3, <2>4
  <1>5. CASE ~ (n < Len(m.headers))
    <2> DEFINE u == UpToLF(m)
    <2>1. n = Len(m.headers)
      BY <1>2, <1>5
    <2>2. /\ Has(Render(m), p, m.eol) /\ u \in {0, 1} /\ Len(m.eol) = u + 1
          /\ BodyBegin(m) = (p + u) + 1
      BY <1>2, <1>3, <2>1, Numbers, HeadersBehind DEF Laid
    <2>3. /\ p + u < fill_ptr => At(p + u) = LF
          /\ u = 1 /\ p < fill_ptr => At(p) = CR
          /\ u = 0 /\ p < fill_ptr => At(p) = LF
      BY <2>2, LineEndAt
    <2>4. u = 1 => p + 1 # fill_ptr
      <3>1. u = 1 => Len(m.eol) = 2
        BY <2>2
      <3> QED BY <1>2, <2>1, <3>1 DEF Amid, LastLineWhole
    <2>5. AllRead(e, m)
      BY <1>2, <2>1 DEF AllRead
    <2> HIDE DEF u
    <2>6. q = p
      <3>1. p < fill_ptr => At(p) \notin {SP}
        BY <2>2, <2>3, Separate
      <3>2. p <= p /\ \A r \in p .. p - 1 : r < fill_ptr => At(r) \in {SP}
        BY <1>3
      <3>3. Past(p, {SP}) = IF p < fill_ptr THEN p ELSE fill_ptr
        BY <1>3, <3>1, <3>2, PastTo
      <3> QED BY <1>3, <3>3
    <2> HIDE DEF q, n
    <2>7. CASE q = fill_ptr /\ NeedMore(q, e)
      BY <1>2, <1>3, <2>6, <2>7, MoreNeeded DEF Reading
    <2>8. CASE q < fill_ptr /\ At(q) = CR
      <3>1. u = 1
        BY <2>2, <2>3, <2>6, <2>8, Separate
      <3>2. p + 1 < fill_ptr
        BY <1>3, <2>4, <2>6, <2>8, <3>1
      <3>3. At(q + 1) = LF /\ q + 2 = BodyBegin(m) /\ BodyBegin(m) <= fill_ptr
        BY <1>3, <2>2, <2>3, <2>6, <3>1, <3>2
      <3>4. EndOfHeaders(BodyBegin(m))
        <4>1. At(q) # LF /\ q # fill_ptr
          BY <1>3, <2>6, <2>8, Separate
        <4>2. q + 1 # fill_ptr
          BY <2>4, <2>6, <3>1
        <4> QED BY <1>1, <2>8, <3>3, <4>1, <4>2
      <3> QED BY <1>2, <2>5, <3>3, <3>4, EndGoes
    <2>9. CASE q < fill_ptr /\ At(q) # CR
      <3>1. u = 0
        BY <2>2, <2>3, <2>6, <2>9
      <3>2. At(q) = LF /\ q + 1 = BodyBegin(m) /\ BodyBegin(m) <= fill_ptr
        BY <1>3, <2>2, <2>3, <2>6, <2>9, <3>1
      <3>3. EndOfHeaders(BodyBegin(m))
        <4>1. q # fill_ptr
          BY <1>3, <2>6, <2>9
        <4> QED BY <1>1, <2>9, <3>2, <4>1
      <3> QED BY <1>2, <2>5, <3>2, <3>3, EndGoes
    <2> QED BY <1>1, <2>7, <2>8, <2>9
  <1> QED BY <1>4, <1>5

\* Inside a header: which one it is.
LEMMA InHeaderCase ==
    ASSUME ParserInv, Parsing, NEW m \in Message, Honest(m), Amid(m),
           e.parse_step \in {"HEADER_NAME", "HEADER_VALUE0", "HEADER_VALUE"}
    PROVE  LET n == Len(e.headers) IN
           /\ n \in Nat /\ n < Len(m.headers) /\ Len(m.headers) \in Nat
           /\ Len(e.words) = 3 /\ e.body_base_offset = 0
           /\ e.header.name.offset = HeaderBegin(m, n)
           /\ InName(e, m, p, n) \/ BeforeValue(e, m, p, n) \/ InValue(e, m, p, n)
  <1>1. InHeaders(e, m, p)
    BY AmidCase DEF InWords, InBody
  <1> QED BY <1>1, AmidCase DEF InHeaders

\* HEADER_NAME: the name ends with the colon.
LEMMA HeaderNameGoes ==
    ASSUME ParserInv, Parsing, NEW m \in Message, Honest(m), Amid(m), HeaderName
    PROVE  Went(m)
  <1> DEFINE n == Len(e.headers)
             t == m.headers[n + 1].name
             d == NameEnd(m, n)
             q == Seek(p, {SP, ":", LF})
             r == Seek(q, {":", LF})
             l == q - e.header.name.offset
             named == [e EXCEPT !.header.name.len = l]
             f == [named EXCEPT !.parse_step = "HEADER_VALUE0"]
  <1>1. /\ e.parse_step = "HEADER_NAME"
        /\ \/ q = fill_ptr /\ NeedMore(q, e)
           \/ q < fill_ptr /\ At(r) = LF /\ Refuse
           \/ q < fill_ptr /\ At(r) # LF /\ r = fill_ptr /\ NeedMore(r, named)
           \/ q < fill_ptr /\ At(r) # LF /\ r < fill_ptr /\ GoOn(r + 1, f)
    BY DEF HeaderName
  <1>2. /\ n \in Nat /\ n < Len(m.headers) /\ Len(e.words) = 3 /\ e.body_base_offset = 0
        /\ e.header.name.offset = HeaderBegin(m, n)
        /\ HeaderBegin(m, n) < p /\ p <= d
    BY <1>1, InHeaderCase DEF InName, BeforeValue, InValue
  <1>3. /\ Known(e, m) /\ Laid(m) /\ Came(m) /\ fill_ptr \in Nat /\ p \in Nat /\ p <= fill_ptr
        /\ p \in 0 .. fill_ptr
    BY AmidCase
  <1>4. /\ Has(Render(m), HeaderBegin(m, n), t) /\ t \in Seq(Byte)
        /\ ToSet(t) \subseteq Letter /\ Has(Render(m), d, <<":", SP>>)
        /\ d = HeaderBegin(m, n) + Len(t) /\ HeaderBegin(m, n) \in Nat /\ d \in Nat
        /\ Len(t) \in Nat /\ ValueBegin(m, n) = d + 2
    BY <1>2, <1>3, HeaderNumbers, HonestWords DEF LineLaid
  <1>5. \A x \in Nat : HeaderBegin(m, n) <= x /\ x < d /\ x < fill_ptr =>
             At(x) \notin {SP, CR, LF, ":"}
    BY <1>4, LettersAt
  <1>6. d < fill_ptr => At(d) = ":"
    <2> DEFINE sep == <<":", SP>>
    <2>1. Len(sep) = 2 /\ sep[1] = ":" /\ 2 \in Nat /\ Has(Render(m), d, sep)
      BY <1>4
    <2> HIDE DEF sep, d
    <2>2. d \in Nat /\ d <= d /\ d < d + Len(sep) /\ (d - d) + 1 = 1 /\ Len(sep) \in Nat
      BY <1>4, <2>1
    <2>3. d < fill_ptr => At(d) = sep[(d - d) + 1]
      BY <1>3, <2>1, <2>2, ByteOf
    <2> QED BY <2>1, <2>2, <2>3
  <1> HIDE DEF t, d, n
  <1>7. q = IF d < fill_ptr THEN d ELSE fill_ptr
    <2>1. ASSUME NEW x \in p .. d - 1, x < fill_ptr
          PROVE  At(x) \notin {SP, ":", LF}
      <3>1. x \in Nat /\ HeaderBegin(m, n) <= x /\ x < d
        BY <1>2, <1>3, <1>4, <2>1
      <3> QED BY <1>5, <2>1, <3>1
    <2>2. d < fill_ptr => At(d) \in {SP, ":", LF}
      BY <1>6
    <2> QED BY <1>2, <1>3, <1>4, <2>1, <2>2, SeekTo
  <1> HIDE DEF q
  <1>8. CASE q = fill_ptr /\ NeedMore(q, e)
    <2>1. HeaderBegin(m, n) < q /\ q <= d
      BY ONLY <1>2, <1>3, <1>4, <1>7, <1>8
    <2>2. InName(e, m, q, n)
      BY <1>1, <2>1 DEF InName, d
    <2>3. InHeaders(e, m, q)
      BY <1>2, <2>2 DEF InHeaders, n
    <2> QED BY <1>3, <1>8, <2>3, MoreNeeded DEF Reading
  <1>9. CASE q < fill_ptr
    <2>1. q = d /\ d < fill_ptr /\ At(d) = ":" /\ q # fill_ptr
      BY <1>3, <1>4, <1>6, <1>7, <1>9
    <2>2. r = d
      <3>1. d \in 0 .. fill_ptr /\ d <= d /\ At(d) \in {":", LF}
            /\ \A x \in d .. d - 1 : x < fill_ptr => At(x) \notin {":", LF}
        BY <1>3, <1>4, <2>1
      <3>2. Seek(d, {":", LF}) = IF d < fill_ptr THEN d ELSE fill_ptr
        BY <1>3, <1>4, <3>1, SeekTo
      <3> QED BY <2>1, <3>2
    <2> HIDE DEF r
    <2>3. At(r) # LF /\ r # fill_ptr
      BY <2>1, <2>2, Separate
    <2>4. GoOn(r + 1, f)
      BY <1>1, <2>1, <2>3
    <2>5. l = Len(t) /\ l \in Nat
      BY <1>2, <1>4, <2>1
    <2> HIDE DEF l
    <2>6. /\ named \in EnvType /\ named.words = e.words /\ named.headers = e.headers
          /\ named.content_length = e.content_length /\ named.chunked = e.chunked
          /\ named.reforming_flag = e.reforming_flag
          /\ named.body_base_offset = e.body_base_offset
          /\ named.header.name.offset = e.header.name.offset /\ named.header.name.len = l
      <3>1. l \in Int /\ e \in EnvType
        BY <2>5, AmidCase
      <3> QED BY <3>1 DEF EnvType, Steps, HeaderType, WordType
    <2> HIDE DEF named
    <2>7. /\ f \in EnvType /\ f.words = e.words /\ f.headers = e.headers
          /\ f.content_length = e.content_length /\ f.chunked = e.chunked
          /\ f.reforming_flag = e.reforming_flag /\ f.body_base_offset = e.body_base_offset
          /\ f.header.name.offset = e.header.name.offset /\ f.header.name.len = l
          /\ f.parse_step = "HEADER_VALUE0"
      BY <2>6 DEF EnvType, Steps
    <2> HIDE DEF f
    <2>8. Known(f, m)
      BY <1>3, <2>7 DEF Known, LengthNoted
    <2>9. NameEnd(m, n) < r + 1 /\ r + 1 <= ValueBegin(m, n)
      BY <1>4, <2>2 DEF d
    <2>10. BeforeValue(f, m, r + 1, n)
      BY <2>5, <2>7, <2>9 DEF BeforeValue, t
    <2>11. Len(f.headers) = n
      BY <2>7 DEF n
    <2>12. InHeaders(f, m, r + 1)
      BY <1>2, <2>7, <2>10, <2>11 DEF InHeaders
    <2> QED BY <2>4, <2>8, <2>12, GoneOn DEF Reading
  <1> QED BY <1>1, <1>8, <1>9

\* HEADER_VALUE0: one space is in front of the value, or of the line's end.
LEMMA HeaderValue0Goes ==
    ASSUME ParserInv, Parsing, NEW m \in Message, Honest(m), Amid(m), HeaderValue0
    PROVE  Went(m)
  <1> DEFINE n == Len(e.headers)
             t == m.headers[n + 1].value
             d == ValueBegin(m, n)
             u == UpToLF(m)
             q == Past(p, {SP})
             f == [e EXCEPT !.parse_step = "HEADER_VALUE", !.header.value.offset = q]
  <1>1. /\ e.parse_step = "HEADER_VALUE0"
        /\ \/ q = fill_ptr /\ NeedMore(q, e)
           \/ q < fill_ptr /\ At(q) = LF /\ Refuse
           \/ q < fill_ptr /\ GoOn(q + 1, f)
    BY DEF HeaderValue0
  <1>2. /\ n \in Nat /\ n < Len(m.headers) /\ Len(e.words) = 3 /\ e.body_base_offset = 0
        /\ e.header.name.offset = HeaderBegin(m, n)
        /\ e.header.name.len = Len(m.headers[n + 1].name)
        /\ NameEnd(m, n) < p /\ p <= d
    BY <1>1, InHeaderCase DEF InName, BeforeValue, InValue
  <1>3. /\ Known(e, m) /\ Laid(m) /\ Came(m) /\ fill_ptr \in Nat /\ p \in Nat /\ p <= fill_ptr
        /\ p \in 0 .. fill_ptr
    BY AmidCase
  <1>4. /\ Has(Render(m), d, t) /\ t \in Seq(Byte) /\ ToSet(t) \subseteq Letter
        /\ Has(Render(m), NameEnd(m, n), <<":", SP>>)
        /\ Has(Render(m), ValueEnd(m, n), m.eol) /\ ValueEnd(m, n) = d + Len(t)
        /\ d = NameEnd(m, n) + 2 /\ NameEnd(m, n) \in Nat /\ d \in Nat
        /\ Len(t) \in Nat /\ u \in {0, 1} /\ (u = 0 => t # <<>>)
    <2>1. LineLaid(m, n) /\ n + 1 \in 1 .. Len(m.headers)
      BY <1>2, <1>3, HeaderNumbers
    <2>2. /\ t \in Seq(Byte) /\ ToSet(t) \subseteq Letter /\ (u = 0 => t # <<>>)
      BY <2>1, HonestWords
    <2>3. /\ ValueEnd(m, n) = d + Len(t) /\ d = NameEnd(m, n) + 2 /\ NameEnd(m, n) \in Nat
          /\ Len(t) \in Nat /\ u \in {0, 1}
      BY <1>2, <1>3, HeaderNumbers
    <2>4. d \in Nat
      BY <2>3
    <2> QED BY <2>1, <2>2, <2>3, <2>4 DEF LineLaid
  <1> DEFINE c == NameEnd(m, n) + 1
  <1>5. c < fill_ptr => At(c) = SP
    <2>1. Len(<<":", SP>>) = 2 /\ <<":", SP>>[2] = SP /\ 2 \in Nat
      OBVIOUS
    <2>2. /\ c \in Nat /\ NameEnd(m, n) <= c /\ c < NameEnd(m, n) + 2
          /\ (c - NameEnd(m, n)) + 1 = 2
      BY <1>4
    <2> HIDE DEF c
    <2>3. c < fill_ptr => At(c) = <<":", SP>>[(c - NameEnd(m, n)) + 1]
      BY <1>3, <1>4, <2>1, <2>2, ByteOf
    <2> QED BY <2>1, <2>2, <2>3
  <1> HIDE DEF d, n, t
  <1>6. d < fill_ptr => At(d) \notin {SP, LF}
    <2>1. CASE t = <<>>
      <3>1. u = 1 /\ Len(t) = 0 /\ ValueEnd(m, n) = d
        BY <1>4, <2>1, EmptySeq
      <3>2. d < fill_ptr => At(d) = CR
        BY <1>4, <3>1, LineEndAt
      <3> QED BY <3>2, Separate
    <2>2. CASE t # <<>>
      <3>1. Len(t) # 0
        BY <1>4, <2>2, EmptySeq
      <3>2. d <= d /\ d < d + Len(t)
        BY <1>4, <3>1
      <3> QED BY <1>4, <3>2, LettersAt
    <2> QED BY <2>1, <2>2
  <1>7. q = IF d < fill_ptr THEN d ELSE fill_ptr
    <2>1. ASSUME NEW x \in p .. d - 1, x < fill_ptr
          PROVE  At(x) \in {SP}
      <3>1. x = c
        BY <1>2, <1>3, <1>4, <2>1
      <3> QED BY <1>5, <2>1, <3>1
    <2>2. d < fill_ptr => At(d) \notin {SP}
      BY <1>6
    <2> QED BY <1>2, <1>3, <1>4, <2>1, <2>2, PastTo
  <1> HIDE DEF q
  <1>8. CASE q = fill_ptr /\ NeedMore(q, e)
    <2>1. NameEnd(m, n) < q /\ q <= d
      BY ONLY <1>2, <1>3, <1>4, <1>7, <1>8
    <2>2. BeforeValue(e, m, q, n)
      BY <1>1, <1>2, <2>1 DEF BeforeValue, d
    <2>3. InHeaders(e, m, q)
      BY <1>2, <2>2 DEF InHeaders, n
    <2> QED BY <1>3, <1>8, <2>3, MoreNeeded DEF Reading
  <1>9. CASE q < fill_ptr
    <2>1. q = d /\ d < fill_ptr /\ At(q) # LF /\ q # fill_ptr /\ q \in Nat
      BY <1>3, <1>4, <1>6, <1>7, <1>9
    <2>2. GoOn(q + 1, f)
      BY <1>1, <2>1
    <2>3. /\ f \in EnvType /\ f.words = e.words /\ f.headers = e.headers
          /\ f.content_length = e.content_length /\ f.chunked = e.chunked
          /\ f.reforming_flag = e.reforming_flag /\ f.body_base_offset = e.body_base_offset
          /\ f.header.name.offset = e.header.name.offset
          /\ f.header.name.len = e.header.name.len
          /\ f.header.value.offset = q /\ f.parse_step = "HEADER_VALUE"
      BY <2>1, AmidCase DEF EnvType, Steps, HeaderType, WordType
    <2> HIDE DEF f
    <2>4. Known(f, m)
      BY <1>3, <2>3 DEF Known, LengthNoted
    <2>5. ValueBegin(m, n) < q + 1 /\ q + 1 <= ValueEnd(m, n) + u
      <3> DEFINE l == Len(t)
      <3>1. l \in Nat /\ (u = 0 => l # 0)
        BY <1>4, EmptySeq
      <3>2. ValueEnd(m, n) = d + l
        BY <1>4
      <3>3. ValueBegin(m, n) = d /\ d \in Nat /\ q = d /\ u \in {0, 1}
        BY <1>4, <2>1 DEF d
      <3> HIDE DEF l, u
      <3> QED BY ONLY <3>1, <3>2, <3>3
    <2>6. InValue(f, m, q + 1, n)
      BY <1>2, <2>1, <2>3, <2>5 DEF InValue, d
    <2>7. Len(f.headers) = n
      BY <2>3 DEF n
    <2>8. InHeaders(f, m, q + 1)
      BY <1>2, <2>3, <2>6, <2>7 DEF InHeaders
    <2> QED BY <2>2, <2>4, <2>8, GoneOn DEF Reading
  <1> QED BY <1>1, <1>8, <1>9

\* The text of a header that was read is the one that was sent, also where there is none.
LEMMA HeaderText ==
    ASSUME ParserInv, NEW m \in Message, Honest(m), Laid(m), Came(m),
           NEW n \in Nat, n < Len(m.headers), ValueEnd(m, n) <= fill_ptr
    PROVE  LET h == HeaderAt(m, n) IN
           /\ Text(h.name) = m.headers[n + 1].name
           /\ Text(h.value) = m.headers[n + 1].value
           /\ h \in HeaderType
  <1> DEFINE s == m.headers[n + 1].name
             t == m.headers[n + 1].value
             h == HeaderAt(m, n)
             i == Len(s)
             j == Len(t)
  <1>1. /\ LineLaid(m, n) /\ s \in Seq(Byte) /\ t \in Seq(Byte) /\ i \in Nat /\ j \in Nat
        /\ HeaderBegin(m, n) \in Nat /\ NameEnd(m, n) = HeaderBegin(m, n) + i
        /\ ValueBegin(m, n) = NameEnd(m, n) + 2 /\ ValueEnd(m, n) = ValueBegin(m, n) + j
    BY HeaderNumbers
  <1>2. /\ Has(Render(m), HeaderBegin(m, n), s) /\ Has(Render(m), ValueBegin(m, n), t)
    BY <1>1 DEF LineLaid
  <1>3. /\ h.name.offset = HeaderBegin(m, n) /\ h.name.len = i
        /\ h.value.offset = ValueBegin(m, n) /\ h.value.len = ValueLen(t)
    BY DEF HeaderAt
  <1>4. ValueLen(t) \in Int
    BY <1>1 DEF ValueLen
  <1> HIDE DEF h, s, t, i, j
  <1>5. h \in HeaderType
    <2>1. HeaderBegin(m, n) \in Nat /\ i \in Int /\ ValueBegin(m, n) \in Nat
      BY ONLY <1>1
    <2>2. h = [name |-> [offset |-> HeaderBegin(m, n), len |-> i],
               value |-> [offset |-> ValueBegin(m, n), len |-> ValueLen(t)]]
      BY DEF HeaderAt, h, i, s, t
    <2> QED BY <1>4, <2>1, <2>2 DEF HeaderType, WordType
  <1>6. fill_ptr \in Nat
    BY InBuffer
  <1>7. HeaderBegin(m, n) + i <= fill_ptr /\ ValueBegin(m, n) + j <= fill_ptr
        /\ ValueBegin(m, n) \in Nat
    BY ONLY <1>1, <1>6, ValueEnd(m, n) <= fill_ptr
  <1>8. Text(h.name) = s
    <2>1. SubSeq(memory, HeaderBegin(m, n) + 1, HeaderBegin(m, n) + Len(s)) = s
      BY <1>1, <1>2, <1>7, PartOf DEF i
    <2> QED BY <1>3, <2>1 DEF Text, i
  <1>9. Text(h.value) = t
    <2>1. CASE t = <<>>
      <3> DEFINE b == ValueBegin(m, n)
                 x == SubSeq(memory, b + 1, b + (-1))
      <3>1. Text(h.value) = x
        BY <1>3, <2>1 DEF Text, ValueLen
      <3>2. b + 1 \in Int /\ b + (-1) \in Int /\ ~ (b + 1 <= b + (-1))
        BY <1>7
      <3> HIDE DEF b
      <3>3. x \in Seq(Byte) /\ Len(x) = 0
        <4>1. \A k \in b + 1 .. b + (-1) : memory[k] \in Byte
          BY <3>2
        <4> QED BY <3>2, <4>1, SubSeqProperties
      <3> HIDE DEF x
      <3>4. x = <<>>
        BY <3>3, EmptySeq
      <3> QED BY <2>1, <3>1, <3>4
    <2>2. CASE t # <<>>
      <3>1. SubSeq(memory, ValueBegin(m, n) + 1, ValueBegin(m, n) + Len(t)) = t
        BY <1>1, <1>2, <1>7, PartOf DEF j
      <3> QED BY <1>3, <2>2, <3>1 DEF Text, ValueLen
    <2> QED BY <2>1, <2>2
  <1> QED BY <1>5, <1>8, <1>9 DEF h, s, t

\* What a header that is no Transfer-Encoding changes.
LEMMA WithHeaderIs ==
    ASSUME e \in EnvType, NEW h \in HeaderType, Text(h.name) # TransferEncoding
    PROVE  LET g == WithHeader(h) IN
           /\ g \in EnvType /\ g.words = e.words /\ g.headers = Append(e.headers, h)
           /\ g.chunked = e.chunked /\ g.reforming_flag = e.reforming_flag
           /\ g.body_base_offset = e.body_base_offset
           /\ g.content_length = IF Text(h.name) = ContentLength THEN Strtol(Text(h.value))
                                 ELSE e.content_length
  <1> DEFINE n == Strtol(Text(h.value))
             f == [e EXCEPT !.headers = Append(@, h), !.header = NoHeader]
             length == [f EXCEPT !.content_length = n]
             trailer == [f EXCEPT !.TRAILER = h.value]
             g == WithHeader(h)
  <1>1. g \in EnvType /\ g.words = e.words /\ g.body_base_offset = e.body_base_offset
    BY WithHeaderIsEnv
  <1> HIDE DEF n
  <1>2. /\ f.headers = Append(e.headers, h) /\ f.chunked = e.chunked
        /\ f.reforming_flag = e.reforming_flag /\ f.content_length = e.content_length
        /\ DOMAIN f = DOMAIN e
    BY DEF EnvType
  <1>3. f \in EnvType
    <2>1. Append(e.headers, h) \in Seq(HeaderType)
      BY AppendProperties DEF EnvType
    <2>2. NoHeader \in HeaderType
      BY DEF NoHeader, NoWord, HeaderType, WordType
    <2> QED BY <2>1, <2>2 DEF EnvType
  <1> HIDE DEF f
  <1>4. /\ length.headers = f.headers /\ length.chunked = f.chunked
        /\ length.reforming_flag = f.reforming_flag /\ length.content_length = n
    BY <1>3 DEF EnvType
  <1>5. /\ trailer.headers = f.headers /\ trailer.chunked = f.chunked
        /\ trailer.reforming_flag = f.reforming_flag
        /\ trailer.content_length = f.content_length
    BY <1>3 DEF EnvType
  <1>6. CASE Text(h.name) = ContentLength
    <2>0. Text(h.name) # TrailerName
      BY <1>6 DEF ContentLength, TrailerName
    <2>1. g = length
      BY <1>6, <2>0 DEF WithHeader, f, n
    <2> HIDE DEF g, length
    <2> QED BY <1>1, <1>2, <1>4, <1>6, <2>1 DEF g, n
  <1>7. CASE Text(h.name) # ContentLength /\ Text(h.name) = TrailerName
    <2>1. g = trailer
      BY <1>7 DEF WithHeader, f
    <2> HIDE DEF g, trailer
    <2> QED BY <1>1, <1>2, <1>5, <1>7, <2>1 DEF g
  <1>8. CASE Text(h.name) # ContentLength /\ Text(h.name) # TrailerName
    <2>1. g = f
      BY <1>8 DEF WithHeader, f
    <2> HIDE DEF g
    <2> QED BY <1>1, <1>2, <1>8, <2>1 DEF g
  <1> QED BY <1>6, <1>7, <1>8

\* The search for the end of a value, and back for its last byte.
LEMMA ValueFound ==
    ASSUME ParserInv, Parsing, NEW m \in Message, Honest(m), Amid(m),
           NEW n \in Nat, n < Len(m.headers), InValue(e, m, p, n)
    PROVE  LET s == ValueEnd(m, n) + UpToLF(m)
               t == m.headers[n + 1].value
           IN /\ s \in Nat /\ p <= s
              /\ Seek(p, {LF}) = IF s < fill_ptr THEN s ELSE fill_ptr
              /\ s < fill_ptr =>
                   (Back(s, {SP, CR}) + 1) - ValueBegin(m, n) = ValueLen(t)
  <1> DEFINE t == m.headers[n + 1].value
             a == NameEnd(m, n)
             b == ValueBegin(m, n)
             d == ValueEnd(m, n)
             u == UpToLF(m)
             j == Len(t)
             s == d + u
             sep == <<":", SP>>
  <1>1. /\ b < p /\ p <= s /\ Came(m) /\ Laid(m) /\ fill_ptr \in Nat /\ p \in Nat
        /\ p <= fill_ptr /\ p \in 0 .. fill_ptr
    BY AmidCase DEF InValue
  <1>2. /\ LineLaid(m, n) /\ n + 1 \in 1 .. Len(m.headers)
        /\ a \in Nat /\ b = a + 2 /\ j \in Nat /\ d = b + j /\ u \in {0, 1}
    BY <1>1, HeaderNumbers
  <1>3. /\ t \in Seq(Byte) /\ ToSet(t) \subseteq Letter /\ (u = 0 => t # <<>>)
    BY <1>2, HonestWords
  <1>4. /\ Has(Render(m), a, sep) /\ Has(Render(m), b, t) /\ Has(Render(m), d, m.eol)
        /\ Len(sep) = 2 /\ sep[1] = ":" /\ sep[2] = SP
    BY <1>2 DEF LineLaid
  <1>5. /\ d + u < fill_ptr => At(d + u) = LF
        /\ u = 1 /\ d < fill_ptr => At(d) = CR
    BY <1>1, <1>4, LineEndAt
  <1>6. j = 0 <=> t = <<>>
    BY <1>3, EmptySeq
  <1> HIDE DEF t, a, b, d, u, j, sep
  <1>7. \A r \in Nat : b <= r /\ r < d /\ r < fill_ptr => At(r) \notin {SP, CR, LF, ":"}
    BY <1>2, <1>3, <1>4, LettersAt DEF j
  <1>8. s \in Nat /\ b \in Nat /\ d \in Nat
    BY ONLY <1>2
  <1>9. Seek(p, {LF}) = IF s < fill_ptr THEN s ELSE fill_ptr
    <2>1. ASSUME NEW r \in p .. s - 1, r < fill_ptr
          PROVE  At(r) \notin {LF}
      <3>1. r \in Nat /\ b <= r /\ (r < d \/ (u = 1 /\ r = d))
        BY ONLY <1>1, <1>2, <1>8, <2>1
      <3> QED BY <1>5, <1>7, <2>1, <3>1, Separate
    <2>2. s < fill_ptr => At(s) \in {LF}
      BY <1>5
    <2> HIDE DEF s
    <2> QED BY <1>1, <1>8, <2>1, <2>2, SeekTo
  <1>10. ASSUME s < fill_ptr
         PROVE  (Back(s, {SP, CR}) + 1) - b = ValueLen(t)
    <2>1. CASE t = <<>>
      <3>1. j = 0 /\ u = 1 /\ s = a + 3 /\ d = a + 2
        BY <1>2, <1>3, <1>6, <2>1
      <3>2. At(a) = ":" /\ At(a + 1) = SP
        <4>1. /\ a <= a /\ a < a + Len(sep) /\ a < fill_ptr /\ (a - a) + 1 = 1
              /\ a + 1 \in Nat /\ a <= a + 1 /\ a + 1 < a + Len(sep) /\ a + 1 < fill_ptr
              /\ ((a + 1) - a) + 1 = 2 /\ Len(sep) \in Nat
          BY <1>1, <1>2, <1>4, <1>10, <3>1
        <4>2. At(a) = sep[(a - a) + 1]
          BY <1>1, <1>2, <1>4, <4>1, ByteOf
        <4>3. At(a + 1) = sep[((a + 1) - a) + 1]
          BY <1>1, <1>2, <1>4, <4>1, ByteOf
        <4> QED BY <1>4, <4>1, <4>2, <4>3
      <3>3. At(d) = CR
        <4>1. d < fill_ptr
          BY <1>1, <1>8, <1>10, <3>1
        <4> QED BY <1>5, <3>1, <4>1
      <3>4. \A r \in a + 1 .. s - 1 : r = a + 1 \/ r = d
        BY <1>2, <3>1
      <3>5. \A r \in a + 1 .. s - 1 : At(r) \in {SP, CR}
        BY <3>2, <3>3, <3>4
      <3>6. a \in 0 .. s - 1 /\ At(a) \notin {SP, CR}
        BY <1>2, <3>1, <3>2, Separate
      <3> HIDE DEF s
      <3>7. Back(s, {SP, CR}) = a
        BY <1>8, <3>5, <3>6, BackTo
      <3> QED BY <1>2, <2>1, <3>7 DEF ValueLen
    <2>2. CASE t # <<>>
      <3>1. j >= 1
        BY <1>2, <1>6, <2>2
      <3>2. /\ d - 1 \in 0 .. s - 1 /\ d - 1 \in Nat /\ b <= d - 1 /\ d - 1 < d
            /\ d - 1 < fill_ptr /\ (d - 1) + 1 = d
        BY ONLY <1>1, <1>2, <1>8, <1>10, <3>1
      <3>3. At(d - 1) \notin {SP, CR}
        BY <1>7, <3>2
      <3>4. ASSUME NEW r \in (d - 1) + 1 .. s - 1
            PROVE  At(r) \in {SP, CR}
        <4>1. r = d /\ u = 1 /\ d < fill_ptr
          BY ONLY <1>1, <1>2, <1>8, <1>10, <3>4
        <4> QED BY <1>5, <4>1
      <3> DEFINE x == d - 1
      <3> HIDE DEF s, x
      <3>5. Back(s, {SP, CR}) = x
        BY <1>8, <3>2, <3>3, <3>4, BackTo DEF x
      <3>6. (x + 1) - b = j
        BY <1>2, <3>2 DEF x
      <3> QED BY <2>2, <3>5, <3>6 DEF ValueLen, j
    <2> QED BY <2>1, <2>2
  <1> QED BY <1>1, <1>8, <1>9, <1>10 DEF s, d, u, b, t

\* HEADER_VALUE: the header is complete.
LEMMA HeaderValueGoes ==
    ASSUME ParserInv, Parsing, NEW m \in Message, Honest(m), Amid(m), HeaderValue
    PROVE  Went(m)
  <1> DEFINE n == Len(e.headers)
             t == m.headers[n + 1].value
             s == ValueEnd(m, n) + UpToLF(m)
             q == Seek(p, {LF})
             end == Back(q, {SP, CR}) + 1
             h == [e.header EXCEPT !.value.len = end - e.header.value.offset]
             f == WithHeader(h)
             g == [f EXCEPT !.parse_step = "HEADER_NAME0"]
  <1>1. /\ e.parse_step = "HEADER_VALUE"
        /\ \/ q = fill_ptr /\ NeedMore(q, e)
           \/ q < fill_ptr /\ f.chunked
           \/ q < fill_ptr /\ ~ f.chunked /\ GoOn(q + 1, g)
    BY DEF HeaderValue
  <1>2. /\ n \in Nat /\ n < Len(m.headers) /\ Len(m.headers) \in Nat
        /\ Len(e.words) = 3 /\ e.body_base_offset = 0
        /\ e.header.name.offset = HeaderBegin(m, n) /\ InValue(e, m, p, n)
    BY <1>1, InHeaderCase DEF InName, BeforeValue
  <1>3. /\ Known(e, m) /\ Laid(m) /\ Came(m) /\ fill_ptr \in Nat /\ p \in Nat /\ p <= fill_ptr
        /\ p \in 0 .. fill_ptr
    BY AmidCase
  <1>4. /\ s \in Nat /\ p <= s /\ q = IF s < fill_ptr THEN s ELSE fill_ptr
        /\ s < fill_ptr => (Back(s, {SP, CR}) + 1) - ValueBegin(m, n) = ValueLen(t)
    BY <1>2, ValueFound
  <1>5. /\ e.header.name.len = Len(m.headers[n + 1].name)
        /\ e.header.value.offset = ValueBegin(m, n)
        /\ ValueBegin(m, n) < p
    BY <1>2 DEF InValue
  <1> HIDE DEF n
  <1>6. CASE q = fill_ptr /\ NeedMore(q, e)
    <2>1. p <= q /\ q <= s
      <3>1. fill_ptr <= s
        <4>1. ~ (s < fill_ptr)
          BY <1>3, <1>4, <1>6
        <4> HIDE DEF s
        <4> QED BY ONLY <1>3, <1>4, <4>1
      <3> QED BY <1>3, <1>6, <3>1
    <2>2. ValueBegin(m, n) \in Nat
      <3>1. NameEnd(m, n) \in Nat /\ ValueBegin(m, n) = NameEnd(m, n) + 2
        BY <1>2, <1>3, HeaderNumbers
      <3> QED BY <3>1
    <2>3. ValueBegin(m, n) < q
      BY <1>3, <1>5, <1>6, <2>2
    <2>4. InValue(e, m, q, n)
      BY <1>1, <1>5, <2>1, <2>3 DEF InValue
    <2>5. InHeaders(e, m, q)
      BY <1>2, <2>4 DEF InHeaders, n
    <2> QED BY <1>3, <1>6, <2>5, MoreNeeded DEF Reading
  <1>7. CASE q < fill_ptr
    <2>1. q = s /\ s < fill_ptr /\ q \in Nat /\ q # fill_ptr
      <3> HIDE DEF s, q
      <3> QED BY ONLY <1>3, <1>4, <1>7
    <2> DEFINE l == end - e.header.value.offset
    <2>2. l = ValueLen(t)
      BY <1>4, <1>5, <2>1
    <2>3. h = [e.header EXCEPT !.value.len = l]
      OBVIOUS
    <2> HIDE DEF l, h
    <2>4. h = HeaderAt(m, n)
      <3>1. e.header \in HeaderType
        BY AmidCase DEF EnvType
      <3> DEFINE x == e.header
      <3>2. /\ x \in HeaderType /\ x.name.offset = HeaderBegin(m, n)
            /\ x.name.len = Len(m.headers[n + 1].name) /\ x.value.offset = ValueBegin(m, n)
            /\ h = [x EXCEPT !.value.len = l]
        BY <1>2, <1>5, <2>3, <3>1
      <3> HIDE DEF x
      <3>3. /\ x.name = [offset |-> HeaderBegin(m, n), len |-> Len(m.headers[n + 1].name)]
        BY <3>2 DEF HeaderType, WordType
      <3>4. [x.value EXCEPT !.len = l] = [offset |-> ValueBegin(m, n), len |-> l]
        BY <3>2 DEF HeaderType, WordType
      <3>5. h = [name |-> x.name, value |-> [x.value EXCEPT !.len = l]]
        BY <3>2 DEF HeaderType
      <3> QED BY <2>2, <3>3, <3>4, <3>5 DEF HeaderAt
    <2>5. /\ n + 1 \in 1 .. Len(m.headers) /\ ValueEnd(m, n) \in Nat /\ UpToLF(m) \in {0, 1}
          /\ HeaderBegin(m, n + 1) = (ValueEnd(m, n) + UpToLF(m)) + 1
      BY <1>2, <1>3, HeaderNumbers
    <2>6. ValueEnd(m, n) <= fill_ptr
      BY <1>3, <2>1, <2>5
    <2>7. /\ Text(h.name) = m.headers[n + 1].name /\ Text(h.value) = t /\ h \in HeaderType
      BY <1>2, <1>3, <2>4, <2>6, HeaderText
    <2>8. /\ Text(h.name) # TransferEncoding
          /\ Text(h.name) = ContentLength => Strtol(Text(h.value)) = Len(Content(m))
      BY <2>5, <2>7, HonestWords
    <2>9. e \in EnvType /\ e.headers \in Seq(HeaderType) /\ ~ e.chunked
      BY AmidCase DEF Known, LengthNoted
    <2>10. /\ f \in EnvType /\ f.words = e.words /\ f.headers = Append(e.headers, h)
           /\ f.chunked = e.chunked /\ f.reforming_flag = e.reforming_flag
           /\ f.body_base_offset = e.body_base_offset
           /\ f.content_length = IF Text(h.name) = ContentLength THEN Strtol(Text(h.value))
                                 ELSE e.content_length
      BY <2>7, <2>8, <2>9, WithHeaderIs
    <2> HIDE DEF f, q, t
    <2>11. GoOn(q + 1, g)
      BY <1>1, <2>1, <2>9, <2>10
    <2>12. /\ g \in EnvType /\ g.words = f.words /\ g.headers = f.headers
           /\ g.chunked = f.chunked /\ g.reforming_flag = f.reforming_flag
           /\ g.body_base_offset = f.body_base_offset
           /\ g.content_length = f.content_length /\ g.parse_step = "HEADER_NAME0"
      BY <2>10 DEF EnvType, Steps
    <2> HIDE DEF g
    <2>13. /\ Len(g.headers) = n + 1 /\ g.headers[n + 1] = h
           /\ \A i \in 1 .. n : g.headers[i] = e.headers[i]
      BY <2>7, <2>9, <2>10, <2>12, AppendProperties DEF n
    <2>14. /\ \A i \in 1 .. n + 1 : i \in 1 .. n \/ i = n + 1
           /\ (n + 1) - 1 = n /\ n + 1 <= Len(m.headers)
      BY <1>2
    <2>15. \A i \in 1 .. Len(g.headers) : g.headers[i] = HeaderAt(m, i - 1)
      <3>1. \A i \in 1 .. n : e.headers[i] = HeaderAt(m, i - 1)
        BY <1>3 DEF Known, n
      <3> QED BY <2>4, <2>13, <2>14, <3>1
    <2>16. LengthNoted(g, m)
      <3>1. LengthNoted(e, m) /\ n = Len(e.headers)
        BY <1>3 DEF Known, n
      <3>2. CASE Text(h.name) = ContentLength
        <4>1. g.content_length = Len(Content(m))
          BY <2>8, <2>10, <2>12, <3>2
        <4> QED BY <2>10, <2>12, <3>1, <4>1 DEF LengthNoted
      <3>3. CASE Text(h.name) # ContentLength
        <4>1. g.content_length = e.content_length
          BY <2>10, <2>12, <3>3
        <4>2. m.headers[n + 1].name # ContentLength
          BY <2>7, <3>3
        <4> QED BY <2>10, <2>12, <2>13, <2>14, <3>1, <4>1, <4>2 DEF LengthNoted
      <3> QED BY <3>2, <3>3
    <2>17. Known(g, m)
      <3>1. Len(g.words) <= 3 /\ \A k \in 1 .. Len(g.words) : g.words[k] = WordAt(m, k)
        BY <1>3, <2>10, <2>12 DEF Known
      <3> QED BY <2>12, <2>13, <2>14, <2>15, <2>16, <3>1 DEF Known
    <2>18. q + 1 = HeaderBegin(m, n + 1)
      BY <2>1, <2>5
    <2>19. InHeaders(g, m, q + 1)
      BY <1>2, <2>10, <2>12, <2>13, <2>18 DEF InHeaders
    <2> QED BY <2>11, <2>17, <2>19, GoneOn DEF Reading
  <1> QED BY <1>1, <1>6, <1>7

-----------------------------------------------------------------------------
(* The content, and all cases together.                                    *)

\* BODY.
LEMMA BodyGoes ==
    ASSUME ParserInv, Parsing, NEW m \in Message, Honest(m), Amid(m), Body
    PROVE  Went(m)
  <1> DEFINE q == e.body_base_offset + e.content_length
  <1>1. /\ e.parse_step = "BODY"
        /\ \/ fill_ptr - e.body_base_offset >= e.content_length /\ Done(q, e, TRUE)
           \/ NeedMore(fill_ptr, e)
    BY DEF Body
  <1>2. InBody(e, m) /\ Known(e, m) /\ Laid(m)
    BY <1>1, AmidCase DEF InWords, InHeaders, InName, BeforeValue, InValue
  <1>3. /\ AllRead(e, m) /\ e.body_base_offset = BodyBegin(m)
        /\ e.content_length = Len(Content(m))
    BY <1>2 DEF InBody
  <1>4. CASE fill_ptr - e.body_base_offset >= e.content_length /\ Done(q, e, TRUE)
    <2>1. q = Len(Render(m))
      BY <1>2, <1>3 DEF Laid
    <2>2. q <= fill_ptr
      <3>1. e.body_base_offset \in Nat /\ e.content_length \in Nat /\ fill_ptr \in Nat
        BY AmidCase DEF EnvType
      <3> QED BY <1>4, <3>1
    <2> HIDE DEF q
    <2> QED BY <1>2, <1>3, <1>4, <2>1, <2>2, Taken
  <1>5. CASE NeedMore(fill_ptr, e)
    BY <1>2, <1>5, MoreNeeded DEF Reading
  <1> QED BY <1>1, <1>4, <1>5

\* Every case of ParseHttpBuffer; those for chunks do not occur.
LEMMA ParseGoes ==
    ASSUME ParserInv, NEW m \in Message, Honest(m), Amid(m), ParseHttpBuffer
    PROVE  Went(m) /\ Parsing
  <1>1. Parsing
    BY DEF ParseHttpBuffer, Parsing
  <1>2. \/ Word0 \/ Word \/ HeaderName0 \/ HeaderName \/ HeaderValue0 \/ HeaderValue
        \/ Body \/ ChunkedSize \/ ChunkedData
    BY DEF ParseHttpBuffer
  <1>3. e.parse_step \notin {"CHUNKED_SIZE", "CHUNKED_DATA"}
    BY <1>1, AmidCase DEF InWords, InHeaders, InName, BeforeValue, InValue, InBody
  <1>4. ~ ChunkedSize /\ ~ ChunkedData
    BY <1>3 DEF ChunkedSize, ChunkedData
  <1> QED BY <1>1, <1>2, <1>4, Word0Goes, WordGoes, HeaderName0Goes, HeaderNameGoes,
             HeaderValue0Goes, HeaderValueGoes, BodyGoes

-----------------------------------------------------------------------------
(* The inductive invariant, and the steps that keep it.                    *)

\* The bytes of m that were sent and not received are on the wire, those that were received
\* are in the buffer, and what the parser knows is right for as many as it has looked at.
Awaited(m) == Len(Render(m)) - m.held
ToCome(m) ==
    /\ fill_ptr <= Awaited(m) /\ Len(wire) = Awaited(m) - fill_ptr
    /\ \A i \in 1 .. Len(wire) : wire[i] = Render(m)[fill_ptr + i]
Underway(m) ==
    /\ m.role = role /\ ToCome(m) /\ Came(m) /\ LastLineWhole(m)
    /\ at \in {"epoll", "receive"} => Reading(e, m, process_ptr)
    /\ at = "parse" => Reading(e, m, p)
    /\ at = "taken" => Read(e, m, process_ptr) /\ fill_ptr = process_ptr

\* Between two messages nothing is left of the one before.
Idle == wire = <<>> /\ at = "epoll" /\ fill_ptr = 0 /\ e = FreshEnv

ReadInv ==
    /\ ParserInv /\ at \notin {"closed", "undefined"}
    /\ \/ Len(sent) = taken /\ Idle
       \/ Len(sent) = taken + 1 /\ Underway(Present)

HonestPeers == \A m \in Message : Honest(m)

\* The message under way.
LEMMA PresentIs ==
    ASSUME HonestPeers, ReadInv, Len(sent) # taken
    PROVE  /\ Present \in Message /\ Honest(Present) /\ Laid(Present) /\ Underway(Present)
           /\ Len(sent) = taken + 1 /\ taken \in Nat /\ Awaited(Present) \in Nat
           /\ Len(Render(Present)) \in Nat
  <1>1. Len(sent) = taken + 1 /\ Underway(Present)
    BY DEF ReadInv
  <1>2. sent \in Seq(Message) /\ taken \in Nat
    BY DEF ReadInv, ParserInv, HttpParserTypeOK
  <1>3. Present \in Message
    BY <1>1, <1>2, ElementOfSeq DEF Present
  <1>4. Honest(Present) /\ Laid(Present)
    BY <1>3, LaidOut, HonestWords DEF HonestPeers
  <1>5. Len(Render(Present)) \in Nat /\ Present.held \in Nat
        /\ Present.held <= Len(Render(Present))
    BY <1>3, <1>4, Typed, LenProperties DEF Honest, Laid
  <1>6. Awaited(Present) \in Nat
    BY <1>5 DEF Awaited
  <1> QED BY <1>1, <1>2, <1>3, <1>4, <1>5, <1>6

\* A step that leaves the peers alone and the message under way keeps the invariant.
LEMMA StillUnderway ==
    ASSUME HonestPeers, ReadInv, ParserInv', Len(sent) # taken, UNCHANGED <<sent, taken>>,
           at' \notin {"closed", "undefined"}, NEW m, m = Present, Underway(m)'
    PROVE  ReadInv'
  <1>1. Len(sent') = taken' + 1 /\ Present' = m
    BY PresentIs DEF Present
  <1>2. Underway(Present)'
    BY <1>1 DEF Underway, ToCome, Came, LastLineWhole
  <1> QED BY <1>1, <1>2 DEF ReadInv

\* A case of ParseHttpBuffer.
LEMMA ParseReads == ASSUME HonestPeers, ReadInv, ParseHttpBuffer PROVE ReadInv'
  <1>0. PICK m : m = Present
    OBVIOUS
  <1>1. at = "parse" /\ ParserInv /\ ParserInv'
    BY ParseKeeps DEF ParseHttpBuffer, ReadInv
  <1>2. Len(sent) # taken
    BY <1>1 DEF ReadInv, Idle
  <1>3. /\ m \in Message /\ Honest(m) /\ Laid(m) /\ Underway(m)
    BY <1>0, <1>2, PresentIs
  <1>4. Amid(m)
    BY <1>1, <1>3 DEF Amid, Underway, ToCome, Awaited
  <1>5. Went(m) /\ Parsing
    BY <1>1, <1>3, <1>4, ParseGoes
  <1>6. UNCHANGED <<role, sent, taken, wire, fill_ptr>>
    BY <1>5 DEF Went, Parsing, peerVars
  <1>7. \A i \in 1 .. fill_ptr : memory'[i] = memory[i]
    BY <1>5 DEF Went
  <1>8. Underway(m)' /\ at' \notin {"closed", "undefined"}
    BY <1>3, <1>5, <1>6, <1>7 DEF Underway, ToCome, Came, LastLineWhole, Went
  <1> QED BY <1>0, <1>1, <1>2, <1>6, <1>8, StillUnderway

\* Where receiving begins and ends, and what was never looked at is parsed.
LEMMA TurnReads ==
    ASSUME HonestPeers, ReadInv, OnReceiving \/ ParseLeftOver \/ WouldBlock
    PROVE  ReadInv'
  <1>0. PICK m : m = Present
    OBVIOUS
  <1>1. /\ ParserInv'
        /\ \/ at = "epoll" /\ wire # <<>> /\ at' = "receive"
           \/ at = "receive" /\ at' = "parse" /\ p' = process_ptr
           \/ at = "receive" /\ at' = "epoll"
        /\ UNCHANGED <<role, sent, taken, wire, memory, process_ptr, fill_ptr, e>>
    BY TurnKeeps DEF OnReceiving, ParseLeftOver, WouldBlock, peerVars, bufferVars, ReadInv
  <1>2. Len(sent) # taken
    BY <1>1 DEF ReadInv, Idle
  <1>3. Underway(m)
    BY <1>0, <1>2, PresentIs
  <1>4. Underway(m)' /\ at' \notin {"closed", "undefined"}
    BY <1>1, <1>3 DEF Underway, ToCome, Came, LastLineWhole
  <1> QED BY <1>0, <1>1, <1>2, <1>4, StillUnderway

\* A message is sent: its first byte is where the buffer begins.
LEMMA SendReads ==
    ASSUME HonestPeers, ReadInv, NEW m \in Message, Send(m)
    PROVE  ReadInv'
  <1> DEFINE R == Render(m)
             n == Len(R) - m.held
             part == SubSeq(R, 1, n)
  <1>1. /\ m.role = role /\ Len(sent) = taken /\ at = "epoll" /\ sent' = Append(sent, m)
        /\ wire' = wire \o part
        /\ UNCHANGED <<role, taken, memory, process_ptr, fill_ptr, e, p, at>>
    BY DEF Send, bufferVars
  <1>2. ParserInv /\ ParserInv'
    BY SendKeeps DEF ReadInv
  <1>3. sent \in Seq(Message) /\ taken \in Nat /\ wire = <<>> /\ fill_ptr = 0 /\ e = FreshEnv
        /\ process_ptr = 0
    <2>1. Len(sent) # taken + 1
      BY <1>1, <1>2 DEF ParserInv, HttpParserTypeOK
    <2> QED BY <1>2, <2>1 DEF ReadInv, Idle, ParserInv, HttpParserTypeOK
  <1>4. Honest(m) /\ Laid(m)
    BY LaidOut, HonestWords DEF HonestPeers
  <1>5. Len(sent') = taken' + 1 /\ Present' = m
    BY <1>1, <1>3, AppendProperties DEF Present
  <1>6. R \in Seq(Byte) /\ Len(R) \in Nat /\ m.held \in Nat /\ n \in Nat /\ n <= Len(R)
    <2>1. R \in Seq(Byte) /\ Len(R) \in Nat /\ m.held \in Nat /\ m.held <= Len(R)
      BY <1>4, Typed, LenProperties DEF Honest, Laid
    <2> HIDE DEF R
    <2> QED BY <2>1
  <1> HIDE DEF R, n
  <1>7. part \in Seq(Byte) /\ Len(part) = n /\ \A i \in 1 .. n : part[i] = R[i]
    <2>1. \A i \in 1 .. n : R[i] \in Byte
      BY <1>6, ElementOfSeq
    <2>2. /\ part \in Seq(Byte) /\ Len(part) = IF 1 <= n THEN n - 1 + 1 ELSE 0
          /\ \A i \in 1 .. n - 1 + 1 : part[i] = R[1 + i - 1]
      BY <1>6, <2>1, SubSeqProperties
    <2> HIDE DEF part
    <2> QED BY <1>6, <2>2
  <1> HIDE DEF part
  <1>8. wire' = part
    BY <1>1, <1>3, <1>7, ConcatEmptySeq
  <1>9. ToCome(m)'
    <2>1. /\ 0 <= n /\ n - 0 = n /\ \A i \in 1 .. n : 0 + i = i
      BY <1>6
    <2>2. Awaited(m) = n
      BY DEF Awaited, n, R
    <2> QED BY <1>1, <1>3, <1>7, <1>8, <2>1, <2>2 DEF ToCome, R
  <1>10. Came(m)' /\ LastLineWhole(m)'
    <2>1. HeaderBegin(m, Len(m.headers)) + 1 # 0
      BY <1>4, HeadersBehind
    <2> QED BY <1>1, <1>3, <2>1 DEF Came, LastLineWhole
  <1>11. Reading(FreshEnv, m, 0)
    <2>1. FreshEnv \in EnvType
      BY EmptySeq DEF FreshEnv, EnvType, Steps, NoHeader, NoWord, HeaderType, WordType
    <2>2. /\ FreshEnv.words = <<>> /\ FreshEnv.headers = <<>> /\ FreshEnv.content_length = 0
          /\ FreshEnv.chunked = FALSE /\ FreshEnv.reforming_flag = FALSE
          /\ FreshEnv.parse_step = "WORD0" /\ FreshEnv.body_base_offset = 0
      BY DEF FreshEnv
    <2>3. Len(<<>>) = 0 /\ Len(m.headers) \in Nat
      BY EmptySeq, Typed
    <2>4. Known(FreshEnv, m)
      BY <2>1, <2>2, <2>3 DEF Known, LengthNoted
    <2>5. InWords(FreshEnv, m, 0)
      BY <2>2, <2>3 DEF InWords, WordBegin
    <2> QED BY <2>4, <2>5 DEF Reading
  <1>12. Underway(m)'
    BY <1>1, <1>3, <1>9, <1>10, <1>11 DEF Underway
  <1>13. Underway(Present)'
    BY <1>5, <1>12 DEF Underway, ToCome, Came, LastLineWhole
  <1> QED BY <1>1, <1>2, <1>5, <1>13 DEF ReadInv

\* What the parser knows does not depend on the two pointers of a chunked content.
LEMMA SameKnown ==
    ASSUME NEW m, NEW q, NEW f \in EnvType, NEW d \in BOOLEAN, Reading(f, m, q)
    PROVE  Reading([f EXCEPT !.dangling = d], m, q)
  <1> DEFINE g == [f EXCEPT !.dangling = d]
  <1>1. /\ g \in EnvType /\ g.words = f.words /\ g.headers = f.headers
        /\ g.content_length = f.content_length /\ g.chunked = f.chunked
        /\ g.reforming_flag = f.reforming_flag /\ g.parse_step = f.parse_step
        /\ g.body_base_offset = f.body_base_offset /\ g.offset = f.offset
        /\ g.header = f.header
    BY DEF EnvType
  <1> HIDE DEF g
  <1>2. Known(g, m)
    BY <1>1 DEF Reading, Known, LengthNoted
  <1>3. InWords(f, m, q) => InWords(g, m, q)
    BY <1>1 DEF InWords
  <1>4. InHeaders(f, m, q) => InHeaders(g, m, q)
    BY <1>1 DEF InHeaders, InName, BeforeValue, InValue
  <1>5. InBody(f, m) => InBody(g, m)
    BY <1>1 DEF InBody, AllRead
  <1> QED BY <1>2, <1>3, <1>4, <1>5 DEF Reading, g

\* The buffer grows: what was received stays where it is.
LEMMA GrowReads == ASSUME HonestPeers, ReadInv, Grow PROVE ReadInv'
  <1>0. PICK m : m = Present
    OBVIOUS
  <1> DEFINE old == SubSeq(memory, 1, fill_ptr)
             new == Zeros((2 * buf_size) - fill_ptr)
  <1>1. /\ at = "receive" /\ memory' = old \o new
        /\ UNCHANGED <<role, sent, taken, wire, process_ptr, fill_ptr, p, at>>
    BY DEF Grow, Resized, peerVars
  <1>2. ParserInv /\ ParserInv'
    BY GrowKeeps DEF ReadInv
  <1>3. PICK d \in BOOLEAN : e' = [e EXCEPT !.dangling = d]
    BY <1>2 DEF Grow, MayDangle, ParserInv, EnvType
  <1>4. Len(sent) # taken
    BY <1>1 DEF ReadInv, Idle
  <1>5. Underway(m)
    BY <1>0, <1>4, PresentIs
  <1>6. old \in Seq(Byte) /\ Len(old) = fill_ptr /\ \A i \in 1 .. fill_ptr : old[i] = memory[i]
    <2>1. /\ old \in Seq(Byte)
          /\ Len(old) = IF 1 <= fill_ptr THEN (fill_ptr - 1) + 1 ELSE 0
          /\ \A i \in 1 .. (fill_ptr - 1) + 1 : old[i] = memory[(1 + i) - 1]
      BY <1>2, InBuffer, PartOfBuffer
    <2>2. fill_ptr \in Nat
      BY <1>2, InBuffer
    <2> HIDE DEF old
    <2> QED BY <2>1, <2>2
  <1>7. new \in Seq(Byte)
    <2>1. (2 * buf_size) - fill_ptr \in Nat
      BY <1>2, InBuffer
    <2> QED BY <2>1, ZerosAreBytes
  <1> HIDE DEF old, new
  <1>8. \A i \in 1 .. fill_ptr : memory'[i] = memory[i]
    <2>1. Len(new) \in Nat /\ fill_ptr \in Nat
      BY <1>2, <1>7, LenProperties, InBuffer
    <2>2. ASSUME NEW i \in 1 .. fill_ptr PROVE memory'[i] = old[i]
      <3>1. i \in 1 .. Len(old) + Len(new) /\ i <= Len(old)
        BY <1>6, <2>1
      <3> QED BY <1>1, <1>6, <1>7, <3>1, ConcatProperties
    <2> QED BY <1>6, <2>2
  <1>9. Reading(e', m, process_ptr')
    <2>1. Reading(e, m, process_ptr) /\ e \in EnvType
      BY <1>1, <1>2, <1>5 DEF Underway, ParserInv
    <2> QED BY <1>1, <1>3, <2>1, SameKnown
  <1>10. Underway(m)'
    BY <1>1, <1>5, <1>8, <1>9 DEF Underway, ToCome, Came, LastLineWhole
  <1> QED BY <1>0, <1>1, <1>2, <1>4, <1>10, StillUnderway

\* In front of the CR LF that ends the headers is the LF of the line before.
LEMMA LastLine ==
    ASSUME NEW m \in Message, Honest(m), Laid(m), Len(m.eol) = 2
    PROVE  LET a == HeaderBegin(m, Len(m.headers)) IN
           /\ a \in Nat /\ a >= 2 /\ Render(m)[a] = LF /\ Render(m)[a + 1] = CR
  <1> DEFINE H == Len(m.headers)
             R == Render(m)
             a == HeaderBegin(m, H)
  <1>1. m.eol[1] = CR /\ m.eol[2] = LF /\ 1 \in 1 .. Len(m.eol) /\ 2 \in 1 .. Len(m.eol)
    <2>1. UpToLF(m) = 1
      BY DEF UpToLF
    <2> QED BY <2>1, Numbers
  <1>2. H \in Nat /\ a \in Nat /\ Has(R, a, m.eol)
    BY Typed DEF Laid
  <1>3. R[a + 1] = CR
    BY <1>1, <1>2 DEF Has
  <1>4. \E d \in Nat : a = d + 2 /\ Has(R, d, m.eol)
    <2>1. CASE H = 0
      <3>1. Has(R, WordEnd(m, 3), m.eol) /\ a = WordEnd(m, 3) + 2
        BY <2>1 DEF Laid, HeadersBegin
      <3>2. WordEnd(m, 3) \in Nat
        BY <3>1 DEF Has
      <3> QED BY <3>1, <3>2
    <2>2. CASE H # 0
      <3> DEFINE n == H - 1
      <3>1. n \in Nat /\ n \in 0 .. H - 1 /\ n + 1 = H
        BY <1>2, <2>2
      <3>2. LineLaid(m, n)
        BY <3>1 DEF Laid
      <3>3. Has(R, ValueEnd(m, n), m.eol) /\ HeaderBegin(m, n + 1) = ValueEnd(m, n) + 2
        BY <3>2 DEF LineLaid
      <3>4. ValueEnd(m, n) \in Nat
        BY <3>3 DEF Has
      <3> HIDE DEF n, H, R
      <3>5. a = ValueEnd(m, n) + 2
        BY <3>1, <3>3
      <3> QED BY <3>3, <3>4, <3>5
    <2> QED BY <2>1, <2>2
  <1> HIDE DEF a, H, R
  <1>5. PICK d \in Nat : a = d + 2 /\ Has(R, d, m.eol)
    BY <1>4
  <1>6. R[a] = LF
    BY <1>1, <1>5 DEF Has
  <1>7. a >= 2
    BY <1>5
  <1> QED BY <1>2, <1>3, <1>6, <1>7 DEF a, R, H

\* Bytes are received: they are the next ones of the message, and the cut behind them is
\* not inside of the line that ends the headers.
LEMMA RecvReads ==
    ASSUME HonestPeers, ReadInv, NEW k \in DOMAIN wire, Recv(k)
    PROVE  ReadInv'
  <1>0. PICK m : m = Present
    OBVIOUS
  <1> DEFINE R == Render(m)
             a == HeaderBegin(m, Len(m.headers))
  <1>1. /\ memory' = [i \in 1 .. buf_size |->
              IF i \in fill_ptr + 1 .. fill_ptr + k THEN wire[i - fill_ptr] ELSE memory[i]]
        /\ wire' = SubSeq(wire, k + 1, Len(wire)) /\ fill_ptr' = fill_ptr + k
        /\ p' = process_ptr /\ at = "receive" /\ at' = "parse"
        /\ UNCHANGED <<role, sent, taken, process_ptr, e>>
        /\ k <= (buf_size - 1) - fill_ptr
    BY DEF Recv, peerVars
  <1>2. ParserInv /\ ParserInv'
    BY RecvKeeps DEF ReadInv
  <1>3. Len(sent) # taken
    BY <1>1 DEF ReadInv, Idle
  <1>4. /\ m \in Message /\ Honest(m) /\ Laid(m) /\ Underway(m)
        /\ Len(sent) = taken + 1 /\ taken \in Nat /\ Awaited(m) \in Nat /\ Len(R) \in Nat
    BY <1>0, <1>3, PresentIs
  <1>5. /\ fill_ptr <= Awaited(m) /\ Len(wire) = Awaited(m) - fill_ptr
        /\ \A i \in 1 .. Len(wire) : wire[i] = R[fill_ptr + i]
        /\ \A i \in 1 .. fill_ptr : memory[i] = R[i]
    BY <1>4 DEF Underway, ToCome, Came
  <1>6. wire \in Seq(Byte) /\ Len(wire) \in Nat /\ k \in 1 .. Len(wire) /\ k \in Nat
        /\ fill_ptr \in Nat /\ buf_size \in Nat /\ fill_ptr + k < buf_size
    <2>1. wire \in Seq(Byte)
      BY <1>2 DEF ParserInv, HttpParserTypeOK
    <2>2. Len(wire) \in Nat /\ k \in 1 .. Len(wire)
      BY <2>1, LenProperties
    <2> QED BY <1>1, <1>2, <2>1, <2>2, InBuffer
  <1> HIDE DEF R, a
  <1>7. \A i \in 1 .. fill_ptr + k : memory'[i] = R[i]
    <2>1. ASSUME NEW i \in 1 .. fill_ptr + k PROVE memory'[i] = R[i]
      <3>1. i \in 1 .. buf_size
        BY <1>6
      <3>2. CASE i \in fill_ptr + 1 .. fill_ptr + k
        <4>1. i - fill_ptr \in 1 .. Len(wire) /\ fill_ptr + (i - fill_ptr) = i
          BY <1>6, <3>2
        <4>2. wire[i - fill_ptr] = R[fill_ptr + (i - fill_ptr)]
          BY <1>5, <4>1
        <4> QED BY <1>1, <3>1, <3>2, <4>1, <4>2
      <3>3. CASE i \notin fill_ptr + 1 .. fill_ptr + k
        <4>1. i \in 1 .. fill_ptr
          BY <1>6, <3>3
        <4> QED BY <1>1, <1>5, <3>1, <3>3, <4>1
      <3> QED BY <3>2, <3>3
    <2> QED BY <2>1
  <1>8. ToCome(m)'
    <2> DEFINE l == Len(wire)
    <2>1. \A i \in k + 1 .. l : wire[i] \in Byte
      <3>1. \A i \in 1 .. l : wire[i] \in Byte
        BY <1>6, ElementOfSeq
      <3> QED BY <1>6, <3>1
    <2>2. /\ Len(wire') = IF k + 1 <= l THEN l - (k + 1) + 1 ELSE 0
          /\ \A i \in 1 .. l - (k + 1) + 1 : wire'[i] = wire[k + 1 + i - 1]
      <3> DEFINE rest == SubSeq(wire, k + 1, l)
      <3>1. k + 1 \in Int /\ l \in Int
        BY <1>6
      <3>2. wire' = rest
        BY <1>1
      <3> HIDE DEF l
      <3>3. /\ Len(rest) = IF k + 1 <= l THEN l - (k + 1) + 1 ELSE 0
            /\ \A i \in 1 .. l - (k + 1) + 1 : rest[i] = wire[k + 1 + i - 1]
        BY <2>1, <3>1, SubSeqProperties
      <3> HIDE DEF rest
      <3> QED BY <3>2, <3>3
    <2> HIDE DEF l
    <2>3. l \in Nat /\ k \in 1 .. l /\ l = Awaited(m) - fill_ptr
      BY <1>5, <1>6 DEF l
    <2> DEFINE l1 == Len(wire')
    <2>4. l1 = l - k /\ l1 = Awaited(m) - (fill_ptr + k) /\ fill_ptr + k <= Awaited(m)
      <3>1. l1 = IF k + 1 <= l THEN l - (k + 1) + 1 ELSE 0
        BY <2>2
      <3> HIDE DEF l1
      <3> QED BY ONLY <1>4, <1>6, <2>3, <3>1
    <2> HIDE DEF l1
    <2>5. ASSUME NEW i \in 1 .. l1 PROVE wire'[i] = R[(fill_ptr + k) + i]
      <3>1. i \in 1 .. l - (k + 1) + 1 /\ k + 1 + i - 1 = k + i /\ k + i \in 1 .. l
            /\ fill_ptr + (k + i) = (fill_ptr + k) + i
        BY ONLY <1>6, <2>3, <2>4, <2>5
      <3>2. wire'[i] = wire[k + i]
        BY <2>2, <3>1
      <3>3. wire[k + i] = R[fill_ptr + (k + i)]
        BY <1>5, <3>1 DEF l
      <3> QED BY <3>1, <3>2, <3>3
    <2>6. \A i \in 1 .. Len(wire') : wire'[i] = R[fill_ptr' + i]
      BY <1>1, <2>5 DEF l1
    <2>7. Len(wire') = Awaited(m) - fill_ptr' /\ fill_ptr' <= Awaited(m)
      BY <1>1, <2>4 DEF l1
    <2> QED BY <2>6, <2>7 DEF ToCome, R
  <1>9. LastLineWhole(m)'
    <2> SUFFICES ASSUME Len(m.eol) = 2, fill_ptr + k = a + 1
                 PROVE  FALSE
      BY <1>1 DEF LastLineWhole, a
    <2> DEFINE here == SubSeq(memory, 1, fill_ptr)
               come == SubSeq(wire, 1, k)
               so == here \o come
               n == fill_ptr + k
    <2>1. a \in Nat /\ a >= 2 /\ R[a] = LF /\ R[a + 1] = CR
      BY <1>4, LastLine DEF a, R
    <2>2. here \in Seq(Byte) /\ Len(here) = fill_ptr
          /\ \A i \in 1 .. fill_ptr : here[i] = memory[i]
      <3>1. /\ here \in Seq(Byte)
            /\ Len(here) = IF 1 <= fill_ptr THEN (fill_ptr - 1) + 1 ELSE 0
            /\ \A i \in 1 .. (fill_ptr - 1) + 1 : here[i] = memory[(1 + i) - 1]
        BY <1>2, InBuffer, PartOfBuffer
      <3> HIDE DEF here
      <3> QED BY <1>6, <3>1
    <2>3. come \in Seq(Byte) /\ Len(come) = k /\ \A i \in 1 .. k : come[i] = wire[i]
      <3>1. \A i \in 1 .. k : wire[i] \in Byte
        <4>1. \A i \in 1 .. k : i \in 1 .. Len(wire)
          BY <1>6
        <4> QED BY <1>6, <4>1, ElementOfSeq
      <3>2. /\ come \in Seq(Byte) /\ Len(come) = IF 1 <= k THEN k - 1 + 1 ELSE 0
            /\ \A i \in 1 .. k - 1 + 1 : come[i] = wire[1 + i - 1]
        BY <1>6, <3>1, SubSeqProperties
      <3> HIDE DEF come
      <3> QED BY <1>6, <3>2
    <2> HIDE DEF here, come
    <2>4. /\ so \in Seq(Byte) /\ Len(so) = fill_ptr + k
          /\ \A i \in 1 .. fill_ptr + k :
               so[i] = IF i <= fill_ptr THEN here[i] ELSE come[i - fill_ptr]
      BY <2>2, <2>3, ConcatProperties
    <2> HIDE DEF so
    <2>5. ASSUME NEW i \in 1 .. fill_ptr + k PROVE so[i] = R[i]
      <3>1. CASE i <= fill_ptr
        <4>1. i \in 1 .. fill_ptr
          BY <3>1
        <4> QED BY <1>5, <2>2, <2>4, <3>1, <4>1
      <3>2. CASE ~ (i <= fill_ptr)
        <4>1. i - fill_ptr \in 1 .. k /\ i - fill_ptr \in 1 .. Len(wire)
              /\ fill_ptr + (i - fill_ptr) = i
          BY <1>6, <3>2
        <4>2. so[i] = wire[i - fill_ptr]
          BY <2>3, <2>4, <3>2, <4>1
        <4> QED BY <1>5, <4>1, <4>2
      <3> QED BY <3>1, <3>2
    <2>6. n = a + 1 /\ n \in Nat /\ n - 1 = a /\ n > 1 /\ n - 1 \in 1 .. n /\ n \in 1 .. n
      BY <1>6, <2>1
    <2>7. so[n - 1] = LF /\ so[n] = CR /\ Len(so) = n
      BY <2>1, <2>4, <2>5, <2>6
    <2> HIDE DEF n
    <2> DEFINE two == SubSeq(so, n - 1, n)
    <2>8. two \in Seq(Byte) /\ Len(two) = 2 /\ two[1] = LF /\ two[2] = CR
      <3>1. \A i \in n - 1 .. n : so[i] \in Byte
        <4>1. \A i \in n - 1 .. n : i \in 1 .. n
          BY <2>6
        <4> QED BY <2>4, <2>7, <4>1, ElementOfSeq
      <3>2. /\ two \in Seq(Byte) /\ Len(two) = IF n - 1 <= n THEN n - (n - 1) + 1 ELSE 0
            /\ \A i \in 1 .. n - (n - 1) + 1 : two[i] = so[n - 1 + i - 1]
        BY <2>6, <3>1, SubSeqProperties
      <3> HIDE DEF two
      <3>3. n - (n - 1) + 1 = 2 /\ n - 1 <= n /\ n - 1 + 1 - 1 = n - 1 /\ n - 1 + 2 - 1 = n
        BY ONLY <2>6
      <3>4. 1 \in 1 .. n - (n - 1) + 1 /\ 2 \in 1 .. n - (n - 1) + 1
        BY <3>3
      <3>5. two[1] = so[n - 1] /\ two[2] = so[n]
        BY <3>2, <3>3, <3>4
      <3> QED BY <2>7, <3>2, <3>3, <3>5
    <2> HIDE DEF two
    <2>9. two = <<LF, CR>>
      <3>1. <<LF, CR>> \in Seq(Byte) /\ Len(<<LF, CR>>) = 2 /\ <<LF, CR>>[1] = LF
            /\ <<LF, CR>>[2] = CR
        BY Separators DEF Byte
      <3>2. \A i \in 1 .. 2 : i = 1 \/ i = 2
        OBVIOUS
      <3> QED BY <2>8, <3>1, <3>2, SeqEqual
    <2>10. LastLineIsCut(k)
      BY <2>6, <2>7, <2>9 DEF LastLineIsCut, two, so, here, come
    <2>11. m \in CutLastLine
      BY <1>0, <2>10 DEF Recv
    <2> QED BY <1>4, <2>11 DEF Honest
  <1>10. Underway(m)'
    <2>1. Came(m)'
      BY <1>1, <1>7 DEF Came, R
    <2>2. Reading(e', m, p') /\ m.role = role'
      BY <1>1, <1>4 DEF Underway
    <2> QED BY <1>1, <1>8, <1>9, <2>1, <2>2 DEF Underway
  <1> QED BY <1>0, <1>1, <1>2, <1>3, <1>10, StillUnderway

\* After a message that left nothing behind, the buffer is as in the beginning.
LEMMA ResetIdle ==
    ASSUME ParserInv, ~ e.reforming_flag, ResetHttpEnv
    PROVE  fill_ptr' = 0 /\ e' = FreshEnv /\ at' = "epoll"
  <1>1. Rest = <<>>
    BY DEF Rest
  <1>2. Len(<<>>) = 0
    BY EmptySeq
  <1>3. /\ fill_ptr' = 0 /\ at' = AfterReset(0)
        /\ e' = [FreshEnv EXCEPT !.reforming_flag = e.reforming_flag /\ process_ptr >= fill_ptr]
    BY <1>1, <1>2 DEF ResetHttpEnv
  <1>4. at' = "epoll"
    <2>1. ~ (0 >= BufMax)
      BY HttpParserAssumption
    <2> QED BY <1>3, <2>1 DEF AfterReset
  <1>5. e' = FreshEnv
    <2>1. (e.reforming_flag /\ process_ptr >= fill_ptr) = FALSE
      OBVIOUS
    <2>2. e' = [FreshEnv EXCEPT !.reforming_flag = FALSE]
      BY <1>3, <2>1
    <2> QED BY <2>2 DEF FreshEnv
  <1> QED BY <1>3, <1>4, <1>5

\* Nothing is behind a message, at any time.
LEMMA NothingBehind ==
    ASSUME HonestPeers, ReadInv, at # "receive", at # "parse"
    PROVE  ~ e.reforming_flag
  <1>1. CASE Len(sent) = taken
    <2>1. Len(sent) # taken + 1
      BY <1>1 DEF ReadInv, ParserInv, HttpParserTypeOK
    <2> QED BY <2>1 DEF ReadInv, Idle, FreshEnv
  <1>2. CASE Len(sent) # taken
    <2>1. Underway(Present) /\ at \in {"epoll", "taken"}
      BY <1>2, PresentIs DEF ReadInv, ParserInv, HttpParserTypeOK
    <2>2. \E m : Known(e, m)
      BY <2>1 DEF Underway, Reading, Read
    <2> QED BY <2>2 DEF Known, LengthNoted
  <1> QED BY <1>1, <1>2

\* The session waits for the next message of its peer.
LEMMA KeepAliveReads == ASSUME HonestPeers, ReadInv, KeepAlive PROVE ReadInv'
  <1>1. /\ at = "taken" /\ ResetHttpEnv /\ taken' = taken + 1 /\ UNCHANGED <<sent, wire>>
        /\ ParserInv /\ ParserInv'
    BY KeepAliveKeeps DEF KeepAlive, ReadInv
  <1>2. fill_ptr' = 0 /\ e' = FreshEnv /\ at' = "epoll"
    BY <1>1, NothingBehind, ResetIdle
  <1>3. Len(sent) # taken
    BY <1>1 DEF ReadInv, Idle
  <1>4. PICK m : m = Present
    OBVIOUS
  <1>5. Underway(m) /\ Len(sent) = taken + 1 /\ Len(Render(m)) \in Nat
    BY <1>3, <1>4, PresentIs
  <1>6. wire = <<>>
    <2>1. /\ m.held = 0 /\ fill_ptr = Len(Render(m))
          /\ Len(wire) = (Len(Render(m)) - m.held) - fill_ptr
      BY <1>1, <1>5 DEF Underway, ToCome, Awaited, Read
    <2>2. Len(wire) = 0
      BY <1>5, <2>1
    <2>3. wire \in Seq(Byte)
      BY <1>1 DEF ParserInv, HttpParserTypeOK
    <2> QED BY <2>2, <2>3, EmptySeq
  <1>7. Len(sent') = taken' /\ Idle'
    BY <1>1, <1>2, <1>5, <1>6 DEF Idle
  <1> QED BY <1>1, <1>2, <1>7 DEF ReadInv

\* The session is released, and serves the next peer.
LEMMA NextPeerReads == ASSUME HonestPeers, ReadInv, NextPeer PROVE ReadInv'
  <1>1. /\ at \in {"epoll", "taken", "closed"} /\ ResetHttpEnv
        /\ sent' = <<>> /\ taken' = 0 /\ wire' = <<>> /\ ParserInv /\ ParserInv'
    BY NextPeerKeeps DEF NextPeer, ReadInv
  <1>2. fill_ptr' = 0 /\ e' = FreshEnv /\ at' = "epoll"
    BY <1>1, NothingBehind, ResetIdle
  <1>3. Len(sent') = taken' /\ Idle'
    BY <1>1, <1>2, EmptySeq DEF Idle
  <1> QED BY <1>1, <1>2, <1>3 DEF ReadInv

\* The empty buffer of a session that is new.
LEMMA ReadInit == ASSUME Init PROVE ReadInv
  <1>1. ParserInv /\ at = "epoll" /\ Idle
    BY InitInv DEF Init, Idle
  <1>2. Len(sent) = taken
    BY EmptySeq DEF Init
  <1> QED BY <1>1, <1>2 DEF ReadInv

\* Every step keeps the invariant.
LEMMA ReadNext == ASSUME HonestPeers, ReadInv, [Next]_vars PROVE ReadInv'
  <1>1. CASE UNCHANGED vars
    <2>1. UNCHANGED <<role, sent, taken, budget, wire, memory, process_ptr, fill_ptr, e, p, at>>
      BY <1>1 DEF vars, peerVars, bufferVars
    <2>2. ParserInv'
      BY NextInv DEF ReadInv
    <2>3. Idle' = Idle
      BY <2>1 DEF Idle
    <2>4. PICK m : m = Present
      OBVIOUS
    <2>5. Present' = m /\ Underway(m)' = Underway(m)
      BY <2>1, <2>4 DEF Present, Underway, ToCome, Came, LastLineWhole
    <2>6. CASE Len(sent) = taken
      <3>1. Idle
        <4>1. Len(sent) # taken + 1
          BY <2>6 DEF ReadInv, ParserInv, HttpParserTypeOK
        <4> QED BY <4>1 DEF ReadInv
      <3> QED BY <2>1, <2>2, <2>3, <2>6, <3>1 DEF ReadInv
    <2>7. CASE Len(sent) # taken
      <3>1. Underway(m) /\ at' \notin {"closed", "undefined"}
        BY <2>1, <2>4, <2>7, PresentIs DEF ReadInv
      <3> QED BY <2>1, <2>2, <2>4, <2>5, <2>7, <3>1, StillUnderway
    <2> QED BY <2>6, <2>7
  <1>2. CASE \E m \in Message : Send(m)
    BY <1>2, SendReads
  <1>3. CASE Receiving
    <2>1. CASE OnReceiving
      BY <2>1, TurnReads
    <2>2. CASE ReceiveHttpBuffer
      BY <2>2, TurnReads, GrowReads, RecvReads DEF ReceiveHttpBuffer
    <2>3. CASE ParseHttpBuffer
      BY <2>3, ParseReads
    <2> QED BY <1>3, <2>1, <2>2, <2>3 DEF Receiving
  <1>4. CASE KeepAlive
    BY <1>4, KeepAliveReads
  <1>5. CASE NextPeer
    BY <1>5, NextPeerReads
  <1> QED BY <1>1, <1>2, <1>3, <1>4, <1>5 DEF Next

-----------------------------------------------------------------------------
(* What follows when a message is taken.                                   *)

\* What is in the buffer then.
LEMMA TakenIs ==
    ASSUME HonestPeers, ReadInv, at = "taken", NEW m, m = Present
    PROVE  /\ m \in Message /\ Honest(m) /\ Laid(m) /\ Came(m) /\ Read(e, m, fill_ptr)
           /\ fill_ptr = Len(Render(m)) /\ Len(Render(m)) \in Nat
           /\ Len(sent) = taken + 1 /\ taken \in Nat /\ e \in EnvType /\ ParserInv
  <1>1. Len(sent) # taken
    BY DEF ReadInv, Idle
  <1>2. /\ m \in Message /\ Honest(m) /\ Laid(m) /\ Underway(m)
        /\ Len(sent) = taken + 1 /\ taken \in Nat /\ Len(Render(m)) \in Nat
    BY <1>1, PresentIs
  <1>3. Came(m) /\ Read(e, m, process_ptr) /\ fill_ptr = process_ptr
    BY <1>2 DEF Underway
  <1> QED BY <1>2, <1>3 DEF ReadInv, ParserInv, Read

\* The words of the first line.
LEMMA WordsAsSent ==
    ASSUME HonestPeers, ReadInv, at = "taken", NEW m, m = Present
    PROVE  [k \in DOMAIN e.words |-> Text(e.words[k])] = m.start
  <1>1. /\ m \in Message /\ Honest(m) /\ Laid(m) /\ Came(m) /\ Read(e, m, fill_ptr)
        /\ fill_ptr = Len(Render(m)) /\ e \in EnvType /\ ParserInv
    BY TakenIs
  <1>2. /\ Len(e.words) = 3 /\ e.words \in Seq(WordType)
        /\ \A k \in 1 .. 3 : e.words[k] = WordAt(m, k)
    BY <1>1 DEF Read, AllRead, Known, EnvType
  <1>3. DOMAIN e.words = 1 .. 3 /\ m.start \in [1 .. 3 -> Seq(Byte)]
    <2>1. m.start \in Seq(Seq(Byte)) /\ Len(m.start) = 3
      BY <1>1, Typed
    <2> QED BY <1>2, <2>1, LenProperties
  <1>4. ASSUME NEW k \in 1 .. 3 PROVE Text(e.words[k]) = m.start[k]
    <2> DEFINE t == m.start[k]
               b == WordBegin(m, k)
    <2>1. /\ b \in Nat /\ t \in Seq(Byte) /\ Has(Render(m), b, t)
      BY <1>1, Numbers
    <2>2. e.words[k] = [offset |-> b, len |-> Len(t)]
      BY <1>2 DEF WordAt
    <2> HIDE DEF t, b
    <2>3. b + Len(t) <= fill_ptr
      BY <1>1, <2>1 DEF Has
    <2>4. SubSeq(memory, b + 1, b + Len(t)) = t
      BY <1>1, <2>1, <2>3, PartOf
    <2> QED BY <2>2, <2>4 DEF Text, t
  <1> QED BY <1>3, <1>4

\* Every header, and in the order they were sent.
LEMMA HeadersAsSent ==
    ASSUME HonestPeers, ReadInv, at = "taken", NEW m, m = Present
    PROVE  [k \in DOMAIN e.headers |-> Pair(e.headers[k])] = m.headers
  <1> DEFINE H == Len(m.headers)
  <1>1. /\ m \in Message /\ Honest(m) /\ Laid(m) /\ Came(m) /\ Read(e, m, fill_ptr)
        /\ fill_ptr = Len(Render(m)) /\ e \in EnvType /\ ParserInv
    BY TakenIs
  <1>2. /\ Len(e.headers) = H /\ e.headers \in Seq(HeaderType)
        /\ \A k \in 1 .. H : e.headers[k] = HeaderAt(m, k - 1)
    BY <1>1 DEF Read, AllRead, Known, EnvType
  <1>3. /\ DOMAIN e.headers = 1 .. H /\ H \in Nat /\ m.headers \in [1 .. H -> Field]
    <2>1. m.headers \in Seq(Field)
      BY <1>1, Typed
    <2> QED BY <1>2, <2>1, LenProperties
  <1>4. ASSUME NEW k \in 1 .. H PROVE Pair(e.headers[k]) = m.headers[k]
    <2> DEFINE n == k - 1
    <2>1. n \in Nat /\ n < H /\ n \in 0 .. H - 1 /\ n + 1 = k
      BY <1>3
    <2>2. Has(Render(m), ValueEnd(m, n), m.eol)
      BY <1>1, <2>1 DEF Laid, LineLaid
    <2>3. ValueEnd(m, n) <= fill_ptr
      <3> DEFINE l == Len(m.eol)
                 L == Len(Render(m))
      <3>1. ValueEnd(m, n) \in Nat /\ ValueEnd(m, n) + l <= L /\ l \in {1, 2} /\ fill_ptr = L
            /\ L \in Nat
        BY <1>1, <2>2, Typed, LenProperties DEF Has, Laid
      <3> HIDE DEF l, L, n
      <3> QED BY ONLY <3>1
    <2> HIDE DEF n
    <2>4. /\ Text(HeaderAt(m, n).name) = m.headers[k].name
          /\ Text(HeaderAt(m, n).value) = m.headers[k].value
      BY <1>1, <2>1, <2>3, HeaderText
    <2>5. e.headers[k] = HeaderAt(m, n)
      BY <1>2 DEF n
    <2>6. m.headers[k] \in Field
      BY <1>3
    <2> QED BY <2>4, <2>5, <2>6 DEF Pair, Field
  <1> HIDE DEF H
  <1> QED BY <1>3, <1>4

\* The content.
LEMMA ContentAsSent ==
    ASSUME HonestPeers, ReadInv, at = "taken", NEW m, m = Present
    PROVE  (IF e.body_base_offset = 0 THEN <<>> ELSE GetHttpBody) = Content(m)
  <1>1. /\ m \in Message /\ Laid(m) /\ Came(m) /\ Read(e, m, fill_ptr)
        /\ fill_ptr = Len(Render(m)) /\ ParserInv
    BY TakenIs
  <1>2. CASE e.body_base_offset = 0 /\ Content(m) = <<>>
    BY <1>2
  <1>3. CASE e.body_base_offset = BodyBegin(m) /\ e.content_length = Len(Content(m))
    <2> DEFINE b == BodyBegin(m)
               t == Content(m)
    <2>1. Has(Render(m), b, t) /\ t \in Seq(Byte) /\ b + Len(t) = Len(Render(m))
      BY <1>1, Typed DEF Laid
    <2>2. b # 0
      <3>1. /\ HeaderBegin(m, Len(m.headers)) \in Nat /\ UpToLF(m) \in {0, 1}
            /\ b = (HeaderBegin(m, Len(m.headers)) + UpToLF(m)) + 1
        BY <1>1, HeadersBehind, Numbers
      <3> HIDE DEF b
      <3> QED BY ONLY <3>1
    <2>3. b + Len(t) <= fill_ptr
      BY <1>1, <2>1, LenProperties DEF Laid
    <2> HIDE DEF b, t
    <2>4. SubSeq(memory, b + 1, b + Len(t)) = t
      BY <1>1, <2>1, <2>3, PartOf
    <2>5. GetHttpBody = t /\ e.body_base_offset # 0
      BY <1>3, <2>2, <2>4 DEF GetHttpBody, b, t
    <2> QED BY <2>5 DEF t
  <1> QED BY <1>1, <1>2, <1>3 DEF Read

\* A message is taken as it was sent.
LEMMA TakenAsSent == ASSUME HonestPeers, ReadInv PROVE MessageAsSent
  <1>1. SUFFICES ASSUME at = "taken"
        PROVE  /\ taken < Len(sent)
               /\ [k \in DOMAIN e.words |-> Text(e.words[k])] = Present.start
               /\ [k \in DOMAIN e.headers |-> Pair(e.headers[k])]
                    = Present.headers \o Present.trailer
               /\ (IF e.body_base_offset = 0 THEN <<>> ELSE GetHttpBody) = Content(Present)
    BY DEF MessageAsSent
  <1>2. PICK m : m = Present
    OBVIOUS
  <1>3. m \in Message /\ Honest(m) /\ Len(sent) = taken + 1 /\ taken \in Nat
    BY <1>1, <1>2, TakenIs
  <1>4. taken < Len(sent)
    BY <1>3
  <1>5. m.headers \o m.trailer = m.headers
    <2>1. m.trailer = <<>> /\ m.headers \in Seq(Field)
      BY <1>3, Typed DEF Honest
    <2> QED BY <2>1, ConcatEmptySeq
  <1>6. /\ [k \in DOMAIN e.words |-> Text(e.words[k])] = m.start
        /\ [k \in DOMAIN e.headers |-> Pair(e.headers[k])] = m.headers
        /\ (IF e.body_base_offset = 0 THEN <<>> ELSE GetHttpBody) = Content(m)
    BY <1>1, <1>2, WordsAsSent, HeadersAsSent, ContentAsSent
  <1> QED BY <1>2, <1>4, <1>5, <1>6

\* The whole buffer is the message.
LEMMA TakenRelayed == ASSUME HonestPeers, ReadInv PROVE RelayedAsSent
  <1>1. SUFFICES ASSUME at = "taken" PROVE SubSeq(memory, 1, fill_ptr) = Render(Present)
    BY DEF RelayedAsSent
  <1>2. PICK m : m = Present
    OBVIOUS
  <1> DEFINE R == Render(m)
  <1>3. m \in Message /\ Came(m) /\ fill_ptr = Len(R) /\ ParserInv /\ R \in Seq(Byte)
        /\ Len(R) \in Nat
    BY <1>1, <1>2, TakenIs DEF Laid
  <1> HIDE DEF R
  <1>4. Has(R, 0, R)
    BY <1>3 DEF Has
  <1>5. SubSeq(memory, 0 + 1, 0 + Len(R)) = R
    <2>1. 0 + Len(R) <= fill_ptr
      BY <1>3
    <2> QED BY <1>3, <1>4, <2>1, PartOf DEF R
  <1>6. 0 + 1 = 1 /\ 0 + Len(R) = fill_ptr
    BY <1>3
  <1> QED BY <1>2, <1>5, <1>6 DEF R

-----------------------------------------------------------------------------
(* The theorems.                                                           *)

\* ReadInv holds of every state, if peers are honest.
LEMMA AlwaysReadInv == ASSUME HonestPeers PROVE Spec => []ReadInv
  <1>1. Init => ReadInv
    BY ReadInit
  <1>2. ReadInv /\ [Next]_vars => ReadInv'
    BY ReadNext
  <1> QED BY <1>1, <1>2, PTL DEF Spec

\* What ParseHttpBuffer has found of a message is what its peer has sent: the words of the
\* first line, every header, and the content, however the bytes were cut, how often the
\* buffer grew, and whatever an earlier message has left in it.
THEOREM HonestMessagesArrive == ASSUME HonestPeers PROVE Spec => []MessageAsSent
  <1>1. ReadInv => MessageAsSent
    BY TakenAsSent
  <1> QED BY <1>1, AlwaysReadInv, PTL

\* What ConnectForwardServer and OnReceivingForward copy from the buffer are the bytes the
\* peer has sent, all of them and no others.
THEOREM HonestMessagesRelayed == ASSUME HonestPeers PROVE Spec => []RelayedAsSent
  <1>1. ReadInv => RelayedAsSent
    BY TakenRelayed
  <1> QED BY <1>1, AlwaysReadInv, PTL

\* The parser refuses none of them, behind what another message has left or elsewhere, and
\* follows no pointer into freed memory: NEED_MORE is all that a cut can cause.
THEOREM HonestMessagesAccepted ==
    ASSUME HonestPeers
    PROVE  Spec => [](RefusedOnlyBehindRest /\ NeverRefused /\ at # "undefined")
  <1>1. ReadInv => RefusedOnlyBehindRest /\ NeverRefused /\ at # "undefined"
    BY DEF ReadInv, RefusedOnlyBehindRest, NeverRefused
  <1> QED BY <1>1, AlwaysReadInv, PTL
=============================================================================
