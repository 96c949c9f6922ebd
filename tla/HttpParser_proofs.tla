-------------------------- MODULE HttpParser_proofs -------------------------
(***************************************************************************)
(* For every message, every way it is cut and every size of the buffer:    *)
(* receiving and parsing stay inside the buffer.                           *)
(***************************************************************************)
EXTENDS HttpParser, SequenceTheorems, WellFoundedInduction, TLAPS

-----------------------------------------------------------------------------
(* The inductive invariant.                                                *)

Steps == {"WORD0", "WORD", "HEADER_NAME0", "HEADER_NAME", "HEADER_VALUE0", "HEADER_VALUE",
          "BODY", "CHUNKED_SIZE", "CHUNKED_DATA", "DONE"}
HeaderType == [name : WordType, value : WordType]
EnvType ==
    [parse_step : Steps, words : Seq(WordType), offset : Nat,
     header : HeaderType, headers : Seq(HeaderType),
     content_length : Nat, chunked : BOOLEAN, TRAILER : WordType, body_base_offset : Nat,
     chunked_length : Nat, chunked_body : Nat, chunked_body_end : Nat,
     dangling : BOOLEAN, reforming_flag : BOOLEAN]

\* How the rest of HttpEnv fits to a buffer of which q bytes have been looked at.  The
\* words of the first line are counted until it is complete; the content and the present
\* chunk begin inside what was received; and the name of the header being read begins
\* with a byte that ends, at the latest, the search back for the last byte of its value.
Fits(f, q) ==
    /\ f.body_base_offset <= fill_ptr /\ f.chunked_body <= fill_ptr
    /\ f.parse_step \in {"WORD0", "WORD"} => Len(f.words) < 3
    /\ f.parse_step \in {"HEADER_NAME", "HEADER_VALUE0", "HEADER_VALUE"} =>
          f.header.name.offset < q /\ At(f.header.name.offset) \notin {SP, CR}

ParserInv ==
    /\ HttpParserTypeOK
    /\ e \in EnvType
    /\ at \in {"epoll", "receive"} => Fits(e, process_ptr)
    /\ at = "parse" => Fits(e, p)

-----------------------------------------------------------------------------
(* The recursive functions: what they compute has the type it should.      *)

\* A set of natural numbers that is not empty has a least element.
LEMMA Least ==
    ASSUME NEW T \in SUBSET Nat, T # {}
    PROVE  \E x \in T : \A y \in T : x <= y
  <1>1. \A x, y \in Nat : <<x, y>> \in OpToRel(<, Nat) <=> x < y
    BY DEF OpToRel
  <1>2. PICK x \in T : \A y \in T : ~ (<<y, x>> \in OpToRel(<, Nat))
    BY NatLessThanWellFounded, WFMin, Zenon
  <1>3. \A y \in T : ~ (y < x)
    BY <1>1, <1>2
  <1> QED BY <1>3

\* The least element is one of them.
LEMMA LeastOne ==
    ASSUME NEW T \in SUBSET Nat, T # {}
    PROVE  Min(T) \in T
  <1>1. \E x \in T : \A y \in T : x <= y
    BY Least
  <1> QED BY <1>1, Zenon DEF Min

\* A set of numbers up to n that has 0, and the successor of every member below n, has all.
LEMMA UpTo ==
    ASSUME NEW n \in Nat, NEW G, 0 \in G, \A k \in 0 .. n : k < n /\ k \in G => k + 1 \in G
    PROVE  0 .. n \subseteq G
  <1> DEFINE T == {k \in 0 .. n : k \notin G}
  <1>1. SUFFICES ASSUME T # {} PROVE FALSE
    OBVIOUS
  <1>2. T \in SUBSET Nat
    OBVIOUS
  <1>3. PICK x \in T : \A y \in T : x <= y
    <2> HIDE DEF T
    <2> QED BY <1>1, <1>2, Least
  <1>4. x \in 0 .. n /\ x \notin G /\ x # 0
    OBVIOUS
  <1>5. x - 1 \in 0 .. n /\ x - 1 < n /\ ~ (x <= x - 1) /\ (x - 1) + 1 = x
    BY ONLY <1>4, n \in Nat
  <1>6. x - 1 \in G
    BY <1>3, <1>5
  <1> QED BY <1>4, <1>5, <1>6

\* Where n steps lead that are taken from v one after the other.
Paths(n, V, v, F) ==
    {g \in [0 .. n -> V] : g[0] = v /\ \A k \in 1 .. n : g[k] = F[k][g[k - 1]]}
Walks(n, V) == [1 .. n -> [V -> V]]

\* If each of the steps stays in V there is such a path.
LEMMA Recursion ==
    ASSUME NEW n \in Nat, NEW V, NEW v \in V, NEW F \in Walks(n, V)
    PROVE  Paths(n, V, v, F) # {}
  <1> DEFINE Reaches(g, k) == g[0] = v /\ \A j \in 1 .. k : g[j] = F[j][g[j - 1]]
             G == {k \in 0 .. n : \E g \in [0 .. n -> V] : Reaches(g, k)}
  <1>1. 0 \in G
    <2>1. [k \in 0 .. n |-> v] \in [0 .. n -> V] /\ Reaches([k \in 0 .. n |-> v], 0)
      OBVIOUS
    <2>2. \E g \in [0 .. n -> V] : Reaches(g, 0)
      BY <2>1, Zenon
    <2> HIDE DEF Reaches
    <2> QED BY <2>2
  <1>2. ASSUME NEW k \in 0 .. n, k < n, k \in G
        PROVE  k + 1 \in G
    <2>1. PICK g \in [0 .. n -> V] : Reaches(g, k)
      BY <1>2
    <2> DEFINE h == [g EXCEPT ![k + 1] = F[k + 1][g[k]]]
    <2>2. k + 1 \in 0 .. n /\ k + 1 \in 1 .. n /\ (k + 1) - 1 = k
      BY <1>2
    <2>3. F[k + 1][g[k]] \in V
      BY <2>2 DEF Walks
    <2>4. h \in [0 .. n -> V] /\ h[0] = v
      BY <2>1, <2>2, <2>3
    <2>5. ASSUME NEW j \in 1 .. k + 1 PROVE h[j] = F[j][h[j - 1]]
      <3>1. j \in 0 .. n /\ j - 1 \in 0 .. n /\ j - 1 # k + 1 /\ (j = k + 1 \/ j \in 1 .. k)
        BY <2>2
      <3>2. h[j - 1] = g[j - 1]
        BY <3>1
      <3>3. CASE j = k + 1
        BY <2>2, <3>2, <3>3
      <3>4. CASE j \in 1 .. k
        BY <2>1, <2>2, <3>1, <3>2, <3>4
      <3> QED BY <3>1, <3>3, <3>4
    <2>6. Reaches(h, k + 1)
      BY <2>4, <2>5
    <2> QED BY <2>2, <2>4, <2>6
  <1>3. n \in G
    <2> HIDE DEF G
    <2>1. 0 .. n \subseteq G
      BY <1>1, <1>2, UpTo
    <2> QED BY <2>1
  <1> QED BY <1>3 DEF Paths

\* A character that is a digit has a value.
LEMMA ValueIsNat ==
    ASSUME NEW c, c \in ToSet(Digit)
    PROVE  ValueOf(c) \in Nat
  <1>1. \E i \in 0 .. 4 : Digit[i + 1] = c
    BY DEF ToSet, Digit
  <1>2. ValueOf(c) \in 0 .. 4
    BY <1>1, Zenon DEF ValueOf
  <1> QED BY <1>2

\* A number stays one with every character.
LEMMA NumberIsNat ==
    ASSUME NEW n \in Nat, NEW text, Len(text) \in Nat
    PROVE  Number(n, text) \in Nat
  <1> DEFINE L == Len(text)
             Next1(k, v) == IF text[k] \in ToSet(Digit) THEN 10 * v + ValueOf(text[k]) ELSE v
             All(f) == [k \in 0 .. L |-> IF k = 0 THEN n ELSE Next1(k, f[k - 1])]
             upto == CHOOSE f : f = All(f)
             F == [k \in 1 .. L |-> [v \in Nat |-> Next1(k, v)]]
  <1>1. Number(n, text) = upto[L]
    BY Zenon DEF Number
  <1>2. \A k \in 1 .. L, v \in Nat : Next1(k, v) \in Nat
    BY ValueIsNat
  <1>3. F \in Walks(L, Nat)
    BY <1>2 DEF Walks
  <1>4. PICK g \in [0 .. L -> Nat] : g[0] = n /\ \A k \in 1 .. L : g[k] = F[k][g[k - 1]]
    <2>1. L \in Nat
      OBVIOUS
    <2> HIDE DEF F, L
    <2>2. Paths(L, Nat, n, F) # {}
      BY <1>3, <2>1, Recursion
    <2> QED BY <2>2 DEF Paths
  <1>5. \A k \in 1 .. L : k - 1 \in 0 .. L /\ k \in 0 .. L
    OBVIOUS
  <1>6. \A k \in 1 .. L : g[k] = Next1(k, g[k - 1])
    BY <1>4, <1>5
  <1> HIDE DEF Next1, F, L
  <1>7. g = All(g)
    BY <1>4, <1>6
  <1>8. upto = All(upto)
    BY <1>7
  <1> HIDE DEF upto
  <1>9. upto[0] = n /\ \A k \in 1 .. L : upto[k] = Next1(k, upto[k - 1])
    BY <1>8 DEF L
  <1>10. 0 .. L \subseteq {k \in Nat : upto[k] \in Nat}
    <2> DEFINE G == {k \in Nat : upto[k] \in Nat}
    <2>1. 0 \in G
      BY <1>9
    <2>2. ASSUME NEW k \in 0 .. L, k < L, k \in G PROVE k + 1 \in G
      <3>1. k + 1 \in 1 .. L /\ (k + 1) - 1 = k
        BY <2>2 DEF L
      <3>2. upto[k + 1] = Next1(k + 1, upto[k])
        BY <1>9, <3>1
      <3>3. Next1(k + 1, upto[k]) \in Nat
        BY <1>2, <2>2, <3>1
      <3> QED BY <3>1, <3>2, <3>3
    <2>3. L \in Nat
      BY DEF L
    <2> HIDE DEF G
    <2> QED BY <2>1, <2>2, <2>3, UpTo DEF G
  <1>11. upto[L] \in Nat
    BY <1>10 DEF L
  <1> QED BY <1>1, <1>11

\* What sequences over S are put together to is one.
LEMMA FlattenedIsSeq ==
    ASSUME NEW S, NEW seqs \in Seq(Seq(S))
    PROVE  FlattenSeq(seqs) \in Seq(S)
  <1>1. CASE Len(seqs) = 0
    <2>1. seqs = <<>>
      BY <1>1, EmptySeq
    <2> QED BY <1>1, <2>1 DEF FlattenSeq
  <1>2. CASE Len(seqs) # 0
    <2> DEFINE n == Len(seqs)
               V == Seq(S)
               Longer(i, v) == IF i = 1 THEN seqs[i] ELSE v \o seqs[i]
               All(f) == [i \in 1 .. n |-> Longer(i, f[i - 1])]
               flatten == CHOOSE f : f = All(f)
               F == [i \in 1 .. n |-> [v \in V |-> Longer(i, v)]]
    <2>1. FlattenSeq(seqs) = flatten[n]
      BY <1>2, Zenon DEF FlattenSeq
    <2>2. n \in Nat /\ n # 0 /\ <<>> \in V
      BY <1>2, LenProperties, EmptySeq
    <2>3. \A i \in 1 .. n, v \in V : Longer(i, v) \in V
      BY ElementOfSeq, ConcatProperties
    <2>4. F \in Walks(n, V)
      BY <2>3 DEF Walks
    <2>5. PICK g \in [0 .. n -> V] : g[0] = <<>> /\ \A i \in 1 .. n : g[i] = F[i][g[i - 1]]
      <3> HIDE DEF F, n, V
      <3>1. Paths(n, V, <<>>, F) # {}
        BY <2>2, <2>4, Recursion
      <3> QED BY <3>1 DEF Paths
    <2>6. \A i \in 1 .. n : i - 1 \in 0 .. n /\ i \in 0 .. n
      BY <2>2
    <2>7. \A i \in 1 .. n : g[i] = Longer(i, g[i - 1])
      BY <2>5, <2>6
    <2> DEFINE h == [i \in 1 .. n |-> g[i]]
    <2> HIDE DEF F, V, n
    <2>8. h = All(h)
      <3>1. ASSUME NEW i \in 1 .. n
            PROVE  g[i] = Longer(i, h[i - 1])
        <4>1. CASE i = 1
          BY <2>7, <4>1
        <4>2. CASE i # 1
          <5>1. i - 1 \in 1 .. n
            BY <2>2, <4>2
          <5>2. h[i - 1] = g[i - 1]
            BY <5>1
          <5> QED BY <2>7, <5>2
        <4> QED BY <4>1, <4>2
      <3> HIDE DEF Longer
      <3> QED BY <3>1
    <2>9. flatten = All(flatten)
      <3> HIDE DEF All, h
      <3> QED BY <2>8
    <2> HIDE DEF flatten, Longer
    <2>10. \A i \in 1 .. n : flatten[i] = Longer(i, flatten[i - 1])
      BY <2>9
    <2>11. 0 .. n \subseteq {k \in Nat : k = 0 \/ flatten[k] \in V}
      <3> DEFINE G == {k \in Nat : k = 0 \/ flatten[k] \in V}
      <3>1. 0 \in G
        OBVIOUS
      <3>2. ASSUME NEW k \in 0 .. n, k < n, k \in G PROVE k + 1 \in G
        <4>1. k + 1 \in 1 .. n /\ (k + 1) - 1 = k /\ k + 1 \in Nat
          BY <2>2, <3>2
        <4>2. flatten[k + 1] = Longer(k + 1, flatten[k])
          BY <2>10, <4>1
        <4>3. CASE k = 0
          <5>1. Longer(1, flatten[k]) = Longer(1, <<>>)
            BY DEF Longer
          <5> QED BY <2>2, <2>3, <4>1, <4>2, <4>3, <5>1
        <4>4. CASE k # 0
          BY <2>3, <3>2, <4>1, <4>2, <4>4
        <4> QED BY <4>3, <4>4
      <3> HIDE DEF G
      <3>3. 0 .. n \subseteq G
        BY <2>2, <3>1, <3>2, UpTo
      <3> QED BY <3>3 DEF G
    <2>12. flatten[n] \in V
      BY <2>2, <2>11
    <2> QED BY <2>1, <2>12 DEF V
  <1> QED BY <1>1, <1>2

-----------------------------------------------------------------------------
(* What peers send.                                                        *)

\* The bytes that separate the parts of a message.
LEMMA Separators ==
    /\ <<SP>> \in Seq(Byte) /\ <<":", SP>> \in Seq(Byte) /\ <<"0">> \in Seq(Byte)
    /\ <<CR, LF>> \in Seq(Byte) /\ <<LF>> \in Seq(Byte) /\ <<>> \in Seq(Byte)
    /\ NUL \in Byte
    /\ \A n \in 0 .. 4 : <<Digit[n + 1]>> \in Seq(Byte)
  <1>1. SP \in Byte /\ CR \in Byte /\ LF \in Byte /\ ":" \in Byte /\ NUL \in Byte
    BY DEF Byte
  <1>2. \A n \in 0 .. 4 : Digit[n + 1] \in Byte
    BY DEF Digit, Byte, ToSet
  <1>3. "0" \in Byte
    BY DEF Digit, Byte, ToSet
  <1>4. \A a \in Byte : <<a>> \in Seq(Byte)
    OBVIOUS
  <1>5. \A a, b \in Byte : <<a, b>> \in Seq(Byte)
    OBVIOUS
  <1> QED BY <1>1, <1>2, <1>3, <1>4, <1>5

\* The elements of a sequence.
LEMMA InSeq ==
    ASSUME NEW S, NEW s \in Seq(S)
    PROVE  /\ DOMAIN s = 1 .. Len(s) /\ Len(s) \in Nat
           /\ \A i \in DOMAIN s : s[i] \in S
  BY LenProperties, ElementOfSeq

\* Bytes followed by bytes are bytes.
LEMMA Joined ==
    \A s, t \in Seq(Byte) : s \o t \in Seq(Byte)
  BY ConcatProperties

\* Header lines are bytes.
LEMMA LinesAreBytes ==
    ASSUME NEW fields \in Seq(Field), NEW eol \in {<<CR, LF>>, <<LF>>}
    PROVE  Lines(fields, eol) \in Seq(Byte)
  <1> DEFINE lines == [i \in DOMAIN fields |->
                          fields[i].name \o <<":", SP>> \o fields[i].value \o eol]
  <1>1. ASSUME NEW i \in DOMAIN fields
        PROVE  fields[i].name \o <<":", SP>> \o fields[i].value \o eol \in Seq(Byte)
    <2>1. fields[i].name \in Seq(Byte) /\ fields[i].value \in Seq(Byte) /\ eol \in Seq(Byte)
      <3>1. fields[i] \in Field
        BY InSeq
      <3>2. eol \in Seq(Byte)
        BY Separators
      <3> QED BY <3>1, <3>2 DEF Field
    <2>2. fields[i].name \o <<":", SP>> \in Seq(Byte)
      BY <2>1, Separators, Joined
    <2>3. fields[i].name \o <<":", SP>> \o fields[i].value \in Seq(Byte)
      BY <2>1, <2>2, Joined
    <2> QED BY <2>1, <2>3, Joined
  <1>2. lines \in Seq(Seq(Byte))
    <2>1. DOMAIN fields = 1 .. Len(fields) /\ Len(fields) \in Nat
      BY LenProperties
    <2> QED BY <1>1, <2>1
  <1>3. FlattenSeq(lines) \in Seq(Byte)
    <2> HIDE DEF lines
    <2> QED BY <1>2, FlattenedIsSeq
  <1> QED BY <1>3 DEF Lines

\* The chunks of a message are bytes, with their sizes and ends of lines.
LEMMA ChunksAreBytes ==
    ASSUME NEW chunks \in Seq(Seq(Byte)), NEW eol \in {<<CR, LF>>, <<LF>>},
           \A c \in ToSet(chunks) : Len(c) < Len(Digit)
    PROVE  FlattenSeq([i \in DOMAIN chunks |-> Chunk(chunks[i], eol)]) \in Seq(Byte)
  <1> DEFINE coded == [i \in DOMAIN chunks |-> Chunk(chunks[i], eol)]
  <1>1. ASSUME NEW i \in DOMAIN chunks PROVE Chunk(chunks[i], eol) \in Seq(Byte)
    <2> DEFINE c == chunks[i]
    <2>1. c \in Seq(Byte) /\ eol \in Seq(Byte) /\ c \in ToSet(chunks)
      <3>1. eol \in Seq(Byte)
        BY Separators
      <3> QED BY <3>1, InSeq DEF ToSet
    <2>2. Len(c) \in 0 .. 4
      <3>1. Len(Digit) = 5
        BY DEF Digit
      <3>2. Len(c) < Len(Digit) /\ Len(c) \in Nat
        BY <2>1, LenProperties
      <3> DEFINE n == Len(c)
      <3>3. n < 5 /\ n \in Nat
        BY <3>1, <3>2, Zenon
      <3> HIDE DEF n
      <3>4. n \in 0 .. 4
        BY ONLY <3>3
      <3> QED BY <3>4 DEF n
    <2>3. <<Digit[Len(c) + 1]>> \in Seq(Byte)
      BY <2>2, Separators
    <2> HIDE DEF c
    <2>4. <<Digit[Len(c) + 1]>> \o eol \in Seq(Byte)
      BY <2>1, <2>3, Joined
    <2>5. <<Digit[Len(c) + 1]>> \o eol \o c \in Seq(Byte)
      BY <2>1, <2>4, Joined
    <2>6. <<Digit[Len(c) + 1]>> \o eol \o c \o eol \in Seq(Byte)
      BY <2>1, <2>5, Joined
    <2> QED BY <2>6 DEF Chunk, c
  <1>2. coded \in Seq(Seq(Byte))
    <2>1. DOMAIN chunks = 1 .. Len(chunks) /\ Len(chunks) \in Nat
      BY LenProperties
    <2> QED BY <1>1, <2>1
  <1>3. FlattenSeq(coded) \in Seq(Byte)
    <2> HIDE DEF coded
    <2> QED BY <1>2, FlattenedIsSeq
  <1> QED BY <1>3

\* A message is bytes.
LEMMA MessageIsBytes ==
    ASSUME NEW m \in Message
    PROVE  /\ Render(m) \in Seq(Byte)
           /\ \A n \in Nat : SubSeq(Render(m), 1, Len(Render(m)) - n) \in Seq(Byte)
           /\ m.held \in Nat
  <1>1. /\ m.eol \in {<<CR, LF>>, <<LF>>} /\ m.start \in Seq(Seq(Byte))
        /\ m.headers \in Seq(Field) /\ m.chunks \in Seq(Seq(Byte))
        /\ m.trailer \in Seq(Field) /\ m.held \in Nat /\ Len(m.start) = 3
        /\ m.chunked => \A c \in ToSet(m.chunks) : Len(c) < Len(Digit)
    BY HttpParserAssumption DEF MessageType
  <1>2. /\ m.eol \in Seq(Byte)
        /\ Lines(m.headers, m.eol) \in Seq(Byte) /\ Lines(m.trailer, m.eol) \in Seq(Byte)
    BY <1>1, LinesAreBytes, Separators
  <1>3. m.start[1] \in Seq(Byte) /\ m.start[2] \in Seq(Byte) /\ m.start[3] \in Seq(Byte)
    BY <1>1, ElementOfSeq
  <1>4. Coded(m) \in Seq(Byte)
    <2>1. CASE m.chunked
      <3> DEFINE x == FlattenSeq([i \in DOMAIN m.chunks |-> Chunk(m.chunks[i], m.eol)])
      <3>1. x \in Seq(Byte)
        BY <1>1, <2>1, ChunksAreBytes
      <3> HIDE DEF x
      <3>2. x \o <<"0">> \in Seq(Byte)
        BY <3>1, Joined, Separators
      <3>3. x \o <<"0">> \o m.eol \in Seq(Byte)
        BY <1>2, <3>2, Joined
      <3>4. x \o <<"0">> \o m.eol \o Lines(m.trailer, m.eol) \in Seq(Byte)
        BY <1>2, <3>3, Joined
      <3>5. x \o <<"0">> \o m.eol \o Lines(m.trailer, m.eol) \o m.eol \in Seq(Byte)
        BY <1>2, <3>4, Joined
      <3> QED BY <2>1, <3>5 DEF Coded, x
    <2>2. CASE ~ m.chunked
      BY <1>1, <2>2, FlattenedIsSeq DEF Coded, Content
    <2> QED BY <2>1, <2>2
  <1>5. Render(m) \in Seq(Byte)
    <2> DEFINE a == m.start[1] \o <<SP>>
               b == a \o m.start[2]
               c == b \o <<SP>>
               d == c \o m.start[3]
               f == d \o m.eol
               g == f \o Lines(m.headers, m.eol)
               h == g \o m.eol
    <2>1. a \in Seq(Byte)
      BY <1>3, Joined, Separators
    <2>2. b \in Seq(Byte)
      BY <1>3, <2>1, Joined
    <2>3. c \in Seq(Byte)
      BY <2>2, Joined, Separators
    <2>4. d \in Seq(Byte)
      BY <1>3, <2>3, Joined
    <2>5. f \in Seq(Byte)
      BY <1>2, <2>4, Joined
    <2>6. g \in Seq(Byte)
      BY <1>2, <2>5, Joined
    <2>7. h \in Seq(Byte)
      BY <1>2, <2>6, Joined
    <2>8. h \o Coded(m) \in Seq(Byte)
      BY <1>4, <2>7, Joined
    <2> QED BY <2>8 DEF Render
  <1>6. ASSUME NEW n \in Nat
        PROVE  SubSeq(Render(m), 1, Len(Render(m)) - n) \in Seq(Byte)
    <2>1. Len(Render(m)) \in Nat
      BY <1>5, LenProperties
    <2>2. \A i \in 1 .. Len(Render(m)) - n : Render(m)[i] \in Byte
      BY <1>5, <2>1, ElementOfSeq
    <2> QED BY <2>1, <2>2, SubSeqProperties
  <1> QED BY <1>1, <1>5, <1>6

-----------------------------------------------------------------------------
(* Looking for a byte.                                                     *)

\* The search goes on to a byte that stops it, or to the end of what was received.
LEMMA Found ==
    ASSUME fill_ptr \in Nat, NEW q \in 0 .. fill_ptr, NEW stop
    PROVE  /\ Seek(q, stop) \in q .. fill_ptr
           /\ Seek(q, stop) # fill_ptr => At(Seek(q, stop)) \in stop
           /\ Past(q, stop) \in q .. fill_ptr
           /\ Past(q, stop) # fill_ptr => At(Past(q, stop)) \notin stop
  <1>1. ASSUME NEW T, T \subseteq q .. fill_ptr, fill_ptr \in T
        PROVE  Min(T) \in T
    BY <1>1, LeastOne
  <1> DEFINE S == {r \in q .. fill_ptr : r = fill_ptr \/ At(r) \in stop}
             P == {r \in q .. fill_ptr : r = fill_ptr \/ At(r) \notin stop}
  <1>2. Min(S) \in S /\ Min(P) \in P
    <2>1. S \subseteq q .. fill_ptr /\ fill_ptr \in S
      OBVIOUS
    <2>2. P \subseteq q .. fill_ptr /\ fill_ptr \in P
      OBVIOUS
    <2> HIDE DEF S, P
    <2> QED BY <1>1, <2>1, <2>2
  <1>3. Seek(q, stop) = Min(S) /\ Past(q, stop) = Min(P)
    BY DEF Seek, Past
  <1> HIDE DEF S, P
  <1>4. Seek(q, stop) \in S /\ Past(q, stop) \in P
    BY <1>2, <1>3
  <1> QED BY <1>4 DEF S, P

\* The search back for the last byte of a value ends inside the buffer if there is a byte
\* to be found.
LEMMA FoundBack ==
    ASSUME NEW q \in Nat, NEW i \in 0 .. q - 1, At(i) \notin {SP, CR}
    PROVE  Back(q, {SP, CR}) \in 0 .. q - 1
  <1> DEFINE S == {r \in 0 .. q - 1 : At(r) \notin {SP, CR}}
             T == {q - r : r \in S}
  <1>1. \A r \in S : r \in 0 .. q - 1
    OBVIOUS
  <1>2. i \in S
    OBVIOUS
  <1> HIDE DEF S
  <1>3. T \in SUBSET Nat /\ T # {}
    BY <1>1, <1>2
  <1>4. PICK x \in T : \A y \in T : x <= y
    <2> HIDE DEF T
    <2> QED BY <1>3, Least
  <1>5. PICK r \in S : x = q - r
    OBVIOUS
  <1>6. \A t \in S : r >= t
    <2> SUFFICES ASSUME NEW t \in S PROVE r >= t
      OBVIOUS
    <2>1. q - t \in T
      OBVIOUS
    <2>2. x <= q - t
      BY <1>4, <2>1
    <2> QED BY ONLY <1>1, <1>5, <2>2, q \in Nat, t \in S, r \in S
  <1>7. Max(S) \in S
    BY <1>6, Zenon DEF Max
  <1>8. Back(q, {SP, CR}) = Max(S)
    BY DEF Back, S
  <1> QED BY <1>1, <1>7, <1>8

\* The length of a word is a number, whatever it was found to be.
LEMMA LengthOfText ==
    ASSUME NEW s, NEW m \in Int, NEW n \in Int
    PROVE  Len(SubSeq(s, m, n)) \in Nat
  <1>1. \A i \in m .. n : s[i] \in {s[j] : j \in Int}
    OBVIOUS
  <1>2. Len(SubSeq(s, m, n)) = IF m <= n THEN n - m + 1 ELSE 0
    BY <1>1, SubSeqProperties
  <1> QED BY <1>2

\* What strtol reads is a number.
LEMMA StrtolIsNat ==
    ASSUME NEW text, Len(text) \in Nat
    PROVE  Strtol(text) \in Nat
  <1> DEFINE L == Len(text)
             T == {i \in 0 .. L : i = L \/ text[i + 1] \notin ToSet(Digit)}
             begin == SubSeq(text, 1, Min(T))
  <1>1. T \in SUBSET Nat /\ L \in T
    OBVIOUS
  <1>2. Strtol(text) = Number(0, begin)
    BY DEF Strtol
  <1> HIDE DEF T
  <1>3. Min(T) \in T
    BY <1>1, LeastOne
  <1>4. Min(T) \in Int
    <2>1. Min(T) \in Nat
      BY <1>1, <1>3, Zenon
    <2> QED BY <2>1
  <1>5. Len(begin) \in Nat
    BY <1>4, LengthOfText
  <1> HIDE DEF begin
  <1> QED BY <1>2, <1>5, NumberIsNat

-----------------------------------------------------------------------------
(* The ways a case of ParseHttpBuffer ends.                                *)

\* A case leaves the peers and what they have sent alone.
Parsing == at = "parse" /\ UNCHANGED <<peerVars, wire>>

\* It returns for more, having looked at q bytes.
LEMMA NeedMoreKeeps ==
    ASSUME ParserInv, Parsing, NEW q \in 0 .. fill_ptr, NEW f \in EnvType,
           Len(f.words) <= 3, Fits(f, q), NeedMore(q, f)
    PROVE  ParserInv'
  <1>1. /\ process_ptr' = q /\ e' = f /\ at' = "receive" /\ p' = 0
        /\ UNCHANGED <<memory, fill_ptr, role, sent, taken, budget, wire>>
    BY DEF NeedMore, Parsing, peerVars
  <1>2. HttpParserTypeOK'
    BY <1>1 DEF ParserInv, HttpParserTypeOK, EnvType, buf_size
  <1>3. Fits(e, process_ptr)'
    BY <1>1 DEF Fits, At
  <1> QED BY <1>1, <1>2, <1>3 DEF ParserInv

\* It falls through to the next one.
LEMMA GoOnKeeps ==
    ASSUME ParserInv, Parsing, NEW q \in 0 .. fill_ptr, NEW f \in EnvType,
           Len(f.words) <= 3, Fits(f, q), GoOn(q, f)
    PROVE  ParserInv'
  <1>1. /\ p' = q /\ e' = f
        /\ UNCHANGED <<at, memory, process_ptr, fill_ptr, role, sent, taken, budget, wire>>
    BY DEF GoOn, Parsing, peerVars, bufferVars
  <1>2. HttpParserTypeOK'
    BY <1>1 DEF ParserInv, HttpParserTypeOK, EnvType, buf_size, Parsing
  <1>3. Fits(e, p)'
    BY <1>1 DEF Fits, At
  <1> QED BY <1>1, <1>2, <1>3 DEF ParserInv, Parsing

\* The message is refused, or nothing is certain any more.
LEMMA StopKeeps ==
    ASSUME ParserInv, Parsing, at' \in {"closed", "undefined"}, p' = 0,
           UNCHANGED <<bufferVars, e>>
    PROVE  ParserInv'
  <1>1. UNCHANGED <<memory, process_ptr, fill_ptr, role, sent, taken, budget, wire, e>>
    BY DEF Parsing, peerVars, bufferVars
  <1>2. HttpParserTypeOK'
    BY <1>1 DEF ParserInv, HttpParserTypeOK, buf_size
  <1> QED BY <1>1, <1>2 DEF ParserInv

\* The message is complete.
LEMMA DoneKeeps ==
    ASSUME ParserInv, Parsing, NEW q \in 0 .. fill_ptr, NEW f \in EnvType,
           Len(f.words) <= 3, NEW keeps_rest \in BOOLEAN, Done(q, f, keeps_rest)
    PROVE  ParserInv'
  <1>1. /\ process_ptr' = q /\ at' = "taken" /\ p' = 0
        /\ memory' = [memory EXCEPT ![q + 1] = NUL]
        /\ UNCHANGED <<fill_ptr, role, sent, taken, budget, wire>>
    BY DEF Done, Parsing, peerVars
  <1>2. /\ e' = [f EXCEPT !.parse_step = "DONE",
                          !.reforming_flag = f.reforming_flag \/ (keeps_rest /\ fill_ptr > q)]
    BY DEF Done
  <1>3. e' \in EnvType /\ e'.words = f.words
    BY <1>2 DEF EnvType, Steps
  <1>4. memory' \in Seq(Byte) /\ Len(memory') = Len(memory)
    <2>1. memory \in Seq(Byte) /\ NUL \in Byte
      BY Separators DEF ParserInv, HttpParserTypeOK
    <2>2. q + 1 \in 1 .. Len(memory)
      BY <2>1, LenProperties DEF ParserInv, HttpParserTypeOK, buf_size
    <2> QED BY <1>1, <2>1, <2>2, ExceptSeq
  <1>5. HttpParserTypeOK'
    BY <1>1, <1>3, <1>4 DEF ParserInv, HttpParserTypeOK, EnvType, buf_size
  <1> QED BY <1>1, <1>3, <1>5 DEF ParserInv

\* What is known at the beginning of a case.
LEMMA InCase ==
    ASSUME ParserInv, Parsing
    PROVE  /\ fill_ptr \in Nat /\ p \in 0 .. fill_ptr /\ fill_ptr < buf_size
           /\ process_ptr \in 0 .. fill_ptr /\ p \in Nat
           /\ e \in EnvType /\ Len(e.words) <= 3 /\ Fits(e, p)
  BY LenProperties DEF ParserInv, Parsing, HttpParserTypeOK, buf_size

-----------------------------------------------------------------------------
(* The cases of ParseHttpBuffer.                                           *)

\* METHOD0, URI0 and VERSION0; VERSION0, STATUSCODE0 and REASONPHRASE0.
LEMMA Word0Keeps == ASSUME ParserInv, Parsing, Word0 PROVE ParserInv'
  <1> DEFINE q == Past(p, {SP})
             f == [e EXCEPT !.parse_step = "WORD", !.offset = q]
  <1>1. q \in p .. fill_ptr /\ q \in 0 .. fill_ptr /\ q \in Nat
    BY InCase, Found
  <1>2. /\ e.parse_step = "WORD0"
        /\ \/ NeedMore(q, e)
           \/ Refuse
           \/ q < fill_ptr /\ GoOn(q + 1, f)
    BY DEF Word0
  <1> HIDE DEF q
  <1>3. CASE NeedMore(q, e)
    <2>1. Fits(e, q)
      BY <1>2, InCase DEF Fits
    <2> QED BY <1>1, <1>3, <2>1, InCase, NeedMoreKeeps
  <1>4. CASE Refuse
    BY <1>4, StopKeeps DEF Refuse
  <1>5. CASE q < fill_ptr /\ GoOn(q + 1, f)
    <2>1. f \in EnvType /\ f.words = e.words /\ f.parse_step = "WORD"
          /\ f.body_base_offset = e.body_base_offset /\ f.chunked_body = e.chunked_body
      BY <1>1, InCase DEF EnvType, Steps
    <2> HIDE DEF f
    <2>2. Len(f.words) <= 3 /\ Fits(f, q + 1)
      BY <1>2, <2>1, InCase DEF Fits
    <2>3. q + 1 \in 0 .. fill_ptr
      BY <1>1, <1>5, InCase
    <2> QED BY <1>5, <2>1, <2>2, <2>3, GoOnKeeps
  <1> QED BY <1>2, <1>3, <1>4, <1>5

\* METHOD, URI and VERSION; VERSION, STATUSCODE and REASONPHRASE.
LEMMA WordKeeps == ASSUME ParserInv, Parsing, Word PROVE ParserInv'
  <1> DEFINE k == Len(e.words) + 1
             q == Seek(p, IF k = 3 THEN {LF} ELSE {SP, LF})
             cr == IF k = 3 /\ At(q - 1) = CR THEN 1 ELSE 0
             w == [offset |-> e.offset, len |-> q - e.offset - cr]
             step == IF k = 3 THEN "HEADER_NAME0" ELSE "WORD0"
             f == [e EXCEPT !.parse_step = step, !.words = Append(@, w)]
  <1>1. q \in p .. fill_ptr /\ q \in 0 .. fill_ptr /\ q \in Nat
    BY InCase, Found
  <1>2. /\ e.parse_step = "WORD"
        /\ \/ NeedMore(q, e)
           \/ Refuse
           \/ q < fill_ptr /\ GoOn(q + 1, f)
    BY DEF Word
  <1>3. cr \in {0, 1}
    OBVIOUS
  <1> HIDE DEF q, cr
  <1>4. CASE NeedMore(q, e)
    <2>1. Fits(e, q)
      BY <1>2, InCase DEF Fits
    <2> QED BY <1>1, <1>4, <2>1, InCase, NeedMoreKeeps
  <1>5. CASE Refuse
    BY <1>5, StopKeeps DEF Refuse
  <1>6. CASE q < fill_ptr /\ GoOn(q + 1, f)
    <2>1. w \in WordType
      BY <1>1, <1>3, InCase DEF WordType, EnvType
    <2>2. /\ e.words \in Seq(WordType) /\ Len(e.words) \in 0 .. 2
          /\ step \in {"HEADER_NAME0", "WORD0"} /\ (step = "WORD0" => Len(e.words) < 2)
      <3>1. e.words \in Seq(WordType) /\ Len(e.words) < 3
        BY <1>2, InCase DEF Fits, EnvType
      <3>2. Len(e.words) \in Nat
        BY <3>1, LenProperties
      <3>3. Len(e.words) \in 0 .. 2 /\ (k # 3 => Len(e.words) < 2)
        <4> DEFINE n == Len(e.words)
        <4>1. n \in Nat /\ n < 3
          BY <3>1, <3>2
        <4> HIDE DEF n
        <4>2. n \in 0 .. 2 /\ (n + 1 # 3 => n < 2)
          BY ONLY <4>1
        <4> QED BY <4>2 DEF n
      <3> HIDE DEF k
      <3>4. step = IF k = 3 THEN "HEADER_NAME0" ELSE "WORD0"
        OBVIOUS
      <3>5. step \in {"HEADER_NAME0", "WORD0"} /\ (step = "WORD0" => k # 3)
        BY ONLY <3>4
      <3> QED BY <3>1, <3>3, <3>5
    <2>3. /\ Append(e.words, w) \in Seq(WordType)
          /\ Len(Append(e.words, w)) = Len(e.words) + 1
      BY <2>1, <2>2, AppendProperties
    <2> HIDE DEF w, step
    <2>4. /\ f \in EnvType /\ f.parse_step = step /\ f.words = Append(e.words, w)
          /\ f.body_base_offset = e.body_base_offset /\ f.chunked_body = e.chunked_body
      BY <2>2, <2>3, InCase DEF EnvType, Steps
    <2> HIDE DEF f
    <2>5. Len(f.words) <= 3 /\ Fits(f, q + 1)
      BY <2>2, <2>3, <2>4, InCase DEF Fits
    <2>6. q + 1 \in 0 .. fill_ptr
      BY <1>1, <1>6, InCase
    <2> QED BY <1>6, <2>4, <2>5, <2>6, GoOnKeeps
  <1> QED BY <1>2, <1>4, <1>5, <1>6

\* The end of the headers at q: the message is complete, or its content begins.
LEMMA EndOfHeadersKeeps ==
    ASSUME ParserInv, Parsing, NEW q \in 0 .. fill_ptr, EndOfHeaders(q)
    PROVE  ParserInv'
  <1> DEFINE body == [e EXCEPT !.parse_step = "BODY", !.body_base_offset = q]
             chunks == [e EXCEPT !.parse_step = "CHUNKED_SIZE", !.body_base_offset = q,
                                 !.chunked_body_end = q]
  <1>0. q \in Nat /\ q <= fill_ptr
    BY InCase
  <1>1. Done(q, e, FALSE) \/ GoOn(q, body) \/ GoOn(q, chunks)
    BY DEF EndOfHeaders
  <1>2. CASE Done(q, e, FALSE)
    BY <1>2, InCase, DoneKeeps
  <1>3. CASE GoOn(q, body)
    <2>1. /\ body \in EnvType /\ body.words = e.words /\ body.parse_step = "BODY"
          /\ body.body_base_offset = q /\ body.chunked_body = e.chunked_body
      BY <1>0, InCase DEF EnvType, Steps
    <2> HIDE DEF body
    <2>2. Len(body.words) <= 3 /\ Fits(body, q)
      BY <1>0, <2>1, InCase DEF Fits
    <2> QED BY <1>3, <2>1, <2>2, GoOnKeeps
  <1>4. CASE GoOn(q, chunks)
    <2>1. /\ chunks \in EnvType /\ chunks.words = e.words
          /\ chunks.parse_step = "CHUNKED_SIZE"
          /\ chunks.body_base_offset = q /\ chunks.chunked_body = e.chunked_body
      BY <1>0, InCase DEF EnvType, Steps
    <2> HIDE DEF chunks
    <2>2. Len(chunks.words) <= 3 /\ Fits(chunks, q)
      BY <1>0, <2>1, InCase DEF Fits
    <2> QED BY <1>4, <2>1, <2>2, GoOnKeeps
  <1> QED BY <1>1, <1>2, <1>3, <1>4

\* HEADER_NAME0: a CR that is the last byte is looked at again.
LEMMA HeaderName0Keeps == ASSUME ParserInv, Parsing, HeaderName0 PROVE ParserInv'
  <1> DEFINE q == Past(p, {SP})
             f == [e EXCEPT !.parse_step = "HEADER_NAME", !.header.name.offset = q]
  <1>1. q \in p .. fill_ptr /\ q \in 0 .. fill_ptr /\ q \in Nat
        /\ (q # fill_ptr => At(q) # SP)
    <2>1. q \in p .. fill_ptr /\ (q # fill_ptr => At(q) \notin {SP})
      BY InCase, Found
    <2> QED BY <2>1, InCase
  <1>2. /\ e.parse_step = "HEADER_NAME0"
        /\ \/ NeedMore(q, e)
           \/ q < fill_ptr /\ q + 1 = fill_ptr /\ NeedMore(process_ptr, e)
           \/ q < fill_ptr /\ q + 1 # fill_ptr /\ (EndOfHeaders(q + 1) \/ EndOfHeaders(q + 2))
           \/ q < fill_ptr /\ EndOfHeaders(q + 1)
           \/ q < fill_ptr /\ At(q) \notin {CR, LF} /\ GoOn(q + 1, f)
    BY DEF HeaderName0
  <1> HIDE DEF q
  <1>3. CASE NeedMore(q, e)
    <2>1. Fits(e, q)
      BY <1>2, InCase DEF Fits
    <2> QED BY <1>1, <1>3, <2>1, InCase, NeedMoreKeeps
  <1>4. CASE NeedMore(process_ptr, e)
    <2>1. Fits(e, process_ptr)
      BY <1>2, InCase DEF Fits
    <2> QED BY <1>4, <2>1, InCase, NeedMoreKeeps
  <1>5. CASE q < fill_ptr /\ q + 1 # fill_ptr /\ EndOfHeaders(q + 2)
    <2>1. q + 2 \in 0 .. fill_ptr
      BY <1>1, <1>5, InCase
    <2> QED BY <1>5, <2>1, EndOfHeadersKeeps
  <1>6. CASE q < fill_ptr /\ EndOfHeaders(q + 1)
    <2>1. q + 1 \in 0 .. fill_ptr
      BY <1>1, <1>6, InCase
    <2> QED BY <1>6, <2>1, EndOfHeadersKeeps
  <1>7. CASE q < fill_ptr /\ At(q) \notin {CR, LF} /\ GoOn(q + 1, f)
    <2>1. /\ f \in EnvType /\ f.words = e.words /\ f.parse_step = "HEADER_NAME"
          /\ f.header.name.offset = q
          /\ f.body_base_offset = e.body_base_offset /\ f.chunked_body = e.chunked_body
      BY <1>1, InCase DEF EnvType, Steps, HeaderType, WordType
    <2> HIDE DEF f
    <2>2. At(q) \notin {SP, CR} /\ q < q + 1
      BY <1>1, <1>7, InCase
    <2>3. Len(f.words) <= 3 /\ Fits(f, q + 1)
      BY <2>1, <2>2, InCase DEF Fits
    <2>4. q + 1 \in 0 .. fill_ptr
      BY <1>1, <1>7, InCase
    <2> QED BY <1>7, <2>1, <2>3, <2>4, GoOnKeeps
  <1> QED BY <1>2, <1>3, <1>4, <1>5, <1>6, <1>7

\* The name of the header being read stays behind whatever is looked at later.
LEMMA NameIsBehind ==
    ASSUME ParserInv, Parsing, NEW q \in Nat, p <= q,
           e.parse_step \in {"HEADER_NAME", "HEADER_VALUE0", "HEADER_VALUE"}
    PROVE  /\ e.header.name.offset \in Nat /\ e.header.name.offset < q
           /\ At(e.header.name.offset) \notin {SP, CR}
  <1>1. /\ e.header.name.offset < p /\ p \in Nat
        /\ At(e.header.name.offset) \notin {SP, CR}
    BY InCase DEF Fits
  <1>2. e.header.name.offset \in Nat
    BY InCase DEF EnvType, HeaderType, WordType
  <1> QED BY <1>1, <1>2

\* HEADER_NAME.
LEMMA HeaderNameKeeps == ASSUME ParserInv, Parsing, HeaderName PROVE ParserInv'
  <1> DEFINE q == Seek(p, {SP, ":", LF})
             r == Seek(q, {":", LF})
             named == [e EXCEPT !.header.name.len = q - e.header.name.offset]
             f == [named EXCEPT !.parse_step = "HEADER_VALUE0"]
  <1>1. q \in p .. fill_ptr /\ q \in 0 .. fill_ptr /\ q \in Nat
    BY InCase, Found
  <1>2. /\ e.parse_step = "HEADER_NAME"
        /\ \/ NeedMore(q, e)
           \/ Refuse
           \/ NeedMore(r, named)
           \/ r < fill_ptr /\ GoOn(r + 1, f)
    BY DEF HeaderName
  <1> HIDE DEF q
  <1>3. r \in q .. fill_ptr /\ r \in 0 .. fill_ptr /\ r \in Nat /\ p <= r
    <2>1. r \in q .. fill_ptr
      BY <1>1, InCase, Found
    <2> QED BY <1>1, <2>1, InCase
  <1> HIDE DEF r
  <1>4. /\ named \in EnvType /\ named.words = e.words /\ named.parse_step = "HEADER_NAME"
        /\ named.header.name.offset = e.header.name.offset
        /\ named.body_base_offset = e.body_base_offset
        /\ named.chunked_body = e.chunked_body
    <2>1. q - e.header.name.offset \in Int
      BY <1>1, InCase DEF EnvType, HeaderType, WordType
    <2> DEFINE l == q - e.header.name.offset
    <2> HIDE DEF l
    <2>2. named = [e EXCEPT !.header.name.len = l] /\ l \in Int
      BY <2>1 DEF l
    <2> HIDE DEF named
    <2> QED BY <1>2, <2>2, InCase DEF EnvType, Steps, HeaderType, WordType
  <1> HIDE DEF named
  <1>5. CASE NeedMore(q, e)
    <2>1. Fits(e, q)
      BY <1>1, <1>2, InCase DEF Fits, EnvType, HeaderType, WordType
    <2> QED BY <1>1, <1>5, <2>1, InCase, NeedMoreKeeps
  <1>6. CASE Refuse
    BY <1>6, StopKeeps DEF Refuse
  <1>7. CASE NeedMore(r, named)
    <2>1. Len(named.words) <= 3 /\ Fits(named, r)
      BY <1>2, <1>3, <1>4, InCase, NameIsBehind DEF Fits
    <2> QED BY <1>3, <1>4, <1>7, <2>1, NeedMoreKeeps
  <1>8. CASE r < fill_ptr /\ GoOn(r + 1, f)
    <2>1. /\ f \in EnvType /\ f.words = e.words /\ f.parse_step = "HEADER_VALUE0"
          /\ f.header.name.offset = e.header.name.offset
          /\ f.body_base_offset = e.body_base_offset /\ f.chunked_body = e.chunked_body
      BY <1>4 DEF EnvType, Steps
    <2> HIDE DEF f
    <2>2. r + 1 \in Nat /\ p <= r + 1
      BY <1>3, InCase
    <2>3. Len(f.words) <= 3 /\ Fits(f, r + 1)
      BY <1>2, <2>1, <2>2, InCase, NameIsBehind DEF Fits
    <2>4. r + 1 \in 0 .. fill_ptr
      BY <1>3, <1>8, InCase
    <2> QED BY <1>8, <2>1, <2>3, <2>4, GoOnKeeps
  <1> QED BY <1>2, <1>5, <1>6, <1>7, <1>8

\* HEADER_VALUE0.
LEMMA HeaderValue0Keeps == ASSUME ParserInv, Parsing, HeaderValue0 PROVE ParserInv'
  <1> DEFINE q == Past(p, {SP})
             f == [e EXCEPT !.parse_step = "HEADER_VALUE", !.header.value.offset = q]
  <1>1. q \in p .. fill_ptr /\ q \in 0 .. fill_ptr /\ q \in Nat
    BY InCase, Found
  <1>2. /\ e.parse_step = "HEADER_VALUE0"
        /\ \/ NeedMore(q, e)
           \/ Refuse
           \/ q < fill_ptr /\ GoOn(q + 1, f)
    BY DEF HeaderValue0
  <1> HIDE DEF q
  <1>3. CASE NeedMore(q, e)
    <2>1. Fits(e, q)
      BY <1>1, <1>2, InCase DEF Fits, EnvType, HeaderType, WordType
    <2> QED BY <1>1, <1>3, <2>1, InCase, NeedMoreKeeps
  <1>4. CASE Refuse
    BY <1>4, StopKeeps DEF Refuse
  <1>5. CASE q < fill_ptr /\ GoOn(q + 1, f)
    <2>1. /\ f \in EnvType /\ f.words = e.words /\ f.parse_step = "HEADER_VALUE"
          /\ f.header.name.offset = e.header.name.offset
          /\ f.body_base_offset = e.body_base_offset /\ f.chunked_body = e.chunked_body
      BY <1>1, InCase DEF EnvType, Steps, HeaderType, WordType
    <2> HIDE DEF f
    <2>2. q + 1 \in Nat /\ p <= q + 1
      BY <1>1, InCase
    <2>3. Len(f.words) <= 3 /\ Fits(f, q + 1)
      BY <1>2, <2>1, <2>2, InCase, NameIsBehind DEF Fits
    <2>4. q + 1 \in 0 .. fill_ptr
      BY <1>1, <1>5, InCase
    <2> QED BY <1>5, <2>1, <2>3, <2>4, GoOnKeeps
  <1> QED BY <1>2, <1>3, <1>4, <1>5

\* A header that was read is added to the others, and what it says is noted.
LEMMA WithHeaderIsEnv ==
    ASSUME e \in EnvType, NEW h \in HeaderType
    PROVE  /\ WithHeader(h) \in EnvType /\ WithHeader(h).words = e.words
           /\ WithHeader(h).body_base_offset = e.body_base_offset
           /\ WithHeader(h).chunked_body = e.chunked_body
  <1> DEFINE n == Strtol(Text(h.value))
             f == [e EXCEPT !.headers = Append(@, h), !.header = NoHeader]
             length == [f EXCEPT !.content_length = n]
             coded == [f EXCEPT !.chunked = TRUE]
             trailer == [f EXCEPT !.TRAILER = h.value]
  <1>1. n \in Nat
    <2>1. h.value.offset + 1 \in Int /\ h.value.offset + h.value.len \in Int
      BY DEF HeaderType, WordType
    <2>2. Len(Text(h.value)) \in Nat
      BY <2>1, LengthOfText DEF Text
    <2> QED BY <2>2, StrtolIsNat
  <1> HIDE DEF n
  <1>2. Append(e.headers, h) \in Seq(HeaderType)
    BY AppendProperties DEF EnvType
  <1>3. NoHeader \in HeaderType /\ h.value \in WordType
    BY DEF NoHeader, NoWord, HeaderType, WordType
  <1>4. /\ f \in EnvType /\ f.words = e.words
        /\ f.body_base_offset = e.body_base_offset /\ f.chunked_body = e.chunked_body
    BY <1>2, <1>3 DEF EnvType
  <1> HIDE DEF f
  <1>5. /\ length \in EnvType /\ length.words = e.words
        /\ length.body_base_offset = e.body_base_offset /\ length.chunked_body = e.chunked_body
    BY <1>1, <1>4 DEF EnvType
  <1>6. /\ coded \in EnvType /\ coded.words = e.words
        /\ coded.body_base_offset = e.body_base_offset /\ coded.chunked_body = e.chunked_body
    BY <1>4 DEF EnvType
  <1>7. /\ trailer \in EnvType /\ trailer.words = e.words
        /\ trailer.body_base_offset = e.body_base_offset
        /\ trailer.chunked_body = e.chunked_body
    BY <1>3, <1>4 DEF EnvType
  <1>8. WithHeader(h) \in {f, length, coded, trailer}
    <2>1. CASE Text(h.name) = ContentLength
      BY <2>1 DEF WithHeader, f, n
    <2>2. CASE Text(h.name) # ContentLength
               /\ Text(h.name) = TransferEncoding /\ Text(h.value) = Chunked
      BY <2>2 DEF WithHeader, f
    <2>3. CASE /\ Text(h.name) # ContentLength
               /\ ~ (Text(h.name) = TransferEncoding /\ Text(h.value) = Chunked)
               /\ Text(h.name) = TrailerName
      BY <2>3 DEF WithHeader, f
    <2>4. CASE /\ Text(h.name) # ContentLength
               /\ ~ (Text(h.name) = TransferEncoding /\ Text(h.value) = Chunked)
               /\ Text(h.name) # TrailerName
      BY <2>4 DEF WithHeader, f
    <2> QED BY <2>1, <2>2, <2>3, <2>4
  <1> HIDE DEF length, coded, trailer
  <1> QED BY <1>4, <1>5, <1>6, <1>7, <1>8

\* HEADER_VALUE: the search back stops at the name, if at nothing else.
LEMMA HeaderValueKeeps == ASSUME ParserInv, Parsing, HeaderValue PROVE ParserInv'
  <1> DEFINE q == Seek(p, {LF})
             back == Back(q, {SP, CR})
             h == [e.header EXCEPT !.value.len = (back + 1) - e.header.value.offset]
             f == WithHeader(h)
             g == [f EXCEPT !.parse_step = "HEADER_NAME0"]
  <1>1. q \in p .. fill_ptr /\ q \in 0 .. fill_ptr /\ q \in Nat /\ p <= q
    BY InCase, Found
  <1>2. /\ e.parse_step = "HEADER_VALUE"
        /\ \/ NeedMore(q, e)
           \/ q < fill_ptr /\ Done(q + 1, f, TRUE)
           \/ q < fill_ptr /\ GoOn(q + 1, g)
    BY DEF HeaderValue
  <1> HIDE DEF q
  <1>3. /\ e.header.name.offset \in 0 .. q - 1
        /\ At(e.header.name.offset) \notin {SP, CR}
    BY <1>1, <1>2, NameIsBehind
  <1>4. back \in 0 .. q - 1
    BY <1>1, <1>3, FoundBack
  <1> HIDE DEF back
  <1>5. h \in HeaderType
    <2>1. e.header \in HeaderType
      BY InCase DEF EnvType
    <2> DEFINE l == (back + 1) - e.header.value.offset
    <2>2. l \in Int
      BY <1>1, <1>4, <2>1 DEF HeaderType, WordType
    <2> HIDE DEF l
    <2>3. h = [e.header EXCEPT !.value.len = l]
      BY DEF l
    <2> QED BY <2>1, <2>2, <2>3 DEF HeaderType, WordType
  <1> HIDE DEF h
  <1>6. /\ f \in EnvType /\ f.words = e.words
        /\ f.body_base_offset = e.body_base_offset /\ f.chunked_body = e.chunked_body
    BY <1>5, InCase, WithHeaderIsEnv
  <1> HIDE DEF f
  <1>7. CASE NeedMore(q, e)
    <2>1. Fits(e, q)
      BY <1>1, <1>2, InCase, NameIsBehind DEF Fits
    <2> QED BY <1>1, <1>7, <2>1, InCase, NeedMoreKeeps
  <1>8. q < fill_ptr => q + 1 \in 0 .. fill_ptr
    BY <1>1, InCase
  <1>9. CASE q < fill_ptr /\ Done(q + 1, f, TRUE)
    <2>1. Len(f.words) <= 3
      BY <1>6, InCase
    <2> QED BY <1>6, <1>8, <1>9, <2>1, DoneKeeps
  <1>10. CASE q < fill_ptr /\ GoOn(q + 1, g)
    <2>1. /\ g \in EnvType /\ g.words = e.words /\ g.parse_step = "HEADER_NAME0"
          /\ g.body_base_offset = e.body_base_offset /\ g.chunked_body = e.chunked_body
      BY <1>6 DEF EnvType, Steps
    <2> HIDE DEF g
    <2>2. Len(g.words) <= 3 /\ Fits(g, q + 1)
      BY <2>1, InCase DEF Fits
    <2> QED BY <1>8, <1>10, <2>1, <2>2, GoOnKeeps
  <1> QED BY <1>2, <1>7, <1>9, <1>10

\* BODY.
LEMMA BodyKeeps == ASSUME ParserInv, Parsing, Body PROVE ParserInv'
  <1> DEFINE q == e.body_base_offset + e.content_length
  <1>1. e.body_base_offset \in Nat /\ e.content_length \in Nat
    BY InCase DEF EnvType
  <1>2. CASE fill_ptr - e.body_base_offset >= e.content_length /\ Done(q, e, TRUE)
    <2>1. q \in 0 .. fill_ptr
      BY <1>1, <1>2, InCase
    <2> HIDE DEF q
    <2> QED BY <1>2, <2>1, InCase, DoneKeeps
  <1>3. CASE NeedMore(fill_ptr, e) /\ e.parse_step = "BODY"
    <2>1. Fits(e, fill_ptr) /\ fill_ptr \in 0 .. fill_ptr
      BY <1>3, InCase DEF Fits
    <2> QED BY <1>3, <2>1, InCase, NeedMoreKeeps
  <1> QED BY <1>2, <1>3 DEF Body

\* CHUNKED_SIZE.
LEMMA ChunkedSizeKeeps == ASSUME ParserInv, Parsing, ChunkedSize PROVE ParserInv'
  <1> DEFINE q == Seek(p, {LF})
             n == Number(e.chunked_length, SubSeq(memory, p + 1, q))
             f == [e EXCEPT !.chunked_length = n]
             chunk == [f EXCEPT !.parse_step = "CHUNKED_DATA", !.chunked_body = q + 1]
             trailer == [f EXCEPT !.parse_step = "HEADER_NAME0"]
  <1>1. q \in p .. fill_ptr /\ q \in 0 .. fill_ptr /\ q \in Nat
    BY InCase, Found
  <1>2. f = [e EXCEPT !.chunked_length = Number(@, SubSeq(memory, p + 1, q))]
    OBVIOUS
  <1>3. /\ e.parse_step = "CHUNKED_SIZE"
        /\ \/ NeedMore(q, f)
           \/ q < fill_ptr /\ GoOn(q + 1, chunk)
           \/ q < fill_ptr /\ GoOn(q + 1, trailer)
           \/ q < fill_ptr /\ Done(q + 1, f, TRUE)
    BY <1>2, Zenon DEF ChunkedSize
  <1> HIDE DEF q
  <1>4. n \in Nat
    <2>1. Len(SubSeq(memory, p + 1, q)) \in Nat
      BY <1>1, InCase, LengthOfText
    <2> QED BY <2>1, InCase, NumberIsNat DEF EnvType
  <1> HIDE DEF n
  <1>5. /\ f \in EnvType /\ f.words = e.words /\ f.parse_step = "CHUNKED_SIZE"
        /\ f.body_base_offset = e.body_base_offset /\ f.chunked_body = e.chunked_body
    BY <1>3, <1>4, InCase DEF EnvType
  <1> HIDE DEF f
  <1>6. CASE NeedMore(q, f)
    <2>1. Len(f.words) <= 3 /\ Fits(f, q)
      BY <1>5, InCase DEF Fits
    <2> QED BY <1>1, <1>5, <1>6, <2>1, NeedMoreKeeps
  <1>7. q < fill_ptr => q + 1 \in 0 .. fill_ptr /\ q + 1 \in Nat /\ q + 1 <= fill_ptr
    BY <1>1, InCase
  <1>8. CASE q < fill_ptr /\ GoOn(q + 1, chunk)
    <2>1. /\ chunk \in EnvType /\ chunk.words = e.words /\ chunk.parse_step = "CHUNKED_DATA"
          /\ chunk.body_base_offset = e.body_base_offset /\ chunk.chunked_body = q + 1
      BY <1>5, <1>7, <1>8 DEF EnvType, Steps
    <2> HIDE DEF chunk
    <2>2. Len(chunk.words) <= 3 /\ Fits(chunk, q + 1)
      BY <1>7, <1>8, <2>1, InCase DEF Fits
    <2> QED BY <1>7, <1>8, <2>1, <2>2, GoOnKeeps
  <1>9. CASE q < fill_ptr /\ GoOn(q + 1, trailer)
    <2>1. /\ trailer \in EnvType /\ trailer.words = e.words
          /\ trailer.parse_step = "HEADER_NAME0"
          /\ trailer.body_base_offset = e.body_base_offset
          /\ trailer.chunked_body = e.chunked_body
      BY <1>5 DEF EnvType, Steps
    <2> HIDE DEF trailer
    <2>2. Len(trailer.words) <= 3 /\ Fits(trailer, q + 1)
      BY <2>1, InCase DEF Fits
    <2> QED BY <1>7, <1>9, <2>1, <2>2, GoOnKeeps
  <1>10. CASE q < fill_ptr /\ Done(q + 1, f, TRUE)
    <2>1. Len(f.words) <= 3
      BY <1>5, InCase
    <2> QED BY <1>5, <1>7, <1>10, <2>1, DoneKeeps
  <1> QED BY <1>3, <1>6, <1>8, <1>9, <1>10

\* A chunk that was received with two bytes behind it is moved inside the buffer.
LEMMA MoveChunkKeeps ==
    ASSUME ParserInv, Parsing, MoveChunk, fill_ptr - e.chunked_body >= e.chunked_length + 2
    PROVE  ParserInv'
  <1> DEFINE q == e.chunked_body + e.chunked_length
             begin == e.chunked_body
             end == e.chunked_body_end
             n == e.chunked_length
             f == [e EXCEPT !.parse_step = "CHUNKED_SIZE", !.chunked_length = 0,
                            !.chunked_body_end = end + n,
                            !.content_length = e.content_length + n]
             moved == [i \in 1 .. buf_size |->
                        IF i - end \in 1 .. n THEN memory[i + (begin - end)] ELSE memory[i]]
  <1>1. begin \in Nat /\ end \in Nat /\ n \in Nat /\ e.content_length \in Nat
    BY InCase DEF EnvType
  <1>2. q \in Nat /\ q + 2 <= fill_ptr
    BY <1>1, InCase
  <1>3. memory' = moved /\ e' = f /\ p' \in {q, q + 1, q + 2}
        /\ UNCHANGED <<process_ptr, fill_ptr, at, role, sent, taken, budget, wire>>
    BY DEF MoveChunk, Parsing, peerVars
  <1>4. /\ e' \in EnvType /\ e'.words = e.words /\ e'.parse_step = "CHUNKED_SIZE"
        /\ e'.body_base_offset = e.body_base_offset /\ e'.chunked_body = e.chunked_body
    <2>1. end + n \in Nat /\ e.content_length + n \in Nat
      BY ONLY <1>1
    <2> DEFINE u == end + n
               v == e.content_length + n
    <2> HIDE DEF u, v
    <2>2. f = [e EXCEPT !.parse_step = "CHUNKED_SIZE", !.chunked_length = 0,
                        !.chunked_body_end = u, !.content_length = v]
      BY DEF u, v
    <2>3. u \in Nat /\ v \in Nat
      BY <2>1 DEF u, v
    <2> HIDE DEF f
    <2> QED BY <1>3, <2>2, <2>3, InCase DEF EnvType, Steps
  <1>5. memory' \in Seq(Byte) /\ Len(memory') = buf_size
    <2>1. memory \in Seq(Byte) /\ buf_size \in Nat /\ fill_ptr \in Nat /\ fill_ptr < buf_size
      BY InCase, LenProperties DEF ParserInv, HttpParserTypeOK, buf_size
    <2>2. \A i \in 1 .. buf_size : memory[i] \in Byte
      BY <2>1, ElementOfSeq DEF buf_size
    <2>3. ASSUME NEW i \in 1 .. buf_size, i - end \in 1 .. n
          PROVE  i + (begin - end) \in 1 .. buf_size
      <3> DEFINE size == buf_size
      <3>1. size \in Nat /\ fill_ptr < size /\ fill_ptr \in Nat /\ i \in Int
        BY <2>1
      <3> HIDE DEF size, begin, end, n
      <3>2. begin + n + 2 <= fill_ptr
        BY <1>2 DEF begin, n
      <3>3. i + (begin - end) \in 1 .. size
        BY ONLY <1>1, <2>3, <3>1, <3>2
      <3> QED BY <3>3 DEF size
    <2>4. \A i \in 1 .. buf_size : moved[i] \in Byte
      BY <2>2, <2>3
    <2>5. moved \in [1 .. buf_size -> Byte]
      BY <2>4
    <2> HIDE DEF moved
    <2>6. moved \in Seq(Byte) /\ Len(moved) = buf_size
      BY <2>1, <2>5, SeqDef, LenProperties
    <2> QED BY <1>3, <2>6
  <1>6. p' \in 0 .. fill_ptr
    BY <1>2, <1>3, InCase
  <1> HIDE DEF q, begin, end, n, f, moved
  <1>7. buf_size' = buf_size
    BY <1>5 DEF buf_size
  <1>8. HttpParserTypeOK'
    BY <1>3, <1>4, <1>5, <1>6, <1>7 DEF ParserInv, HttpParserTypeOK, EnvType, Parsing
  <1>9. Fits(e, p)'
    BY <1>3, <1>4, InCase DEF Fits
  <1> QED BY <1>3, <1>4, <1>8, <1>9 DEF ParserInv, Parsing

\* CHUNKED_DATA.
LEMMA ChunkedDataKeeps == ASSUME ParserInv, Parsing, ChunkedData PROVE ParserInv'
  <1>1. CASE at' = "undefined" /\ p' = 0 /\ UNCHANGED <<bufferVars, e>>
    BY <1>1, StopKeeps
  <1>2. CASE fill_ptr - e.chunked_body >= e.chunked_length + 2 /\ MoveChunk
    BY <1>2, MoveChunkKeeps
  <1>3. CASE e.parse_step = "CHUNKED_DATA" /\ NeedMore(fill_ptr, e)
    <2>1. Fits(e, fill_ptr) /\ fill_ptr \in 0 .. fill_ptr
      BY <1>3, InCase DEF Fits
    <2> QED BY <1>3, <2>1, InCase, NeedMoreKeeps
  <1> QED BY <1>1, <1>2, <1>3 DEF ChunkedData

\* A case of ParseHttpBuffer leaves everything inside the buffer.
LEMMA ParseKeeps == ASSUME ParserInv, ParseHttpBuffer PROVE ParserInv'
  <1>1. Parsing
    BY DEF ParseHttpBuffer, Parsing
  <1>2. \/ Word0 \/ Word \/ HeaderName0 \/ HeaderName \/ HeaderValue0 \/ HeaderValue
        \/ Body \/ ChunkedSize \/ ChunkedData
    BY DEF ParseHttpBuffer
  <1> QED BY <1>1, <1>2, Word0Keeps, WordKeeps, HeaderName0Keeps, HeaderNameKeeps,
             HeaderValue0Keeps, HeaderValueKeeps, BodyKeeps, ChunkedSizeKeeps, ChunkedDataKeeps

-----------------------------------------------------------------------------
(* Receiving, and the end of a message.                                    *)

\* The parts of the buffer as they are known everywhere.
LEMMA InBuffer ==
    ASSUME ParserInv
    PROVE  /\ memory \in Seq(Byte) /\ buf_size \in Nat /\ buf_size = Len(memory)
           /\ DOMAIN memory = 1 .. buf_size /\ (\A i \in 1 .. buf_size : memory[i] \in Byte)
           /\ fill_ptr \in Nat /\ process_ptr \in Nat
           /\ process_ptr <= fill_ptr /\ fill_ptr < buf_size
  <1>1. memory \in Seq(Byte)
    BY DEF ParserInv, HttpParserTypeOK
  <1>2. Len(memory) \in Nat /\ DOMAIN memory = 1 .. Len(memory)
    BY <1>1, LenProperties
  <1>3. \A i \in 1 .. Len(memory) : memory[i] \in Byte
    BY <1>1, ElementOfSeq
  <1> QED BY <1>1, <1>2, <1>3 DEF ParserInv, HttpParserTypeOK, buf_size

\* Bytes from any place to any place of the buffer are bytes.
LEMMA PartOfBuffer ==
    ASSUME ParserInv, NEW m \in 1 .. buf_size + 1, NEW n \in 0 .. buf_size
    PROVE  /\ SubSeq(memory, m, n) \in Seq(Byte)
           /\ Len(SubSeq(memory, m, n)) = IF m <= n THEN (n - m) + 1 ELSE 0
           /\ \A i \in 1 .. (n - m) + 1 : SubSeq(memory, m, n)[i] = memory[(m + i) - 1]
  <1>1. m \in Nat /\ n \in Nat /\ m >= 1 /\ n <= buf_size
    BY InBuffer
  <1>2. \A i \in m .. n : memory[i] \in Byte
    BY <1>1, InBuffer
  <1>3. /\ SubSeq(memory, m, n) \in Seq(Byte)
        /\ Len(SubSeq(memory, m, n)) = IF m <= n THEN n - m + 1 ELSE 0
        /\ \A i \in 1 .. n - m + 1 : SubSeq(memory, m, n)[i] = memory[m + i - 1]
    BY <1>1, <1>2, SubSeqProperties
  <1> QED BY <1>1, <1>3

\* Cleared memory.
LEMMA ZerosAreBytes ==
    ASSUME NEW n \in Nat
    PROVE  Zeros(n) \in Seq(Byte) /\ Len(Zeros(n)) = n
  <1>1. NUL \in Byte
    BY Separators
  <1>2. Zeros(n) \in [1 .. n -> Byte]
    BY <1>1 DEF Zeros
  <1> QED BY <1>2, SeqDef, LenProperties

\* A peer sends a message.
LEMMA SendKeeps ==
    ASSUME ParserInv, NEW m \in Message, Send(m)
    PROVE  ParserInv'
  <1>1. /\ sent' = Append(sent, m) /\ at = "epoll" /\ at' = at /\ p' = p /\ e' = e
        /\ wire' = wire \o SubSeq(Render(m), 1, Len(Render(m)) - m.held)
        /\ budget > 0 /\ budget' = budget - 1
        /\ UNCHANGED <<role, taken, memory, process_ptr, fill_ptr>>
    BY DEF Send, bufferVars
  <1>2. /\ wire \in Seq(Byte) /\ sent \in Seq(Message) /\ taken \in Nat
        /\ budget \in 0 .. MaxMessages /\ MaxMessages \in Nat
    BY HttpParserAssumption DEF ParserInv, HttpParserTypeOK
  <1>3. wire' \in Seq(Byte)
    BY <1>1, <1>2, MessageIsBytes, Joined
  <1>4. sent' \in Seq(Message) /\ taken' \in Nat
    BY <1>1, <1>2, AppendProperties
  <1>5. budget' \in 0 .. MaxMessages
    BY <1>1, <1>2
  <1>6. HttpParserTypeOK'
    BY <1>1, <1>3, <1>4, <1>5 DEF ParserInv, HttpParserTypeOK, buf_size
  <1>7. Fits(e, process_ptr)'
    BY <1>1 DEF ParserInv, Fits, At
  <1> QED BY <1>1, <1>6, <1>7 DEF ParserInv

\* Where receiving begins and ends, and what was never looked at is parsed: nothing moves.
LEMMA TurnKeeps ==
    ASSUME ParserInv, OnReceiving \/ ParseLeftOver \/ WouldBlock
    PROVE  ParserInv'
  <1>1. /\ at \in {"epoll", "receive"} /\ p = 0
        /\ \/ at' \in {"epoll", "receive"} /\ p' = p
           \/ at' = "parse" /\ p' = process_ptr
        /\ UNCHANGED <<role, sent, taken, budget, wire, memory, process_ptr, fill_ptr, e>>
    BY DEF OnReceiving, ParseLeftOver, WouldBlock, peerVars, bufferVars, ParserInv,
           HttpParserTypeOK
  <1>2. HttpParserTypeOK'
    BY <1>1 DEF ParserInv, HttpParserTypeOK, buf_size
  <1>3. Fits(e, process_ptr)'
    BY <1>1 DEF ParserInv, Fits, At
  <1>4. at' = "parse" => Fits(e, p)'
    BY <1>1, <1>3 DEF Fits, At
  <1> QED BY <1>1, <1>2, <1>3, <1>4 DEF ParserInv

\* The buffer grows.
LEMMA GrowKeeps == ASSUME ParserInv, Grow PROVE ParserInv'
  <1> DEFINE size == 2 * buf_size
             old == SubSeq(memory, 1, fill_ptr)
             new == Zeros(size - fill_ptr)
  <1>1. /\ memory' = old \o new /\ at = "receive"
        /\ UNCHANGED <<role, sent, taken, budget, wire, process_ptr, fill_ptr, p, at>>
    BY DEF Grow, Resized, peerVars
  <1>2. PICK d \in BOOLEAN : e' = [e EXCEPT !.dangling = d]
    BY DEF Grow, MayDangle, ParserInv, EnvType
  <1>3. /\ e' \in EnvType /\ e'.words = e.words /\ e'.parse_step = e.parse_step
        /\ e'.body_base_offset = e.body_base_offset /\ e'.chunked_body = e.chunked_body
        /\ e'.header = e.header
    BY <1>2 DEF ParserInv, EnvType
  <1>4. old \in Seq(Byte) /\ Len(old) = fill_ptr
        /\ \A i \in 1 .. fill_ptr : old[i] = memory[i]
    <2>1. /\ old \in Seq(Byte)
          /\ Len(old) = IF 1 <= fill_ptr THEN (fill_ptr - 1) + 1 ELSE 0
          /\ \A i \in 1 .. (fill_ptr - 1) + 1 : old[i] = memory[(1 + i) - 1]
      BY InBuffer, PartOfBuffer
    <2>2. fill_ptr \in Nat
      BY InBuffer
    <2> HIDE DEF old
    <2> QED BY <2>1, <2>2
  <1>5. size - fill_ptr \in Nat /\ size \in Nat /\ fill_ptr < size
    BY InBuffer
  <1>6. new \in Seq(Byte) /\ Len(new) = size - fill_ptr
    BY <1>5, ZerosAreBytes
  <1> HIDE DEF old, new
  <1>7. /\ memory' \in Seq(Byte) /\ Len(memory') = fill_ptr + (size - fill_ptr)
        /\ \A i \in 1 .. fill_ptr : memory'[i] = memory[i]
    BY <1>1, <1>4, <1>6, ConcatProperties
  <1>8. buf_size' = size
    BY <1>5, <1>7, InBuffer DEF buf_size
  <1>9. HttpParserTypeOK'
    <2>1. fill_ptr \in 0 .. size - 1
      BY <1>5, InBuffer
    <2> HIDE DEF size
    <2> QED BY <1>1, <1>3, <1>7, <1>8, <2>1 DEF ParserInv, HttpParserTypeOK, EnvType
  <1>10. Fits(e, process_ptr)'
    <2>1. Fits(e, process_ptr)
      BY <1>1 DEF ParserInv
    <2> DEFINE o == e.header.name.offset
    <2>2. o \in Nat /\ (o < process_ptr => memory'[o + 1] = memory[o + 1])
      <3>1. o \in Nat
        BY DEF ParserInv, EnvType, HeaderType, WordType
      <3> HIDE DEF o
      <3>2. o < process_ptr => o + 1 \in 1 .. fill_ptr
        BY <3>1, InBuffer
      <3> QED BY <1>7, <3>1, <3>2
    <2> QED BY <1>1, <1>3, <2>1, <2>2 DEF Fits, At
  <1> QED BY <1>1, <1>3, <1>9, <1>10 DEF ParserInv

\* Bytes are received behind those that are there.
LEMMA RecvKeeps ==
    ASSUME ParserInv, NEW k \in DOMAIN wire, Recv(k)
    PROVE  ParserInv'
  <1> DEFINE more == [i \in 1 .. buf_size |->
                         IF i \in fill_ptr + 1 .. fill_ptr + k THEN wire[i - fill_ptr]
                         ELSE memory[i]]
  <1>1. /\ memory' = more /\ wire' = SubSeq(wire, k + 1, Len(wire))
        /\ fill_ptr' = fill_ptr + k /\ p' = process_ptr /\ at = "receive" /\ at' = "parse"
        /\ UNCHANGED <<role, sent, taken, budget, process_ptr, e>>
        /\ k <= buf_size - 1 - fill_ptr
    BY DEF Recv, peerVars
  <1>2. /\ wire \in Seq(Byte) /\ Len(wire) \in Nat /\ DOMAIN wire = 1 .. Len(wire)
        /\ \A i \in 1 .. Len(wire) : wire[i] \in Byte
    <2>1. wire \in Seq(Byte)
      BY DEF ParserInv, HttpParserTypeOK
    <2> QED BY <2>1, LenProperties, ElementOfSeq
  <1>3. k \in 1 .. Len(wire) /\ k \in Nat /\ fill_ptr + k <= buf_size - 1
    BY <1>1, <1>2, InBuffer
  <1>4. wire' \in Seq(Byte)
    <2>1. \A i \in k + 1 .. Len(wire) : wire[i] \in Byte
      BY <1>2, <1>3
    <2> QED BY <1>1, <1>2, <1>3, <2>1, SubSeqProperties
  <1>5. /\ memory' \in Seq(Byte) /\ Len(memory') = buf_size
        /\ \A i \in 1 .. fill_ptr : memory'[i] = memory[i]
    <2>1. ASSUME NEW i \in 1 .. buf_size, i \in fill_ptr + 1 .. fill_ptr + k
          PROVE  wire[i - fill_ptr] \in Byte
      <3>1. i - fill_ptr \in 1 .. Len(wire)
        BY <1>2, <1>3, <2>1, InBuffer
      <3> QED BY <1>2, <3>1
    <2>2. more \in [1 .. buf_size -> Byte]
      BY <2>1, InBuffer
    <2>3. \A i \in 1 .. fill_ptr : more[i] = memory[i]
      BY InBuffer
    <2> HIDE DEF more
    <2>4. more \in Seq(Byte) /\ Len(more) = buf_size
      BY <2>2, InBuffer, SeqDef, LenProperties
    <2> QED BY <1>1, <2>3, <2>4
  <1> HIDE DEF more
  <1>6. buf_size' = buf_size
    BY <1>5 DEF buf_size
  <1>7. /\ fill_ptr' \in 0 .. buf_size - 1 /\ process_ptr \in 0 .. fill_ptr'
    BY <1>1, <1>3, InBuffer
  <1>8. HttpParserTypeOK'
    BY <1>1, <1>4, <1>5, <1>6, <1>7 DEF ParserInv, HttpParserTypeOK
  <1>9. Fits(e, p)'
    <2>1. Fits(e, process_ptr)
      BY <1>1 DEF ParserInv
    <2> DEFINE o == e.header.name.offset
    <2>2. o \in Nat /\ (o < process_ptr => memory'[o + 1] = memory[o + 1])
      <3>1. o \in Nat
        BY DEF ParserInv, EnvType, HeaderType, WordType
      <3> HIDE DEF o
      <3>2. o < process_ptr => o + 1 \in 1 .. fill_ptr
        BY <3>1, InBuffer
      <3> QED BY <1>5, <3>1, <3>2
    <2>3. /\ e.body_base_offset <= fill_ptr' /\ e.chunked_body <= fill_ptr'
      <3>1. e.body_base_offset \in Nat /\ e.chunked_body \in Nat
        BY DEF ParserInv, EnvType
      <3> QED BY <1>1, <1>3, <2>1, <3>1, InBuffer DEF Fits
    <2> QED BY <1>1, <2>1, <2>2, <2>3 DEF Fits, At
  <1> QED BY <1>1, <1>8, <1>9 DEF ParserInv

\* The buffer is made ready for the next message.
LEMMA ResetKeeps ==
    ASSUME ParserInv, ResetHttpEnv, p = 0, p' = p, role' = role, budget' = budget,
           wire' \in Seq(Byte), sent' \in Seq(Message), taken' \in Nat
    PROVE  ParserInv'
  <1> DEFINE n == Len(Rest)
             behind == SubSeq(memory, n + 1, buf_size)
             all == Rest \o behind
             front == SubSeq(all, 1, n)
             zeros == Zeros(BufMax - n)
  <1>1. /\ memory' = Shrunk(all, n) /\ process_ptr' = 0 /\ fill_ptr' = n
        /\ e' = [FreshEnv EXCEPT !.reforming_flag = e.reforming_flag /\ process_ptr >= fill_ptr]
        /\ at' \in {"epoll", "undefined"}
    BY DEF ResetHttpEnv, AfterReset
  <1>2. Rest \in Seq(Byte) /\ n \in 0 .. fill_ptr
    <2>1. /\ process_ptr + 1 \in 1 .. buf_size + 1 /\ fill_ptr \in 0 .. buf_size
          /\ fill_ptr \in Nat
      BY InBuffer
    <2>2. CASE Rest = <<>>
      <3>1. <<>> \in Seq(Byte) /\ Len(<<>>) = 0
        BY Separators, EmptySeq
      <3> QED BY <2>1, <2>2, <3>1
    <2>3. CASE Rest = Behind /\ process_ptr < fill_ptr
      <3>1. /\ Behind \in Seq(Byte)
            /\ Len(Behind) = IF process_ptr + 1 <= fill_ptr
                             THEN (fill_ptr - (process_ptr + 1)) + 1 ELSE 0
        BY <2>1, PartOfBuffer DEF Behind
      <3>2. Len(Behind) \in 0 .. fill_ptr
        BY <3>1, InBuffer
      <3> QED BY <2>3, <3>1, <3>2
    <2> QED BY <2>2, <2>3 DEF Rest
  <1> HIDE DEF n
  <1>3. n \in Nat /\ n < buf_size /\ n <= buf_size /\ buf_size \in Nat
    BY <1>2, InBuffer
  <1>4. behind \in Seq(Byte) /\ Len(behind) = buf_size - n
    <2>1. n + 1 \in 1 .. buf_size + 1 /\ buf_size \in 0 .. buf_size
      BY <1>3
    <2>2. /\ behind \in Seq(Byte)
          /\ Len(behind) = IF n + 1 <= buf_size THEN (buf_size - (n + 1)) + 1 ELSE 0
      BY <2>1, PartOfBuffer
    <2> HIDE DEF behind
    <2> QED BY <1>3, <2>2
  <1> HIDE DEF behind
  <1>5. all \in Seq(Byte) /\ Len(all) = buf_size
    <2>1. Len(Rest) = n
      BY DEF n
    <2>2. all \in Seq(Byte) /\ Len(all) = Len(Rest) + Len(behind)
      BY <1>2, <1>4, ConcatProperties
    <2> HIDE DEF all
    <2> QED BY <1>3, <1>4, <2>1, <2>2
  <1> HIDE DEF all
  <1>6. memory' \in Seq(Byte) /\ Len(memory') \in Nat /\ n < Len(memory')
    <2>1. CASE Len(all) > BufMax /\ n < BufMax
      <3>1. BufMax - n \in Nat /\ BufMax \in Nat
        BY <1>3, <2>1, HttpParserAssumption
      <3>2. zeros \in Seq(Byte) /\ Len(zeros) = BufMax - n
        BY <3>1, ZerosAreBytes
      <3>3. front \in Seq(Byte) /\ Len(front) = n
        <4>1. \A i \in 1 .. n : all[i] \in Byte
          BY <1>3, <1>5, ElementOfSeq
        <4>2. front \in Seq(Byte) /\ Len(front) = IF 1 <= n THEN n - 1 + 1 ELSE 0
          BY <1>3, <4>1, SubSeqProperties
        <4> HIDE DEF front
        <4> QED BY <1>3, <4>2
      <3> HIDE DEF front, zeros
      <3>4. front \o zeros \in Seq(Byte) /\ Len(front \o zeros) = n + (BufMax - n)
        BY <3>2, <3>3, ConcatProperties
      <3>5. memory' = front \o zeros
        BY <1>1, <2>1 DEF Shrunk, front, zeros
      <3> QED BY <1>3, <2>1, <3>1, <3>4, <3>5
    <2>2. CASE ~ (Len(all) > BufMax /\ n < BufMax)
      <3>1. memory' = all
        BY <1>1, <2>2 DEF Shrunk
      <3> QED BY <1>3, <1>5, <3>1
    <2> QED BY <2>1, <2>2
  <1>7. fill_ptr' \in 0 .. Len(memory') - 1 /\ process_ptr' \in 0 .. fill_ptr'
        /\ p' \in 0 .. fill_ptr'
    BY <1>1, <1>3, <1>6
  <1>8. /\ e' \in EnvType /\ e'.words = <<>> /\ e'.parse_step = "WORD0"
        /\ e'.body_base_offset = 0 /\ e'.chunked_body = 0
    <2>1. FreshEnv \in EnvType
      BY EmptySeq DEF FreshEnv, EnvType, Steps, NoHeader, NoWord, HeaderType, WordType
    <2>2. e.reforming_flag \in BOOLEAN
      BY DEF ParserInv, EnvType
    <2> QED BY <1>1, <2>1, <2>2 DEF EnvType, FreshEnv
  <1>9. Len(e'.words) = 0 /\ e'.words \in Seq(WordType)
    BY <1>8, EmptySeq
  <1>10. HttpParserTypeOK'
    <2>1. buf_size' = Len(memory') /\ p' = 0
      BY DEF buf_size
    <2>2. /\ e'.words \in Seq(WordType) /\ Len(e'.words) <= 3
          /\ e'.content_length \in Nat /\ e'.chunked_length \in Nat
      BY <1>8, <1>9 DEF EnvType
    <2>3. /\ role' \in {"request", "response"} /\ budget' \in 0 .. MaxMessages
      BY DEF ParserInv, HttpParserTypeOK
    <2> HIDE DEF all
    <2> QED BY <1>1, <1>6, <1>7, <2>1, <2>2, <2>3 DEF HttpParserTypeOK
  <1>11. Fits(e, process_ptr)'
    BY <1>1, <1>3, <1>8, <1>9 DEF Fits
  <1> QED BY <1>1, <1>8, <1>10, <1>11 DEF ParserInv

\* The session waits for the next message of its peer.
LEMMA KeepAliveKeeps == ASSUME ParserInv, KeepAlive PROVE ParserInv'
  <1>1. /\ ResetHttpEnv /\ p = 0 /\ p' = p /\ role' = role /\ budget' = budget
        /\ wire' = wire /\ sent' = sent /\ taken' = taken + 1
    BY DEF KeepAlive, ParserInv, HttpParserTypeOK
  <1>2. wire' \in Seq(Byte) /\ sent' \in Seq(Message) /\ taken' \in Nat
    BY <1>1 DEF ParserInv, HttpParserTypeOK
  <1> QED BY <1>1, <1>2, ResetKeeps

\* The session is released, and serves the next peer.
LEMMA NextPeerKeeps == ASSUME ParserInv, NextPeer PROVE ParserInv'
  <1>1. /\ ResetHttpEnv /\ p = 0 /\ p' = p /\ role' = role /\ budget' = budget
        /\ wire' = <<>> /\ sent' = <<>> /\ taken' = 0
    BY DEF NextPeer, ParserInv, HttpParserTypeOK
  <1>2. wire' \in Seq(Byte) /\ sent' \in Seq(Message) /\ taken' \in Nat
    BY <1>1, EmptySeq
  <1> QED BY <1>1, <1>2, ResetKeeps

-----------------------------------------------------------------------------
(* The theorem.                                                            *)

\* The empty buffer of a session that is new.
LEMMA InitInv == ASSUME Init PROVE ParserInv
  <1>1. /\ role \in {"request", "response"} /\ wire = <<>> /\ sent = <<>> /\ taken = 0
        /\ budget = MaxMessages /\ memory = Zeros(BufSize) /\ process_ptr = 0
        /\ fill_ptr = 0 /\ e = FreshEnv /\ p = 0 /\ at = "epoll"
    BY DEF Init
  <1>2. BufSize \in Nat /\ BufSize > 1 /\ MaxMessages \in Nat
    BY HttpParserAssumption
  <1>3. memory \in Seq(Byte) /\ Len(memory) = BufSize
    BY <1>1, <1>2, ZerosAreBytes
  <1>4. e \in EnvType /\ e.words = <<>>
    BY <1>1, EmptySeq DEF FreshEnv, EnvType, Steps, NoHeader, NoWord, HeaderType, WordType
  <1>5. wire \in Seq(Byte) /\ sent \in Seq(Message) /\ Len(e.words) = 0
    BY <1>1, <1>4, EmptySeq
  <1>6. HttpParserTypeOK
    BY <1>1, <1>2, <1>3, <1>4, <1>5 DEF HttpParserTypeOK, EnvType, buf_size
  <1>7. Fits(e, process_ptr)
    BY <1>1, <1>5 DEF Fits, FreshEnv
  <1> QED BY <1>1, <1>4, <1>6, <1>7 DEF ParserInv

\* Every step keeps the invariant.
LEMMA NextInv == ASSUME ParserInv, [Next]_vars PROVE ParserInv'
  <1>1. CASE UNCHANGED vars
    <2>1. UNCHANGED <<role, sent, taken, budget, wire, memory, process_ptr, fill_ptr, e, p, at>>
      BY <1>1 DEF vars, peerVars, bufferVars
    <2>2. HttpParserTypeOK'
      BY <2>1 DEF ParserInv, HttpParserTypeOK, buf_size
    <2>3. Fits(e, process_ptr)' = Fits(e, process_ptr) /\ Fits(e, p)' = Fits(e, p)
      BY <2>1 DEF Fits, At
    <2> QED BY <2>1, <2>2, <2>3 DEF ParserInv
  <1>2. CASE \E m \in Message : Send(m)
    BY <1>2, SendKeeps
  <1>3. CASE Receiving
    <2>1. CASE OnReceiving
      BY <2>1, TurnKeeps
    <2>2. CASE ReceiveHttpBuffer
      BY <2>2, TurnKeeps, GrowKeeps, RecvKeeps DEF ReceiveHttpBuffer
    <2>3. CASE ParseHttpBuffer
      BY <2>3, ParseKeeps
    <2> QED BY <1>3, <2>1, <2>2, <2>3 DEF Receiving
  <1>4. CASE KeepAlive
    BY <1>4, KeepAliveKeeps
  <1>5. CASE NextPeer
    BY <1>5, NextPeerKeeps
  <1> QED BY <1>1, <1>2, <1>3, <1>4, <1>5 DEF Next

\* ParseHttpBuffer, ReceiveHttpBuffer and ResetHttpEnv stay inside the buffer, for every
\* message, every cut and every size: no offset is behind what was received, and what was
\* received leaves room for the 0 that ends a message (fasterhttp.c:764, :2774).  Numbers
\* that a message contains are natural numbers here, of any size.
THEOREM ParserStaysInBuffer == Spec => []HttpParserTypeOK
  <1>1. Init => ParserInv
    BY InitInv
  <1>2. ParserInv /\ [Next]_vars => ParserInv'
    BY NextInv
  <1>3. ParserInv => HttpParserTypeOK
    BY DEF ParserInv
  <1> QED BY <1>1, <1>2, <1>3, PTL DEF Spec
=============================================================================
