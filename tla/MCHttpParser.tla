---------------------------- MODULE MCHttpParser ----------------------------
(* The messages of the runs of HttpParser.                                 *)
EXTENDS HttpParser

F(n, v) == [name |-> n, value |-> v]
M(r, s, h, ck, cs, t) ==
    [role |-> r, eol |-> <<CR, LF>>, start |-> s, headers |-> h, chunked |-> ck, chunks |-> cs, trailer |-> t, held |-> 0]

Uri == <<"/", "a">>
V == <<"HTTP/1.", "1">>
Get == << <<"GE", "T">>, Uri, V >>
Post == << <<"POS", "T">>, Uri, V >>
Ok == << V, <<"20", "0">>, <<"O", "K">> >>
Host == F(<<"Ho", "st">>, <<"b", "b">>)
Empty == F(<<"Ho", "st">>, <<>>)
Length2 == F(ContentLength, <<"2">>)
ChunkedCoding == F(TransferEncoding, Chunked)

Plain == {
    M("request", Get, <<Empty, Host>>, FALSE, <<>>, <<>>),
    M("request", << <<"HEA", "D">>, Uri, V >>, <<>>, FALSE, <<>>, <<>>),
    M("request", Post, <<Length2>>, FALSE, << <<"x", "y">> >>, <<>>),
    M("response", Ok, <<Host, Length2>>, FALSE, << <<"x", "y">> >>, <<>>)}

ChunkedOnes == {
    M("request", Post, <<ChunkedCoding>>, TRUE, << <<"x", "y">>, <<"z">> >>, <<>>),
    M("response", Ok, <<ChunkedCoding>>, TRUE, << <<"x">>, <<"y", "z">> >>, <<>>),
    M("response", Ok, <<ChunkedCoding, F(TrailerName, <<"X", "-">>)>>, TRUE, << <<"y">> >>,
      <<F(<<"X", "-">>, <<"b">>)>>)}

\* A blank first line, no URI, a version that is not known, a header without a name, one
\* without a colon, one with a space before its colon, and no value.
Junk == {
    M("request", << <<LF>>, Uri, V >>, <<>>, FALSE, <<>>, <<>>),
    M("request", << <<"GE", "T">>, <<LF>>, V >>, <<>>, FALSE, <<>>, <<>>),
    M("request", << <<"GE", "T">>, Uri, <<"HTTP/1.", "2">> >>, <<>>, FALSE, <<>>, <<>>),
    M("request", Get, <<F(<<"a", LF>>, <<"b">>)>>, FALSE, <<>>, <<>>),
    M("request", Get, <<F(<<"a", SP>>, <<"b">>)>>, FALSE, <<>>, <<>>),
    M("request", Get, <<F(<<"a">>, <<LF>>)>>, FALSE, <<>>, <<>>)}

\* Lines that end with LF only, which HEADER_VALUE0 refuses where the value is empty.
BareLF(m) == [m EXCEPT !.eol = <<LF>>]

\* A peer that falls silent inside the content, in a header, in a chunk, or in the last line.
Held(m, n) == [m EXCEPT !.held = n]
HeldBack == {
    Held(M("request", Post, <<Length2>>, FALSE, << <<"x", "y">> >>, <<>>), 1),
    Held(M("request", Get, <<Host>>, FALSE, <<>>, <<>>), 5),
    Held(M("response", Ok, <<ChunkedCoding>>, TRUE, << <<"x">>, <<"y", "z">> >>, <<>>), 7)}
\* A forward server that sends more than it has announced, and then falls silent.
Long == {
    Held(M("response", Ok, <<Host, F(ContentLength, <<"3">>)>>, FALSE,
           << [i \in 1 .. 29 |-> "x"] >>, <<>>), 1)}
HeldCR == {Held(M("request", Get, <<>>, FALSE, <<>>, <<>>), 1)}

AllMessages == Plain \cup ChunkedOnes \cup Junk \cup HeldBack \cup HeldCR \cup Long
    \cup {BareLF(M("request", Get, <<Host>>, FALSE, <<>>, <<>>))}
    \cup {BareLF(m) : m \in {n \in Plain \cup ChunkedOnes : Empty \notin ToSet(n.headers)}}
CutMessages == {M("request", Get, <<Host>>, FALSE, <<>>, <<>>)}

\* The messages that the theorems of HttpMessage_proofs are about: requests with and without
\* content, one to HEAD and a response, with lines of either kind, and broken off ones.
ASSUME HonestMessages ==
    \A m \in Plain \cup {BareLF(n) : n \in {o \in Plain : Empty \notin ToSet(o.headers)}}
            \cup {n \in HeldBack : ~ n.chunked} : Honest(m)

Pieces == {"GE", "T", "POS", "HEA", "D", "HTTP/1.", "Content-", "Length", "Transfer-", "Encoding",
           "chun", "ked", "Trai", "ler", "/", "a", "b", "x", "y", "z", "X", "-", "Ho", "st",
           "20", "O", "K"}
=============================================================================
