--------------------------- MODULE HtmlCache_proofs -------------------------
(***************************************************************************)
(* For every number of sessions, files, names and blocks: the types of the *)
(* page cache, one owner for each block of memory, pages that arrive whole *)
(* and changes that are noticed.                                           *)
(***************************************************************************)
EXTENDS HtmlCache, FiniteSetTheorems, TLAPS

-----------------------------------------------------------------------------
(* The inductive invariant: memory.                                        *)

\* Who frees a block: an entry, a session's http_buf, or the request at hand.
OfEntry(n, x) == n \in Cached /\ x \in Contents(n)
OfSession(s, x) == x \in Owned(s)
OfWork(x) == work.step = "answer" /\ work.block = x

Apart ==
    \A x \in Block :
        /\ \A m, n \in Name : OfEntry(m, x) /\ OfEntry(n, x) => m = n
        /\ \A s, t \in Session : OfSession(s, x) /\ OfSession(t, x) => s = t
        /\ \A n \in Name, s \in Session : ~ (OfEntry(n, x) /\ OfSession(s, x))
        /\ \A n \in Name : ~ (OfEntry(n, x) /\ OfWork(x))
        /\ \A s \in Session : ~ (OfSession(s, x) /\ OfWork(x))

HasOwner(x) ==
    (\E n \in Name : OfEntry(n, x)) \/ (\E s \in Session : OfSession(s, x)) \/ OfWork(x)

\* A block has content as long as somebody is there to free it.
Filled == \A x \in Block : heap[x] \in Content <=> HasOwner(x)

\* The gzipped content of an entry is that of its content.
GzipOfContent ==
    \A n \in Cached : cache[n].html_gzip_content # Null =>
        heap[cache[n].html_gzip_content] = Gzipped(cache[n].html_content)

\* The request at hand: its page is not cached, and has been read into its block;
\* for HEAD nothing was appended.
AtWork ==
    /\ work.step \in {"read", "answer"} => Head(work.names) \notin Cached
    /\ work.step = "answer" => /\ work.block \in Block
                               /\ heap[work.block].name = Head(work.names)
    /\ work # NoWork /\ ~ work.get => ~ response[work.session].appended

\* A response points to what was promised, in a block of its own or an entry's.
PromisedTo(s) ==
    /\ response[s].status = "ok" /\ response[s].appended
    /\ FileOf[response[s].promised.name] \notin Big
    => /\ response[s].promised \in Content
       /\ http_buf[s].base \in Block
       /\ heap[http_buf[s].base] = response[s].promised
       /\ \/ OfSession(s, http_buf[s].base)
          \/ \E n \in Name : OfEntry(n, http_buf[s].base)
Promised == \A s \in Session : PromisedTo(s)

Memory ==
    HtmlCacheTypeOK /\ Apart /\ Filled /\ GzipOfContent /\ AtWork /\ Promised

-----------------------------------------------------------------------------
(* Values.                                                                 *)

\* The entries that a step leaves, all but the new ones, are what they were.
EntriesStay(new) ==
    \A n \in Cached' \ new :
        /\ n \in Cached
        /\ cache'[n].wd = cache[n].wd /\ cache'[n].fresh = cache[n].fresh
        /\ cache'[n].html_content = cache[n].html_content
        /\ heap'[cache[n].html_content] = heap[cache[n].html_content]

Requests ==
    [step : {"lookup", "read", "answer"}, session : Session, names : Seq(Name) \ {<<>>},
     get : BOOLEAN, gzip : BOOLEAN, size : Version, block : Block \cup {Null}]

\* The marks are none of the things they stand beside.
LEMMA Marks ==
    /\ NoContent \notin Content /\ Leaked \notin Content
    /\ NoEntry \notin Entry /\ NoWork \notin Requests
    /\ \A r \in Requests : r.step # "none"
    /\ Null \notin Block
  <1>1. NoContent \notin Content /\ Leaked \notin Content
    BY DEF NoContent, Leaked, Content
  <1>2. NoEntry \notin Entry
    BY HtmlCacheAssumption DEF NoEntry, Entry
  <1>3. \A r \in Requests : r.step # "none"
    BY DEF Requests
  <1>4. NoWork \notin Requests
    BY <1>3 DEF NoWork
  <1> QED BY <1>1, <1>2, <1>3, <1>4, HtmlCacheAssumption

\* What the types say of an entry, of a request and of the memory they hold.
LEMMA Holdings ==
    ASSUME HtmlCacheTypeOK
    PROVE  /\ \A n \in Name : n \in Cached <=> cache[n] # NoEntry
           /\ \A n \in Cached : /\ n \in Name /\ cache[n] \in Entry
                                /\ cache[n].html_content \in Block /\ cache[n].wd \in Wd
                                /\ cache[n].html_gzip_content \in Block \cup {Null}
           /\ \A n \in Name, x \in Block : OfEntry(n, x) <=>
                  /\ n \in Cached
                  /\ x = cache[n].html_content \/ x = cache[n].html_gzip_content
           /\ \A s \in Session, x \in Block : OfSession(s, x) <=>
                  ~ http_buf[s].ref_flag /\ http_buf[s].base = x
           /\ \A x : x \in Free <=> x \in Block /\ heap[x] = NoContent
           /\ work = NoWork \/ work \in Requests
  <1>1. \A n \in Cached : n \in Name /\ cache[n] \in Entry
    BY DEF Cached, HtmlCacheTypeOK
  <1>2. \A n \in Cached : /\ cache[n].html_content \in Block /\ cache[n].wd \in Wd
                          /\ cache[n].html_gzip_content \in Block \cup {Null}
    BY <1>1 DEF Entry
  <1>3. Null \notin Block
    BY HtmlCacheAssumption
  <1>4. \A n \in Name, x \in Block : OfEntry(n, x) <=>
            /\ n \in Cached
            /\ x = cache[n].html_content \/ x = cache[n].html_gzip_content
    BY <1>3 DEF OfEntry, Contents
  <1>5. \A s \in Session, x \in Block : OfSession(s, x) <=>
            ~ http_buf[s].ref_flag /\ http_buf[s].base = x
    BY <1>3 DEF OfSession, Owned
  <1>6. work = NoWork \/ work \in Requests
    BY DEF HtmlCacheTypeOK, Requests
  <1> QED BY <1>1, <1>2, <1>4, <1>5, <1>6 DEF Cached, Free

\* The same of the next state.
LEMMA HoldingsNext ==
    ASSUME HtmlCacheTypeOK'
    PROVE  /\ \A n \in Name, x \in Block : OfEntry(n, x)' <=>
                  /\ n \in Cached'
                  /\ x = cache'[n].html_content \/ x = cache'[n].html_gzip_content
           /\ \A n \in Name : n \in Cached' <=> cache'[n] # NoEntry
           /\ \A n \in Name : n \in Cached' => cache'[n] \in Entry
           /\ \A s \in Session, x \in Block : OfSession(s, x)' <=>
                  ~ http_buf'[s].ref_flag /\ http_buf'[s].base = x
           /\ \A x \in Block : OfWork(x)' <=> work'.step = "answer" /\ work'.block = x
  <1>1. \A n \in Name : /\ n \in Cached' <=> cache'[n] # NoEntry
                        /\ n \in Cached' => cache'[n] \in Entry
    BY DEF Cached, HtmlCacheTypeOK
  <1>2. Null \notin Block
    BY HtmlCacheAssumption
  <1> QED BY <1>1, <1>2 DEF OfEntry, Contents, OfSession, Owned, OfWork

\* A set of watches that is empty or has one element, as a sequence.
LEMMA SingleAsSequence ==
    /\ SetToSeq({}) = << >>
    /\ \A w : SetToSeq({w}) = <<w>>
  <1>1. SetToSeq({}) = << >>
    <2>1. Cardinality({}) = 0
      BY FS_EmptySet
    <2>2. \A f \in [1 .. 0 -> {}] : f = << >>
      OBVIOUS
    <2>3. << >> \in [1 .. 0 -> {}] /\ IsInjective(<< >>)
      BY DEF IsInjective
    <2> QED BY <2>1, <2>2, <2>3 DEF SetToSeq
  <1>2. ASSUME NEW w PROVE SetToSeq({w}) = <<w>>
    <2>1. Cardinality({w}) = 1
      BY FS_Singleton
    <2>2. \A f \in [1 .. 1 -> {w}] : f = <<w>>
      OBVIOUS
    <2>3. <<w>> \in [1 .. 1 -> {w}] /\ IsInjective(<<w>>)
      BY DEF IsInjective
    <2> QED BY <2>1, <2>2, <2>3 DEF SetToSeq
  <1> QED BY <1>1, <1>2

-----------------------------------------------------------------------------
(* Memory: the parts of the steps of a request.                            *)

\* A gzipped copy is made only into a free block, or is there already.
LEMMA GzipPlace ==
    ASSUME HtmlCacheTypeOK, Filled, GzipOfContent, NEW r \in Requests, r.block \in Block,
           heap[r.block] \in Content,
           Head(r.names) \in Cached => r.block = cache[Head(r.names)].html_content,
           NEW z \in Block \cup {Null}, Compressed(r, z)
    PROVE  /\ WithGzip(r, z) \in [Block -> Content \cup {NoContent, Leaked}]
           /\ Gzipped(r.block) \in Content
           /\ Gzipped(r.block).name = heap[r.block].name
           /\ \A x \in Block : WithGzip(r, z)[x] = IF x = z THEN Gzipped(r.block) ELSE heap[x]
           /\ \A x \in Block : heap[x] \in Content => WithGzip(r, z)[x] = heap[x]
           /\ z # Null => \/ heap[z] = NoContent
                          \/ /\ Head(r.names) \in Cached
                             /\ z = cache[Head(r.names)].html_gzip_content
           /\ Head(r.names) \notin Cached => z = Null \/ heap[z] = NoContent
           /\ Appended(r, z) \in Block
  <1> DEFINE n == Head(r.names)
  <1>1. Gzipped(r.block) \in Content /\ Gzipped(r.block).name = heap[r.block].name
    BY DEF Gzipped, Content
  <1>2. /\ WithGzip(r, z) \in [Block -> Content \cup {NoContent, Leaked}]
        /\ \A x \in Block : WithGzip(r, z)[x] = IF x = z THEN Gzipped(r.block) ELSE heap[x]
    BY <1>1, Marks DEF WithGzip, HtmlCacheTypeOK
  <1>3. z # Null => \/ heap[z] = NoContent
                    \/ n \in Cached /\ z = cache[n].html_gzip_content
    BY DEF Compressed, Present, Free
  <1>4. n \notin Cached => z = Null \/ heap[z] = NoContent
    BY <1>3
  <1>5. ASSUME NEW x \in Block, heap[x] \in Content PROVE WithGzip(r, z)[x] = heap[x]
    BY <1>2, <1>3, <1>5, Marks DEF GzipOfContent
  <1> QED BY <1>1, <1>2, <1>3, <1>4, <1>5 DEF Appended

\* What the answer of one request leaves of the sessions.
LEMMA AnsweredEffect ==
    ASSUME HtmlCacheTypeOK, Apart, Filled, NEW r \in Requests, r.block \in Block,
           NEW z \in Block \cup {Null}, NEW status \in {"receiving", "ok", "error"},
           Appended(r, z) \in Block, WithGzip(r, z)[Appended(r, z)] \in Content,
           Answered(r, z, status)
    PROVE  /\ http_buf' \in [Session -> [base : Block \cup {Null}, ref_flag : BOOLEAN]]
           /\ response' \in [Session -> [status : {"receiving", "ok", "error"},
                                appended : BOOLEAN, promised : Content \cup {NoContent}]]
           /\ \A t \in Session \ {r.session} :
                  http_buf'[t] = http_buf[t] /\ response'[t] = response[t]
           /\ r.get => /\ http_buf'[r.session].base = Appended(r, z)
                       /\ response'[r.session].promised = WithGzip(r, z)[Appended(r, z)]
           /\ ~ r.get => response'[r.session].appended = response[r.session].appended
           /\ \A t \in Session, x \in Block : OfSession(t, x)' <=>
                  OfSession(t, x) /\ ~ (t = r.session /\ r.get)
           /\ \A x \in Block : x \in Dropped(r) <=> r.get /\ OfSession(r.session, x)
  <1>1. r.session \in Session /\ r.get \in BOOLEAN
    BY DEF Requests
  <1>2. SetHttpBufferPtr(r, z) /\ http_buf \in [Session -> [base : Block \cup {Null},
                                                         ref_flag : BOOLEAN]]
    BY DEF Answered, HtmlCacheTypeOK
  <1>3. /\ http_buf' \in [Session -> [base : Block \cup {Null}, ref_flag : BOOLEAN]]
        /\ \A t \in Session \ {r.session} : http_buf'[t] = http_buf[t]
        /\ r.get => /\ http_buf'[r.session].base = Appended(r, z)
                    /\ http_buf'[r.session].ref_flag = TRUE
        /\ ~ r.get => http_buf' = http_buf
    <2> DEFINE ref == [base |-> Appended(r, z), ref_flag |-> TRUE]
    <2>1. /\ ref \in [base : Block \cup {Null}, ref_flag : BOOLEAN]
          /\ ref.base = Appended(r, z) /\ ref.ref_flag = TRUE
      OBVIOUS
    <2>2. http_buf' = IF r.get THEN [http_buf EXCEPT ![r.session] = ref] ELSE http_buf
      BY <1>2 DEF SetHttpBufferPtr
    <2> HIDE DEF ref
    <2> QED BY <1>1, <1>2, <2>1, <2>2
  <1>4. DEFINE a == [status |-> status,
                     appended |-> response[r.session].appended \/ r.get,
                     promised |-> IF r.get THEN WithGzip(r, z)[Appended(r, z)]
                                           ELSE response[r.session].promised]
  <1>5. a \in [status : {"receiving", "ok", "error"}, appended : BOOLEAN,
               promised : Content \cup {NoContent}]
    BY <1>1 DEF HtmlCacheTypeOK
  <1>6. response' = [response EXCEPT ![r.session] = a]
    BY DEF Answered
  <1>7. /\ response' \in [Session -> [status : {"receiving", "ok", "error"},
                              appended : BOOLEAN, promised : Content \cup {NoContent}]]
        /\ \A t \in Session \ {r.session} : response'[t] = response[t]
        /\ response'[r.session] = a
    <2> HIDE DEF a
    <2> QED BY <1>1, <1>5, <1>6 DEF HtmlCacheTypeOK
  <1>8. /\ r.get => response'[r.session].promised = WithGzip(r, z)[Appended(r, z)]
        /\ ~ r.get => response'[r.session].appended = response[r.session].appended
    BY <1>1, <1>7 DEF HtmlCacheTypeOK
  <1>9. ASSUME NEW t \in Session, NEW x \in Block
        PROVE  OfSession(t, x)' <=> OfSession(t, x) /\ ~ (t = r.session /\ r.get)
    <2>1. OfSession(t, x)' <=> ~ http_buf'[t].ref_flag /\ http_buf'[t].base = x
      BY Marks DEF OfSession, Owned
    <2>2. OfSession(t, x) <=> ~ http_buf[t].ref_flag /\ http_buf[t].base = x
      BY Marks DEF OfSession, Owned
    <2> QED BY <1>1, <1>3, <2>1, <2>2
  <1>10. \A x \in Block : x \in Dropped(r) <=> r.get /\ OfSession(r.session, x)
    BY DEF Dropped, OfSession
  <1> QED BY <1>3, <1>7, <1>8, <1>9, <1>10

\* A response that a step leaves alone, with the block that it points to.
LEMMA PromiseKept ==
    ASSUME HtmlCacheTypeOK, HtmlCacheTypeOK', NEW t \in Session, PromisedTo(t),
           response'[t] = response[t], http_buf'[t] = http_buf[t],
           \A x \in Block : /\ heap[x] \in Content
                            /\ OfSession(t, x) \/ \E n \in Name : OfEntry(n, x)
               => /\ heap'[x] = heap[x]
                  /\ OfSession(t, x)' \/ \E n \in Name : OfEntry(n, x)'
    PROVE  PromisedTo(t)'
  BY DEF PromisedTo

\* The entries that a step leaves, with their content.
LEMMA EntriesKept ==
    ASSUME HtmlCacheTypeOK, GzipOfContent,
           \A n \in Name : n \in Cached' => n \in Cached /\ cache'[n] = cache[n],
           \A n \in Name, x \in Block : OfEntry(n, x) /\ n \in Cached' => heap'[x] = heap[x]
    PROVE  GzipOfContent'
  <1> SUFFICES ASSUME NEW n \in Name, n \in Cached', cache'[n].html_gzip_content # Null
               PROVE  heap'[cache'[n].html_gzip_content] =
                          [heap'[cache'[n].html_content] EXCEPT !.gzip = TRUE]
    BY DEF GzipOfContent, Gzipped, Cached
  <1>1. /\ n \in Cached /\ cache'[n] = cache[n]
        /\ cache[n].html_content \in Block /\ cache[n].html_gzip_content \in Block
        /\ OfEntry(n, cache[n].html_content) /\ OfEntry(n, cache[n].html_gzip_content)
    BY Holdings
  <1>2. heap[cache[n].html_gzip_content] = [heap[cache[n].html_content] EXCEPT !.gzip = TRUE]
    BY <1>1 DEF GzipOfContent, Gzipped
  <1> QED BY <1>1, <1>2

\* An answer from the cache, which may add a gzipped copy to the entry.
LEMMA AnswerCachedStep ==
    ASSUME Memory, NEW r \in Requests, Head(r.names) \in Cached,
           r.block = cache[Head(r.names)].html_content, work.step # "answer",
           ~ r.get => ~ response[r.session].appended,
           NEW z \in Block \cup {Null}, Compressed(r, z), AnswerCached(r, z),
           UNCHANGED <<disk, queue, batch>>
    PROVE  Memory' /\ EntriesStay({})
  <1> DEFINE n == Head(r.names)
             s == r.session
  <1> USE DEF Memory
  <1>1. /\ n \in Name /\ r.block \in Block /\ OfEntry(n, r.block)
        /\ heap[r.block] \in Content /\ s \in Session
    BY Holdings DEF Filled, HasOwner, Requests
  <1>2. /\ WithGzip(r, z) \in [Block -> Content \cup {NoContent, Leaked}]
        /\ Gzipped(r.block) \in Content
        /\ \A x \in Block : WithGzip(r, z)[x] = IF x = z THEN Gzipped(r.block) ELSE heap[x]
        /\ \A x \in Block : heap[x] \in Content => WithGzip(r, z)[x] = heap[x]
        /\ z # Null => heap[z] = NoContent \/ z = cache[n].html_gzip_content
        /\ Appended(r, z) \in Block
    BY <1>1, GzipPlace
  <1>3. WithGzip(r, z)[Appended(r, z)] \in Content
    BY <1>1, <1>2 DEF Appended
  <1>4. /\ http_buf' \in [Session -> [base : Block \cup {Null}, ref_flag : BOOLEAN]]
        /\ response' \in [Session -> [status : {"receiving", "ok", "error"},
                             appended : BOOLEAN, promised : Content \cup {NoContent}]]
        /\ \A t \in Session \ {s} : http_buf'[t] = http_buf[t] /\ response'[t] = response[t]
        /\ r.get => /\ http_buf'[s].base = Appended(r, z)
                    /\ response'[s].promised = WithGzip(r, z)[Appended(r, z)]
        /\ ~ r.get => response'[s].appended = response[s].appended
        /\ \A t \in Session, x \in Block : OfSession(t, x)' <=>
               OfSession(t, x) /\ ~ (t = s /\ r.get)
        /\ \A x \in Block : x \in Dropped(r) <=> r.get /\ OfSession(s, x)
    BY <1>1, <1>2, <1>3, AnsweredEffect DEF AnswerCached
  <1>5. /\ heap' = FreeBlocks(WithGzip(r, z), Dropped(r))
        /\ heap' \in [Block -> Content \cup {NoContent, Leaked}]
        /\ \A x \in Block : heap'[x] = IF r.get /\ OfSession(s, x) THEN NoContent
                                       ELSE WithGzip(r, z)[x]
    BY <1>2, <1>4 DEF AnswerCached, FreeBlocks
  <1>6. /\ cache' \in [Name -> Entry \cup {NoEntry}]
        /\ \A m \in Name \ {n} : cache'[m] = cache[m]
        /\ cache'[n] \in Entry
        /\ cache'[n].html_content = cache[n].html_content
        /\ cache'[n].wd = cache[n].wd /\ cache'[n].fresh = cache[n].fresh
        /\ cache'[n].html_gzip_content = IF z = Null THEN cache[n].html_gzip_content ELSE z
    <2> DEFINE g == IF z = Null THEN cache[n].html_gzip_content ELSE z
    <2>1. /\ cache[n] \in Entry /\ g \in Block \cup {Null}
          /\ cache' = [cache EXCEPT ![n].html_gzip_content = g]
      BY <1>1, Holdings DEF AnswerCached
    <2> HIDE DEF g
    <2>2. [cache[n] EXCEPT !.html_gzip_content = g] \in Entry
      BY <2>1 DEF Entry
    <2>3. /\ [cache[n] EXCEPT !.html_gzip_content = g].html_content = cache[n].html_content
          /\ [cache[n] EXCEPT !.html_gzip_content = g].wd = cache[n].wd
          /\ [cache[n] EXCEPT !.html_gzip_content = g].fresh = cache[n].fresh
          /\ [cache[n] EXCEPT !.html_gzip_content = g].html_gzip_content = g
      BY <2>1 DEF Entry
    <2>4. cache' = [cache EXCEPT ![n] = [cache[n] EXCEPT !.html_gzip_content = g]]
      BY <2>1
    <2> HIDE DEF n
    <2> QED BY <1>1, <2>1, <2>2, <2>3, <2>4 DEF HtmlCacheTypeOK, g
  <1>7. work' = NoWork /\ work'.step = "none"
    BY DEF AnswerCached, NoWork
  <1>8. HtmlCacheTypeOK'
    BY <1>4, <1>5, <1>6, <1>7 DEF HtmlCacheTypeOK, AnswerCached
  <1>9. Cached' = Cached
    BY <1>1, <1>6, <1>8, Holdings, Marks DEF Cached
  <1>10. /\ \A m \in Name, x \in Block :
                OfEntry(m, x)' <=> OfEntry(m, x) \/ (m = n /\ x = z)
         /\ \A x \in Block : ~ OfWork(x)'
    <2>1. \A m \in Name, x \in Block : OfEntry(m, x)' <=>
              /\ m \in Cached
              /\ x = cache'[m].html_content \/ x = cache'[m].html_gzip_content
      BY <1>8, <1>9, HoldingsNext
    <2>2. z # Null => heap[z] = NoContent \/ OfEntry(n, z)
      BY <1>1, <1>2, Holdings
    <2>3. \A m \in Name, x \in Block : OfEntry(m, x) <=>
              /\ m \in Cached
              /\ x = cache[m].html_content \/ x = cache[m].html_gzip_content
      BY Holdings
    <2>4. cache[n].html_gzip_content = Null \/ z \in {Null, cache[n].html_gzip_content}
      BY DEF Compressed, Present
    <2> QED BY <1>1, <1>6, <1>7, <2>1, <2>3, <2>4, Marks DEF OfWork
  <1>11. z \in Block => heap[z] = NoContent \/ OfEntry(n, z)
    BY <1>1, <1>2, Holdings, Marks
  <1> HIDE DEF n, s
  <1>12. \A x \in Block : HasOwner(x) <=> heap[x] \in Content
    BY DEF Filled
  <1>13. z \in Block => \/ OfEntry(n, z) 
                        \/ /\ \A m \in Name : ~ OfEntry(m, z)
                           /\ \A t \in Session : ~ OfSession(t, z)
    BY <1>11, <1>12, Marks DEF HasOwner
  <1>14. Apart'
    BY <1>1, <1>4, <1>10, <1>13 DEF Apart
  <1>15. \A x \in Block : ~ OfWork(x)
    BY DEF OfWork
  <1>16. \A x \in Block : r.get /\ OfSession(s, x) =>
             x # z /\ \A m \in Name : ~ OfEntry(m, x)
    BY <1>1, <1>13 DEF Apart
  <1>17. Filled'
    <2> SUFFICES ASSUME NEW x \in Block
                 PROVE  heap'[x] \in Content <=> HasOwner(x)'
      BY DEF Filled
    <2>1. HasOwner(x)' <=> \/ \E m \in Name : OfEntry(m, x)
                           \/ x = z
                           \/ \E t \in Session : OfSession(t, x) /\ ~ (t = s /\ r.get)
      BY <1>1, <1>4, <1>10 DEF HasOwner
    <2>2. CASE r.get /\ OfSession(s, x)
      BY <2>1, <2>2, <1>1, <1>5, <1>16, Marks DEF Apart
    <2>3. CASE ~ (r.get /\ OfSession(s, x)) /\ x = z
      BY <2>1, <2>3, <1>2, <1>5
    <2>4. CASE ~ (r.get /\ OfSession(s, x)) /\ x # z
      BY <2>1, <2>4, <1>2, <1>5, <1>12, <1>15 DEF HasOwner
    <2> QED BY <2>2, <2>3, <2>4
  <1>18. \A m \in Name, x \in Block : OfEntry(m, x) => heap'[x] = heap[x]
    BY <1>2, <1>5, <1>12, <1>16 DEF HasOwner
  <1>19. GzipOfContent'
    <2> SUFFICES ASSUME NEW m \in Cached, cache'[m].html_gzip_content # Null
                 PROVE  heap'[cache'[m].html_gzip_content] =
                            [heap'[cache'[m].html_content] EXCEPT !.gzip = TRUE]
      BY <1>9 DEF GzipOfContent, Gzipped
    <2>1. /\ m \in Name /\ cache[m].html_content \in Block
          /\ OfEntry(m, cache[m].html_content)
          /\ cache[m].html_gzip_content # Null =>
                /\ cache[m].html_gzip_content \in Block
                /\ OfEntry(m, cache[m].html_gzip_content)
      BY Holdings
    <2>2. CASE m = n /\ z # Null
      <3>1. heap'[z] = Gzipped(r.block)
        BY <2>2, <1>2, <1>5, <1>16
      <3>2. cache'[m].html_gzip_content = z /\ cache'[m].html_content = cache[m].html_content
        BY <2>2, <1>6
      <3>3. cache[m].html_content = r.block
        BY <2>2 DEF n
      <3>4. heap'[cache[m].html_content] = heap[r.block]
        BY <2>1, <3>3, <1>18
      <3> QED BY ONLY <3>1, <3>2, <3>4 DEF Gzipped
    <2>3. CASE m # n \/ z = Null
      <3>1. /\ cache'[m].html_content = cache[m].html_content
            /\ cache'[m].html_gzip_content = cache[m].html_gzip_content
        BY <2>1, <2>3, <1>6
      <3>2. heap[cache[m].html_gzip_content] =
                [heap[cache[m].html_content] EXCEPT !.gzip = TRUE]
        BY <3>1 DEF GzipOfContent, Gzipped
      <3> QED BY <2>1, <3>1, <3>2, <1>18
    <2> QED BY <2>2, <2>3
  <1>20. AtWork'
    BY <1>7 DEF AtWork
  <1>21. Promised'
    <2> SUFFICES ASSUME NEW t \in Session PROVE PromisedTo(t)'
      BY DEF Promised
    <2>1. CASE t # s
      <3>1. \A x \in Block : OfSession(t, x)' <=> OfSession(t, x)
        BY <2>1, <1>4
      <3>2. \A x \in Block : /\ heap[x] \in Content
                             /\ OfSession(t, x) \/ \E m \in Name : OfEntry(m, x)
                => heap'[x] = heap[x]
        BY <2>1, <1>1, <1>2, <1>5, <1>18 DEF Apart
      <3> QED BY <2>1, <3>1, <3>2, <1>4, <1>8, <1>10, PromiseKept DEF Promised
    <2>2. CASE t = s /\ ~ r.get
      BY <2>2, <1>4 DEF PromisedTo, s
    <2>3. CASE t = s /\ r.get
      <3>1. Appended(r, z) = r.block \/ Appended(r, z) = z
        BY DEF Appended
      <3>2. OfEntry(n, Appended(r, z))'
        BY <3>1, <1>1, <1>2, <1>10
      <3>3. heap'[Appended(r, z)] = WithGzip(r, z)[Appended(r, z)]
        BY <3>1, <1>1, <1>2, <1>5, <1>16
      <3> QED BY <2>3, <3>2, <3>3, <1>1, <1>2, <1>3, <1>4 DEF PromisedTo
    <2> QED BY <2>1, <2>2, <2>3
  <1>22. EntriesStay({})
    <2> SUFFICES ASSUME NEW m \in Cached
                 PROVE  /\ cache'[m].wd = cache[m].wd /\ cache'[m].fresh = cache[m].fresh
                        /\ cache'[m].html_content = cache[m].html_content
                        /\ heap'[cache[m].html_content] = heap[cache[m].html_content]
      BY <1>9 DEF EntriesStay
    <2> QED BY <1>6, <1>18, Holdings
  <1> QED BY <1>22, <1>8, <1>14, <1>17, <1>19, <1>20, <1>21

\* A page that has been read and not answered: nobody else has its block.
LEMMA AnswerPlace ==
    ASSUME Memory, work.step = "answer", NEW z \in Block \cup {Null}, Compressed(work, z)
    PROVE  /\ work \in Requests /\ Head(work.names) \in Name /\ Head(work.names) \notin Cached
           /\ work.block \in Block /\ work.session \in Session /\ work.get \in BOOLEAN
           /\ WithGzip(work, z) \in [Block -> Content \cup {NoContent, Leaked}]
           /\ \A x \in Block : x # z => WithGzip(work, z)[x] = heap[x]
           /\ \A n \in Name : ~ OfEntry(n, work.block) /\ (z # Null => ~ OfEntry(n, z))
           /\ \A s \in Session : ~ OfSession(s, work.block) /\ (z # Null => ~ OfSession(s, z))
           /\ z # Null => heap[z] = NoContent /\ WithGzip(work, z)[z] = Gzipped(work.block)
           /\ Appended(work, z) \in Block
           /\ WithGzip(work, z)[Appended(work, z)] \in Content
           /\ WithGzip(work, z)[Appended(work, z)].name = Head(work.names)
           /\ ~ work.get => ~ response[work.session].appended
  <1> USE DEF Memory
  <1>1. work \in Requests /\ Head(work.names) \notin Cached /\ work.block \in Block
        /\ heap[work.block].name = Head(work.names)
    BY Holdings DEF AtWork, NoWork
  <1>2. work.session \in Session /\ work.get \in BOOLEAN /\ Head(work.names) \in Name
    BY <1>1 DEF Requests
  <1>3. heap[work.block] \in Content
    BY <1>1 DEF Filled, HasOwner, OfWork
  <1>4. /\ WithGzip(work, z) \in [Block -> Content \cup {NoContent, Leaked}]
        /\ \A x \in Block : WithGzip(work, z)[x] = IF x = z THEN Gzipped(work.block)
                                                   ELSE heap[x]
        /\ z = Null \/ heap[z] = NoContent
        /\ Gzipped(work.block) \in Content /\ Gzipped(work.block).name = heap[work.block].name
        /\ Appended(work, z) \in Block
    BY <1>1, <1>3, GzipPlace
  <1>5. /\ WithGzip(work, z)[Appended(work, z)] \in Content
        /\ WithGzip(work, z)[Appended(work, z)].name = Head(work.names)
    BY <1>1, <1>3, <1>4 DEF Appended
  <1>6. /\ ~ \E n \in Name : OfEntry(n, work.block)
        /\ ~ \E s \in Session : OfSession(s, work.block)
    BY <1>1 DEF Apart, OfWork
  <1>7. z # Null => /\ ~ \E n \in Name : OfEntry(n, z)
                    /\ ~ \E s \in Session : OfSession(s, z)
    BY <1>4, Marks DEF Filled, HasOwner
  <1>8. ~ work.get => ~ response[work.session].appended
    BY <1>1, Marks DEF AtWork
  <1> QED BY <1>1, <1>2, <1>4, <1>5, <1>6, <1>7, <1>8, Marks

\* An answer whose page is freed at once: it is too large, or cannot be watched.
LEMMA AnswerDroppedStep ==
    ASSUME Memory, work.step = "answer", NEW z \in Block \cup {Null}, Compressed(work, z),
           NEW status \in {"receiving", "ok", "error"}, Answered(work, z, status),
           status = "ok" => FileOf[Head(work.names)] \in Big,
           heap' = FreeBlocks(WithGzip(work, z), Dropped(work) \cup {work.block, z}),
           work' # NoWork => work' \in Requests /\ work'.step = "lookup",
           work' # NoWork => work'.session = work.session /\ work'.get = work.get,
           UNCHANGED <<disk, watching, queue, cache, batch, alive>>
    PROVE  Memory' /\ EntriesStay({})
  <1> DEFINE s == work.session
  <1>1. HtmlCacheTypeOK /\ Apart /\ Filled /\ GzipOfContent /\ AtWork /\ Promised
    BY DEF Memory
  <1>2. /\ work \in Requests /\ Head(work.names) \in Name /\ Head(work.names) \notin Cached
        /\ work.block \in Block /\ s \in Session /\ work.get \in BOOLEAN
        /\ WithGzip(work, z) \in [Block -> Content \cup {NoContent, Leaked}]
        /\ \A x \in Block : x # z => WithGzip(work, z)[x] = heap[x]
        /\ \A n \in Name : ~ OfEntry(n, work.block) /\ (z # Null => ~ OfEntry(n, z))
        /\ \A t \in Session : ~ OfSession(t, work.block) /\ (z # Null => ~ OfSession(t, z))
        /\ Appended(work, z) \in Block
        /\ WithGzip(work, z)[Appended(work, z)] \in Content
        /\ WithGzip(work, z)[Appended(work, z)].name = Head(work.names)
        /\ ~ work.get => ~ response[s].appended
    BY AnswerPlace
  <1>3. /\ http_buf' \in [Session -> [base : Block \cup {Null}, ref_flag : BOOLEAN]]
        /\ response' \in [Session -> [status : {"receiving", "ok", "error"},
                             appended : BOOLEAN, promised : Content \cup {NoContent}]]
        /\ \A t \in Session \ {s} : http_buf'[t] = http_buf[t] /\ response'[t] = response[t]
        /\ work.get => response'[s].promised = WithGzip(work, z)[Appended(work, z)]
        /\ ~ work.get => response'[s].appended = response[s].appended
        /\ \A t \in Session, x \in Block : OfSession(t, x)' <=>
               OfSession(t, x) /\ ~ (t = s /\ work.get)
        /\ \A x \in Block : x \in Dropped(work) <=> work.get /\ OfSession(s, x)
    BY <1>1, <1>2, AnsweredEffect
  <1>4. \A x \in Block : heap'[x] = IF (work.get /\ OfSession(s, x)) \/ x = work.block \/ x = z
                                    THEN NoContent ELSE heap[x]
    BY <1>2, <1>3 DEF FreeBlocks
  <1>5. heap' \in [Block -> Content \cup {NoContent, Leaked}]
    BY <1>1, <1>4 DEF FreeBlocks, HtmlCacheTypeOK
  <1>6. HtmlCacheTypeOK'
    BY <1>1, <1>3, <1>5 DEF HtmlCacheTypeOK, Requests
  <1>7. Cached' = Cached
    BY DEF Cached
  <1>8. /\ \A n \in Name, x \in Block : OfEntry(n, x)' <=> OfEntry(n, x)
        /\ \A x \in Block : ~ OfWork(x)'
    BY <1>7 DEF OfEntry, Contents, OfWork, NoWork
  <1>9. \A x \in Block : OfWork(x) <=> x = work.block
    BY <1>2 DEF OfWork
  <1>10. response'[s].status = status
    BY <1>1, <1>2 DEF Answered, HtmlCacheTypeOK
  <1> HIDE DEF s
  <1>11. Apart'
    BY <1>1, <1>3, <1>8 DEF Apart
  <1>12. \A x \in Block : HasOwner(x)' <=>
            HasOwner(x) /\ x # work.block /\ x # z /\ ~ (work.get /\ OfSession(s, x))
    <2> SUFFICES ASSUME NEW x \in Block
                 PROVE  HasOwner(x)' <=> /\ HasOwner(x) /\ x # work.block /\ x # z
                                         /\ ~ (work.get /\ OfSession(s, x))
      OBVIOUS
    <2>1. HasOwner(x)' <=> \/ \E n \in Name : OfEntry(n, x)
                           \/ \E t \in Session : OfSession(t, x) /\ ~ (t = s /\ work.get)
      BY <1>3, <1>8 DEF HasOwner
    <2>2. CASE x = work.block \/ x = z
      BY <2>1, <2>2, <1>2, Marks
    <2>3. CASE x # work.block /\ x # z
      BY <2>1, <2>3, <1>1, <1>2, <1>9 DEF HasOwner, Apart
    <2> QED BY <2>2, <2>3
  <1>13. Filled'
    BY <1>1, <1>4, <1>12, Marks DEF Filled
  <1>14. \A n \in Name, x \in Block : OfEntry(n, x) => heap'[x] = heap[x]
    BY <1>1, <1>2, <1>4, Marks DEF Apart
  <1>15. GzipOfContent'
    BY <1>1, <1>7, <1>14, EntriesKept
  <1>16. AtWork'
    BY <1>2, <1>3, Marks DEF AtWork, NoWork, s
  <1>17. Promised'
    <2> SUFFICES ASSUME NEW t \in Session PROVE PromisedTo(t)'
      BY DEF Promised
    <2>1. CASE t # s
      <3>1. ASSUME NEW x \in Block, OfSession(t, x)
            PROVE  OfSession(t, x)' /\ heap'[x] = heap[x]
        <4>1. x # work.block /\ x # z /\ ~ OfSession(s, x)
          BY <2>1, <3>1, <1>1, <1>2, Marks DEF Apart
        <4> QED BY <4>1, <3>1, <2>1, <1>3, <1>4
      <3> QED BY <2>1, <3>1, <1>1, <1>3, <1>6, <1>8, <1>14, PromiseKept DEF Promised
    <2>2. CASE t = s
      BY <2>2, <1>2, <1>3, <1>10 DEF PromisedTo, s
    <2> QED BY <2>1, <2>2
  <1>18. EntriesStay({})
    <2> SUFFICES ASSUME NEW n \in Cached
                 PROVE  heap'[cache[n].html_content] = heap[cache[n].html_content]
      BY <1>7 DEF EntriesStay
    <2> QED BY <1>1, <1>14, Holdings
  <1> QED BY <1>18, <1>6, <1>11, <1>13, <1>15, <1>16, <1>17 DEF Memory

\* An answer whose page is kept: the entry takes the blocks over from the request.
LEMMA AnswerAndKeepStep ==
    ASSUME Memory, work.step = "answer", NEW z \in Block \cup {Null}, Compressed(work, z),
           NEW w \in Wd, AnswerAndKeep(work, z, w), UNCHANGED <<disk, queue, batch>>
    PROVE  /\ Memory' /\ EntriesStay({Head(work.names)})
           /\ heap'[work.block] = heap[work.block]
  <1> DEFINE s == work.session
             n == Head(work.names)
  <1>1. HtmlCacheTypeOK /\ Apart /\ Filled /\ GzipOfContent /\ AtWork /\ Promised
    BY DEF Memory
  <1>2. /\ work \in Requests /\ n \in Name /\ n \notin Cached
        /\ work.block \in Block /\ s \in Session /\ work.get \in BOOLEAN
        /\ WithGzip(work, z) \in [Block -> Content \cup {NoContent, Leaked}]
        /\ \A x \in Block : x # z => WithGzip(work, z)[x] = heap[x]
        /\ \A m \in Name : ~ OfEntry(m, work.block) /\ (z # Null => ~ OfEntry(m, z))
        /\ \A t \in Session : ~ OfSession(t, work.block) /\ (z # Null => ~ OfSession(t, z))
        /\ z # Null => heap[z] = NoContent /\ WithGzip(work, z)[z] = Gzipped(work.block)
        /\ Appended(work, z) \in Block
        /\ WithGzip(work, z)[Appended(work, z)] \in Content
        /\ ~ work.get => ~ response[s].appended
    BY AnswerPlace
  <1>3. /\ http_buf' \in [Session -> [base : Block \cup {Null}, ref_flag : BOOLEAN]]
        /\ response' \in [Session -> [status : {"receiving", "ok", "error"},
                             appended : BOOLEAN, promised : Content \cup {NoContent}]]
        /\ \A t \in Session \ {s} : http_buf'[t] = http_buf[t] /\ response'[t] = response[t]
        /\ work.get => /\ http_buf'[s].base = Appended(work, z)
                    /\ response'[s].promised = WithGzip(work, z)[Appended(work, z)]
        /\ ~ work.get => response'[s].appended = response[s].appended
        /\ \A t \in Session, x \in Block : OfSession(t, x)' <=>
               OfSession(t, x) /\ ~ (t = s /\ work.get)
        /\ \A x \in Block : x \in Dropped(work) <=> work.get /\ OfSession(s, x)
    BY <1>1, <1>2, AnsweredEffect DEF AnswerAndKeep
  <1>4. /\ heap' = FreeBlocks(WithGzip(work, z), Dropped(work))
        /\ heap' \in [Block -> Content \cup {NoContent, Leaked}]
        /\ \A x \in Block : heap'[x] = IF work.get /\ OfSession(s, x) THEN NoContent
                                       ELSE WithGzip(work, z)[x]
    BY <1>2, <1>3 DEF AnswerAndKeep, FreeBlocks
  <1>5. /\ cache' \in [Name -> Entry \cup {NoEntry}]
        /\ \A m \in Name \ {n} : cache'[m] = cache[m]
        /\ cache'[n] \in Entry
        /\ cache'[n].html_content = work.block /\ cache'[n].html_gzip_content = z
    <2> DEFINE e == [wd |-> w, html_content |-> work.block, html_gzip_content |-> z,
                     fresh |-> heap[work.block].size = disk[FileOf[n]].version
                               /\ heap[work.block].text = disk[FileOf[n]].version]
    <2>1. e \in Entry /\ e.html_content = work.block /\ e.html_gzip_content = z
      BY <1>2 DEF Entry
    <2>2. cache' = [cache EXCEPT ![n] = e]
      BY DEF AnswerAndKeep
    <2> HIDE DEF e, n
    <2> QED BY <1>1, <1>2, <2>1, <2>2 DEF HtmlCacheTypeOK
  <1>6. work' = NoWork /\ work'.step = "none" /\ alive' = alive
    BY DEF AnswerAndKeep, NoWork
  <1>7. watching' \in [Wd -> File \cup {"away", "nothing"}]
    <2>1. watching' = [watching EXCEPT ![w] = FileOf[n]]
      BY DEF AnswerAndKeep
    <2> QED BY <1>1, <1>2, <2>1, HtmlCacheAssumption DEF HtmlCacheTypeOK
  <1>8. HtmlCacheTypeOK'
    BY <1>1, <1>3, <1>4, <1>5, <1>6, <1>7 DEF HtmlCacheTypeOK
  <1>9. \A m \in Name : m \in Cached' <=> m \in Cached \/ m = n
    BY <1>2, <1>5, <1>8, Marks, HoldingsNext DEF Cached
  <1>10. /\ \A m \in Name, x \in Block : OfEntry(m, x)' <=>
                OfEntry(m, x) \/ (m = n /\ x \in {work.block, z})
         /\ \A x \in Block : ~ OfWork(x)'
    BY <1>1, <1>2, <1>5, <1>6, <1>8, <1>9, Holdings, HoldingsNext DEF OfWork
  <1>11. \A x \in Block : OfWork(x) <=> x = work.block
    BY <1>2 DEF OfWork
  <1>12. z = Null \/ z \in Block
    OBVIOUS
  <1> HIDE DEF n, s
  <1>13. Apart'
    BY <1>1, <1>2, <1>3, <1>10, <1>12, Marks DEF Apart
  <1>14. \A x \in Block : HasOwner(x)' <=>
            \/ x = work.block \/ x = z
            \/ HasOwner(x) /\ ~ (work.get /\ OfSession(s, x))
    BY <1>1, <1>2, <1>3, <1>10, <1>11, <1>12, Marks DEF HasOwner, Apart
  <1>15. /\ heap'[work.block] = heap[work.block]
         /\ heap[work.block] \in Content
         /\ z # Null => heap'[z] = Gzipped(work.block) /\ Gzipped(work.block) \in Content
    <2>1. heap[work.block] \in Content /\ work.block # z
      BY <1>1, <1>2, <1>11, Marks DEF Filled, HasOwner
    <2>2. Gzipped(work.block) \in Content
      BY <2>1 DEF Gzipped, Content
    <2> QED BY <1>2, <1>4, <1>12, <2>1, <2>2, Marks
  <1>16. Filled'
    <2> SUFFICES ASSUME NEW x \in Block
                 PROVE  heap'[x] \in Content <=> HasOwner(x)'
      BY DEF Filled
    <2>1. CASE x = work.block \/ x = z
      BY <2>1, <1>14, <1>15, Marks
    <2>2. CASE x # work.block /\ x # z
      BY <2>2, <1>1, <1>2, <1>4, <1>14, Marks DEF Filled
    <2> QED BY <2>1, <2>2
  <1>17. \A m \in Name, x \in Block : OfEntry(m, x) => heap'[x] = heap[x]
    BY <1>1, <1>2, <1>4, <1>12, Marks DEF Apart
  <1>18. GzipOfContent'
    <2> SUFFICES ASSUME NEW m \in Name, m \in Cached', cache'[m].html_gzip_content # Null
                 PROVE  heap'[cache'[m].html_gzip_content] =
                            [heap'[cache'[m].html_content] EXCEPT !.gzip = TRUE]
      BY DEF GzipOfContent, Gzipped, Cached
    <2>1. CASE m = n
      BY <2>1, <1>5, <1>15 DEF Gzipped
    <2>2. CASE m # n
      <3>1. /\ m \in Cached /\ cache'[m] = cache[m]
            /\ cache[m].html_content \in Block /\ cache[m].html_gzip_content \in Block
            /\ OfEntry(m, cache[m].html_content) /\ OfEntry(m, cache[m].html_gzip_content)
        BY <2>2, <1>1, <1>5, <1>9, Holdings
      <3>2. heap[cache[m].html_gzip_content] =
                [heap[cache[m].html_content] EXCEPT !.gzip = TRUE]
        BY <3>1, <1>1 DEF GzipOfContent, Gzipped
      <3> QED BY <3>1, <3>2, <1>17
    <2> QED BY <2>1, <2>2
  <1>19. AtWork'
    BY <1>6 DEF AtWork
  <1>20. Promised'
    <2> SUFFICES ASSUME NEW t \in Session PROVE PromisedTo(t)'
      BY DEF Promised
    <2>1. CASE t # s
      <3>1. \A x \in Block : OfSession(t, x) => OfSession(t, x)' /\ heap'[x] = heap[x]
        BY <2>1, <1>1, <1>2, <1>3, <1>4, <1>12, Marks DEF Apart
      <3> QED BY <2>1, <3>1, <1>1, <1>3, <1>8, <1>10, <1>17, PromiseKept DEF Promised
    <2>2. CASE t = s /\ ~ work.get
      BY <2>2, <1>2, <1>3 DEF PromisedTo
    <2>3. CASE t = s /\ work.get
      <3>1. PICK x \in Block : x = Appended(work, z)
        BY <1>2
      <3>2. x = work.block \/ x = z
        BY <3>1 DEF Appended
      <3>3. \E m \in Name : OfEntry(m, x)'
        BY <3>2, <1>2, <1>10
      <3>4. heap'[x] = WithGzip(work, z)[x]
        BY <3>2, <1>2, <1>4, Marks
      <3> QED BY <2>3, <3>1, <3>3, <3>4, <1>2, <1>3 DEF PromisedTo
    <2> QED BY <2>1, <2>2, <2>3
  <1>21. EntriesStay({n})
    <2> SUFFICES ASSUME NEW m \in Cached, m # n
                 PROVE  /\ cache'[m] = cache[m]
                        /\ heap'[cache[m].html_content] = heap[cache[m].html_content]
      BY <1>9 DEF EntriesStay, Cached
    <2> QED BY <1>1, <1>5, <1>17, Holdings
  <1> QED BY <1>15, <1>21, <1>8, <1>13, <1>16, <1>18, <1>19, <1>20 DEF Memory, n

-----------------------------------------------------------------------------
(* Memory: the other steps of a request, and of what is around it.         *)

\* A step that leaves the entries and who owns what, up to the request's own block.
LEMMA RequestStep ==
    ASSUME Memory, HtmlCacheTypeOK', AtWork', UNCHANGED cache,
           \A s \in Session, x \in Block : OfSession(s, x)' <=> OfSession(s, x),
           \A x \in Block : OfWork(x)' => OfWork(x) \/ heap[x] = NoContent,
           \A x \in Block : /\ heap[x] \in Content /\ ~ OfWork(x) => heap'[x] = heap[x]
                            /\ heap[x] \notin Content \/ OfWork(x) =>
                                 (heap'[x] \in Content <=> OfWork(x)'),
           \A s \in Session : \/ response'[s].status # "ok"
                              \/ response'[s] = response[s] /\ http_buf'[s] = http_buf[s]
    PROVE  Memory' /\ EntriesStay({})
  <1>1. HtmlCacheTypeOK /\ Apart /\ Filled /\ GzipOfContent /\ AtWork /\ Promised
    BY DEF Memory
  <1>2. Cached' = Cached
    BY DEF Cached
  <1>3. \A n \in Name, x \in Block : OfEntry(n, x)' <=> OfEntry(n, x)
    BY <1>2 DEF OfEntry, Contents
  <1>4. \A x \in Block : heap[x] \in Content <=> HasOwner(x)
    BY <1>1 DEF Filled
  <1>5. \A x \in Block : OfWork(x)' /\ ~ OfWork(x) =>
            /\ \A n \in Name : ~ OfEntry(n, x)
            /\ \A s \in Session : ~ OfSession(s, x)
    BY <1>4, Marks DEF HasOwner
  <1>6. Apart'
    BY <1>1, <1>3, <1>5 DEF Apart
  <1>7. \A x \in Block : (\E n \in Name : OfEntry(n, x)) \/ (\E s \in Session : OfSession(s, x))
            => heap[x] \in Content /\ ~ OfWork(x) /\ heap'[x] = heap[x]
    BY <1>1, <1>4 DEF Apart, HasOwner
  <1>8. Filled'
    <2> SUFFICES ASSUME NEW x \in Block
                 PROVE  heap'[x] \in Content <=> HasOwner(x)'
      BY DEF Filled
    <2>1. HasOwner(x)' <=> \/ \E n \in Name : OfEntry(n, x)
                           \/ \E s \in Session : OfSession(s, x)
                           \/ OfWork(x)'
      BY <1>3 DEF HasOwner
    <2>2. CASE (\E n \in Name : OfEntry(n, x)) \/ (\E s \in Session : OfSession(s, x))
      BY <2>1, <2>2, <1>7
    <2>3. CASE ~ (\E n \in Name : OfEntry(n, x)) /\ ~ (\E s \in Session : OfSession(s, x))
      <3>1. heap[x] \notin Content \/ OfWork(x)
        BY <2>3, <1>4 DEF HasOwner
      <3> QED BY <2>1, <2>3, <3>1
    <2> QED BY <2>2, <2>3
  <1>9. GzipOfContent'
    BY <1>1, <1>2, <1>7, EntriesKept
  <1>10. Promised'
    <2> SUFFICES ASSUME NEW s \in Session PROVE PromisedTo(s)'
      BY DEF Promised
    <2>1. CASE response'[s].status # "ok"
      BY <2>1 DEF PromisedTo
    <2>2. CASE response'[s] = response[s] /\ http_buf'[s] = http_buf[s]
      BY <2>2, <1>1, <1>3, <1>7, PromiseKept DEF Promised
    <2> QED BY <2>1, <2>2
  <1>11. EntriesStay({})
    <2> SUFFICES ASSUME NEW n \in Cached
                 PROVE  heap'[cache[n].html_content] = heap[cache[n].html_content]
      BY <1>2 DEF EntriesStay
    <2> QED BY <1>1, <1>7, Holdings
  <1> QED BY <1>6, <1>8, <1>9, <1>10, <1>11 DEF Memory

\* What is around a request: files that change, events that are read, a worker that returns.
LEMMA AroundStep ==
    ASSUME Memory, HtmlCacheTypeOK', UNCHANGED <<cacheVars, sessionVars, work>>
    PROVE  Memory' /\ EntriesStay({})
  <1>1. UNCHANGED <<cache, heap, http_buf, response, work>>
    BY DEF cacheVars, sessionVars
  <1>2. /\ \A s \in Session, x \in Block : OfSession(s, x)' <=> OfSession(s, x)
        /\ \A x \in Block : OfWork(x)' <=> OfWork(x)
    BY <1>1 DEF OfSession, Owned, OfWork
  <1>3. AtWork'
    BY <1>1 DEF Memory, AtWork, Cached
  <1>4. \A x \in Block : OfWork(x) => heap[x] \in Content
    BY DEF Memory, Filled, HasOwner
  <1> QED BY <1>1, <1>2, <1>3, <1>4, RequestStep

\* The names that are left of a request that has more than one.
LEMMA RestOfNames ==
    ASSUME NEW r \in Requests, Len(r.names) > 1
    PROVE  Tail(r.names) \in Seq(Name) \ {<<>>} /\ 0 \in Version
  <1>1. ASSUME NEW q \in Seq(Name), Len(q) > 1
        PROVE  Tail(q) \in Seq(Name) /\ Tail(q) # <<>> /\ Name # {}
    <2>1. Tail(q) \in Seq(Name) /\ Len(Tail(q)) = Len(q) - 1 /\ Head(q) \in Name
      BY <1>1
    <2>2. Len(Tail(q)) # 0
      BY <1>1, <2>1
    <2>3. Len(<<>>) = 0
      OBVIOUS
    <2> QED BY ONLY <2>1, <2>2, <2>3, Zenon
  <1>2. r.names \in Seq(Name)
    BY DEF Requests
  <1>3. Tail(r.names) \in Seq(Name) \ {<<>>} /\ Name # {}
    BY ONLY <1>1, <1>2, Len(r.names) > 1
  <1>4. PICK f \in File : 0 \in 0 .. MaxVersion[f]
    BY <1>3, HtmlCacheAssumption
  <1>5. 0 \in Version
    BY <1>4 DEF Version
  <1> QED BY <1>3, <1>5

\* The next name, or an error.
LEMMA NextNameStep ==
    ASSUME HtmlCacheTypeOK, NEW r \in Requests, NextName(r),
           ~ r.get => ~ response[r.session].appended
    PROVE  /\ work' = NoWork \/ work' \in Requests
           /\ response' \in [Session -> [status : {"receiving", "ok", "error"},
                                appended : BOOLEAN, promised : Content \cup {NoContent}]]
           /\ \A s \in Session : \/ response'[s].status # "ok"
                                 \/ response'[s] = response[s]
           /\ work'.step \in {"none", "lookup"}
           /\ work' # NoWork /\ ~ work'.get => ~ response'[work'.session].appended
  <1>1. r.session \in Session
    BY DEF Requests
  <1>2. CASE Len(r.names) > 1
    <2>1. work' = Req(r.session, Tail(r.names), r.get, r.gzip) /\ response' = response
      BY <1>2 DEF NextName
    <2>2. Tail(r.names) \in Seq(Name) \ {<<>>} /\ 0 \in Version
      BY <1>2, RestOfNames
    <2>3. work' \in Requests
      BY <2>1, <2>2 DEF Req, Requests
    <2> QED BY <2>1, <2>3 DEF HtmlCacheTypeOK, Req
  <1>3. CASE ~ (Len(r.names) > 1)
    <2> DEFINE a == [response[r.session] EXCEPT !.status = "error"]
    <2>1. work' = NoWork /\ response' = [response EXCEPT ![r.session] = a]
      BY <1>3 DEF NextName
    <2>2. /\ a \in [status : {"receiving", "ok", "error"}, appended : BOOLEAN,
                    promised : Content \cup {NoContent}]
          /\ a.status = "error"
      <3>1. response[r.session] \in [status : {"receiving", "ok", "error"},
                                     appended : BOOLEAN, promised : Content \cup {NoContent}]
        BY <1>1 DEF HtmlCacheTypeOK
      <3> QED BY ONLY <3>1
    <2> HIDE DEF a
    <2> QED BY <1>1, <2>1, <2>2 DEF HtmlCacheTypeOK, NoWork
  <1> QED BY <1>2, <1>3

\* A request that is refused: what it had read is forgotten.
LEMMA RefusedStep ==
    ASSUME Memory, NEW r \in Requests, Refused(r), UNCHANGED <<disk, queue, batch>>,
           ~ r.get => ~ response[r.session].appended,
           \/ Head(r.names) \in Cached /\ work.step # "answer"
           \/ Head(r.names) \notin Cached /\ work.step = "answer" /\ r = work
    PROVE  Memory' /\ EntriesStay({})
  <1>1. HtmlCacheTypeOK /\ Filled /\ AtWork
    BY DEF Memory
  <1>2. /\ UNCHANGED <<disk, watching, queue, cache, http_buf, batch, alive>>
        /\ NextName(r)
        /\ heap' = IF Head(r.names) \in Cached THEN heap ELSE [heap EXCEPT ![r.block] = Leaked]
    BY DEF Refused
  <1>3. /\ work' = NoWork \/ work' \in Requests
        /\ response' \in [Session -> [status : {"receiving", "ok", "error"},
                             appended : BOOLEAN, promised : Content \cup {NoContent}]]
        /\ \A s \in Session : response'[s].status # "ok" \/ response'[s] = response[s]
        /\ work'.step \in {"none", "lookup"}
        /\ work' # NoWork /\ ~ work'.get => ~ response'[work'.session].appended
    BY <1>1, <1>2, NextNameStep
  <1>4. heap' \in [Block -> Content \cup {NoContent, Leaked}]
    BY <1>1, <1>2 DEF HtmlCacheTypeOK
  <1>5. HtmlCacheTypeOK'
    BY <1>1, <1>2, <1>3, <1>4 DEF HtmlCacheTypeOK, Requests
  <1>6. AtWork'
    BY <1>3 DEF AtWork
  <1>7. \A x \in Block : ~ OfWork(x)'
    BY <1>3 DEF OfWork
  <1>8. \A s \in Session, x \in Block : OfSession(s, x)' <=> OfSession(s, x)
    BY <1>2 DEF OfSession, Owned
  <1>9. ASSUME NEW x \in Block
        PROVE  /\ heap[x] \in Content /\ ~ OfWork(x) => heap'[x] = heap[x]
               /\ heap[x] \notin Content \/ OfWork(x) => heap'[x] \notin Content
    <2>1. CASE Head(r.names) \in Cached
      BY <2>1, <1>2 DEF OfWork
    <2>2. CASE Head(r.names) \notin Cached
      <3>1. OfWork(x) <=> x = r.block
        BY <2>2 DEF OfWork
      <3>2. heap'[x] = IF x = r.block THEN Leaked ELSE heap[x]
        BY <2>2, <1>1, <1>2 DEF HtmlCacheTypeOK
      <3> QED BY <3>1, <3>2, Marks
    <2> QED BY <2>1, <2>2
  <1> QED BY <1>2, <1>3, <1>5, <1>6, <1>7, <1>8, <1>9, RequestStep

\* The first half of a request: the cache, or stat.
LEMMA LookupStep ==
    ASSUME Memory, NEW r \in Requests, r.step = "lookup", work.step # "answer",
           ~ r.get => ~ response[r.session].appended, Lookup(r), UNCHANGED batch
    PROVE  Memory' /\ EntriesStay({})
  <1> DEFINE n == Head(r.names)
  <1>1. HtmlCacheTypeOK /\ Filled
    BY DEF Memory
  <1>2. UNCHANGED <<disk, queue>> /\ n \in Name /\ r.session \in Session
    BY DEF Lookup, Requests
  <1>3. ASSUME n \in Cached, Hit([r EXCEPT !.block = cache[n].html_content])
        PROVE  Memory' /\ EntriesStay({})
    <2> DEFINE h == [r EXCEPT !.block = cache[n].html_content]
    <2>1. /\ h \in Requests /\ h.names = r.names /\ h.get = r.get
          /\ h.session = r.session /\ h.block = cache[n].html_content
      <3>1. cache[n].html_content \in Block
        BY <1>1, <1>3, Holdings
      <3> HIDE DEF n
      <3> QED BY <3>1 DEF Requests
    <2>2. (\E z \in Block \cup {Null} : Compressed(h, z) /\ AnswerCached(h, z)) \/ Refused(h)
      BY <1>3 DEF Hit
    <2> HIDE DEF h
    <2>3. ASSUME NEW z \in Block \cup {Null}, Compressed(h, z), AnswerCached(h, z)
          PROVE  Memory' /\ EntriesStay({})
      BY <2>1, <2>3, <1>2, <1>3, AnswerCachedStep
    <2>4. CASE Refused(h)
      BY <2>1, <2>4, <1>2, <1>3, RefusedStep
    <2> QED BY <2>2, <2>3, <2>4
  <1>4. ASSUME n \notin Cached, Stat(r)
        PROVE  Memory' /\ EntriesStay({})
    <2>1. /\ work' = [r EXCEPT !.step = "read", !.size = disk[FileOf[n]].version]
          /\ UNCHANGED <<watching, cache, heap, http_buf, response, alive>>
      BY <1>4 DEF Stat, cacheVars, sessionVars
    <2>2. disk[FileOf[n]].version \in Version
      BY <1>1, <1>2, HtmlCacheAssumption DEF HtmlCacheTypeOK
    <2>3. /\ work' \in Requests /\ work'.step = "read" /\ work'.names = r.names
          /\ work'.get = r.get /\ work'.session = r.session
      <3> DEFINE v == disk[FileOf[n]].version
      <3> HIDE DEF v, n
      <3>1. v \in Version /\ work' = [r EXCEPT !.step = "read", !.size = v]
        BY <2>1, <2>2 DEF v, n
      <3> QED BY <3>1 DEF Requests
    <2>4. HtmlCacheTypeOK'
      BY <1>1, <1>2, <2>1, <2>3 DEF HtmlCacheTypeOK, Requests
    <2>5. AtWork'
      BY <1>4, <2>1, <2>3 DEF AtWork, Cached
    <2>6. \A x \in Block : ~ OfWork(x) /\ ~ OfWork(x)'
      BY <2>3 DEF OfWork
    <2>7. \A s \in Session, x \in Block : OfSession(s, x)' <=> OfSession(s, x)
      BY <2>1 DEF OfSession, Owned
    <2> QED BY <2>1, <2>4, <2>5, <2>6, <2>7, RequestStep
  <1>5. ASSUME NotFound(r)
        PROVE  Memory' /\ EntriesStay({})
    <2>1. NextName(r) /\ UNCHANGED <<watching, cache, heap, http_buf, alive>>
      BY <1>5 DEF NotFound, cacheVars
    <2>2. /\ work' = NoWork \/ work' \in Requests
          /\ response' \in [Session -> [status : {"receiving", "ok", "error"},
                               appended : BOOLEAN, promised : Content \cup {NoContent}]]
          /\ \A s \in Session : response'[s].status # "ok" \/ response'[s] = response[s]
          /\ work'.step \in {"none", "lookup"}
          /\ work' # NoWork /\ ~ work'.get => ~ response'[work'.session].appended
      BY <1>1, <2>1, NextNameStep
    <2>3. HtmlCacheTypeOK'
      BY <1>1, <1>2, <2>1, <2>2 DEF HtmlCacheTypeOK, Requests
    <2>4. AtWork'
      BY <2>2 DEF AtWork
    <2>5. \A x \in Block : ~ OfWork(x) /\ ~ OfWork(x)'
      BY <2>2 DEF OfWork
    <2>6. \A s \in Session, x \in Block : OfSession(s, x)' <=> OfSession(s, x)
      BY <2>1 DEF OfSession, Owned
    <2> QED BY <2>1, <2>2, <2>3, <2>4, <2>5, <2>6, RequestStep
  <1> QED BY <1>3, <1>4, <1>5 DEF Lookup

\* The page is read into a free block, or the next name is tried.
LEMMA ReadFileStep ==
    ASSUME Memory, ReadFile
    PROVE  Memory' /\ EntriesStay({})
  <1>1. HtmlCacheTypeOK /\ Filled /\ AtWork
    BY DEF Memory
  <1>2. work \in Requests /\ work.step = "read" /\ UNCHANGED <<disk, watching, queue, cache,
                                                              http_buf, batch, alive>>
    BY <1>1, Holdings DEF ReadFile, NoWork, fileVars
  <1>3. /\ Head(work.names) \in Name /\ Head(work.names) \notin Cached
        /\ work.session \in Session /\ work.size \in Version
        /\ ~ work.get => ~ response[work.session].appended
    BY <1>1, <1>2, Marks DEF AtWork, Requests
  <1>4. \A x \in Block : ~ OfWork(x)
    BY <1>2 DEF OfWork
  <1>5. \A s \in Session, x \in Block : OfSession(s, x)' <=> OfSession(s, x)
    BY <1>2 DEF OfSession, Owned
  <1>6. ASSUME ReadFails(work)
        PROVE  Memory' /\ EntriesStay({})
    <2>1. NextName(work) /\ UNCHANGED heap
      BY <1>6 DEF ReadFails
    <2>2. /\ work' = NoWork \/ work' \in Requests
          /\ response' \in [Session -> [status : {"receiving", "ok", "error"},
                               appended : BOOLEAN, promised : Content \cup {NoContent}]]
          /\ \A s \in Session : response'[s].status # "ok" \/ response'[s] = response[s]
          /\ work'.step \in {"none", "lookup"}
          /\ work' # NoWork /\ ~ work'.get => ~ response'[work'.session].appended
      BY <1>1, <1>2, <1>3, <2>1, NextNameStep
    <2>3. HtmlCacheTypeOK'
      BY <1>1, <1>2, <2>1, <2>2 DEF HtmlCacheTypeOK, Requests
    <2>4. AtWork'
      BY <2>2 DEF AtWork
    <2>5. \A x \in Block : ~ OfWork(x)'
      BY <2>2 DEF OfWork
    <2> QED BY <1>2, <1>4, <1>5, <2>1, <2>2, <2>3, <2>4, <2>5, RequestStep
  <1>7. ASSUME NEW b \in Block, ReadOk(work, b)
        PROVE  Memory' /\ EntriesStay({})
    <2> DEFINE n == Head(work.names)
               c == [name |-> n, gzip |-> FALSE, size |-> work.size,
                     text |-> disk[FileOf[n]].version]
    <2>1. /\ heap[b] = NoContent /\ heap' = [heap EXCEPT ![b] = c] /\ UNCHANGED response
          /\ work' = [work EXCEPT !.step = "answer", !.block = b]
      BY <1>7 DEF ReadOk, Free
    <2>2. c \in Content /\ c.name = n
      BY <1>1, <1>3, HtmlCacheAssumption DEF Content, HtmlCacheTypeOK
    <2>3. /\ work' \in Requests /\ work'.step = "answer" /\ work'.block = b
          /\ work'.names = work.names /\ work'.get = work.get /\ work'.session = work.session
      BY <1>2, <2>1 DEF Requests
    <2> HIDE DEF c
    <2>4. /\ heap' \in [Block -> Content \cup {NoContent, Leaked}]
          /\ \A x \in Block : heap'[x] = IF x = b THEN c ELSE heap[x]
      BY <1>1, <2>1, <2>2 DEF HtmlCacheTypeOK
    <2>5. HtmlCacheTypeOK'
      BY <1>1, <1>2, <2>1, <2>3, <2>4 DEF HtmlCacheTypeOK, Requests
    <2>6. AtWork'
      BY <1>2, <1>3, <2>1, <2>2, <2>3, <2>4 DEF AtWork, Cached
    <2>7. \A x \in Block : OfWork(x)' <=> x = b
      BY <2>3 DEF OfWork
    <2> QED BY <1>2, <1>4, <1>5, <2>1, <2>2, <2>4, <2>5, <2>6, <2>7, Marks, RequestStep
  <1> QED BY <1>6, <1>7 DEF ReadFile

\* The second half of a request.
LEMMA AnswerStep ==
    ASSUME Memory, Answer
    PROVE  /\ Memory'
           /\ \/ EntriesStay({}) /\ UNCHANGED watching
              \/ \E z \in Block \cup {Null}, w \in Wd :
                    /\ AnswerAndKeep(work, z, w) /\ EntriesStay({Head(work.names)})
                    /\ heap'[work.block] = heap[work.block]
  <1>1. /\ HtmlCacheTypeOK /\ AtWork /\ work.step = "answer"
        /\ UNCHANGED <<disk, queue, batch>>
    BY DEF Memory, Answer
  <1>2. /\ work \in Requests /\ work.session \in Session /\ Head(work.names) \notin Cached
        /\ ~ work.get => ~ response[work.session].appended
    BY <1>1, Marks, Holdings DEF AtWork, NoWork, Requests
  <1>3. ASSUME NEW z \in Block \cup {Null}, Compressed(work, z), AnswerBig(work, z)
        PROVE  Memory' /\ EntriesStay({}) /\ UNCHANGED watching
    BY <1>1, <1>3, AnswerDroppedStep DEF AnswerBig
  <1>4. ASSUME NEW z \in Block \cup {Null}, Compressed(work, z), WatchFails(work, z)
        PROVE  Memory' /\ EntriesStay({}) /\ UNCHANGED watching
    <2>1. CASE Len(work.names) > 1
      <3>1. /\ work' = Req(work.session, Tail(work.names), work.get, work.gzip)
            /\ Answered(work, z, "receiving")
        BY <1>4, <2>1 DEF WatchFails
      <3>2. /\ work' = NoWork \/ work' \in Requests
            /\ work'.step = "lookup"
            /\ work'.session = work.session /\ work'.get = work.get
        <4>1. Tail(work.names) \in Seq(Name) \ {<<>>} /\ 0 \in Version
          BY <1>2, <2>1, RestOfNames
        <4> QED BY <1>2, <3>1, <4>1 DEF Req, Requests
      <3> QED BY <1>1, <1>4, <3>1, <3>2, AnswerDroppedStep DEF WatchFails
    <2>2. CASE ~ (Len(work.names) > 1)
      BY <1>1, <1>4, <2>2, AnswerDroppedStep DEF WatchFails
    <2> QED BY <2>1, <2>2
  <1>5. ASSUME NEW z \in Block \cup {Null}, NEW w \in Wd, Compressed(work, z),
               AnswerAndKeep(work, z, w)
        PROVE  /\ Memory' /\ EntriesStay({Head(work.names)})
               /\ heap'[work.block] = heap[work.block]
    BY <1>1, <1>5, AnswerAndKeepStep
  <1>6. ASSUME Refused(work)
        PROVE  Memory' /\ EntriesStay({}) /\ UNCHANGED watching
    BY <1>1, <1>2, <1>6, RefusedStep DEF Refused
  <1>7. ASSUME KeepFails(work)
        PROVE  Memory' /\ EntriesStay({}) /\ UNCHANGED watching
    <2>1. /\ alive' = FALSE /\ UNCHANGED <<watching, cacheVars, sessionVars, work>>
          /\ UNCHANGED <<cache, heap, http_buf, response>>
      BY <1>7 DEF KeepFails, cacheVars, sessionVars
    <2>2. HtmlCacheTypeOK'
      BY <1>1, <2>1 DEF HtmlCacheTypeOK
    <2> QED BY <2>1, <2>2, AroundStep
  <1> QED BY <1>3, <1>4, <1>5, <1>6, <1>7 DEF Answer

\* A response ends: a copy stays with the session, a reference is forgotten.
LEMMA ResponseEndsStep ==
    ASSUME Memory, NEW s \in Session, ResponseEnds(s)
    PROVE  Memory' /\ EntriesStay({})
  <1> DEFINE b == [base |-> IF http_buf[s].ref_flag THEN Null ELSE http_buf[s].base,
                   ref_flag |-> http_buf[s].ref_flag]
  <1>1. HtmlCacheTypeOK /\ Filled
    BY DEF Memory
  <1>2. /\ work = NoWork /\ work' = NoWork
        /\ UNCHANGED <<disk, watching, queue, cache, heap, batch, alive>>
        /\ response' = [response EXCEPT ![s] = Receiving]
    BY DEF ResponseEnds, Idle, fileVars, cacheVars
  <1>3. /\ b \in [base : Block \cup {Null}, ref_flag : BOOLEAN]
        /\ b.base = (IF http_buf[s].ref_flag THEN Null ELSE http_buf[s].base)
        /\ b.ref_flag = http_buf[s].ref_flag
    BY <1>1 DEF HtmlCacheTypeOK
  <1>4. http_buf' = [http_buf EXCEPT ![s] = b]
    <2>1. http_buf' = [http_buf EXCEPT ![s].base = b.base]
      BY <1>3 DEF ResponseEnds
    <2>2. [http_buf[s] EXCEPT !.base = b.base] = b
      BY <1>1 DEF HtmlCacheTypeOK
    <2> HIDE DEF b
    <2> QED BY <2>1, <2>2
  <1> HIDE DEF b
  <1>5. /\ Receiving \in [status : {"receiving", "ok", "error"}, appended : BOOLEAN,
                          promised : Content \cup {NoContent}]
        /\ Receiving.status = "receiving"
    BY DEF Receiving
  <1>6. /\ http_buf' \in [Session -> [base : Block \cup {Null}, ref_flag : BOOLEAN]]
        /\ \A t \in Session : http_buf'[t] = IF t = s THEN b ELSE http_buf[t]
    BY <1>1, <1>3, <1>4 DEF HtmlCacheTypeOK
  <1>7. /\ response' \in [Session -> [status : {"receiving", "ok", "error"},
                             appended : BOOLEAN, promised : Content \cup {NoContent}]]
        /\ \A t \in Session : response'[t] = IF t = s THEN Receiving ELSE response[t]
    BY <1>1, <1>2, <1>5 DEF HtmlCacheTypeOK
  <1>8. HtmlCacheTypeOK'
    BY <1>1, <1>2, <1>6, <1>7 DEF HtmlCacheTypeOK
  <1>9. AtWork'
    BY <1>2, <1>8, Marks DEF AtWork, NoWork
  <1>10. \A x \in Block : ~ OfWork(x) /\ ~ OfWork(x)'
    BY <1>2 DEF OfWork, NoWork
  <1>11. \A t \in Session, x \in Block : OfSession(t, x)' <=> OfSession(t, x)
    BY <1>1, <1>3, <1>6, <1>8, Holdings, HoldingsNext
  <1>12. \A t \in Session : \/ response'[t].status # "ok"
                            \/ response'[t] = response[t] /\ http_buf'[t] = http_buf[t]
    BY <1>5, <1>6, <1>7
  <1> QED BY <1>2, <1>8, <1>9, <1>10, <1>11, <1>12, RequestStep

-----------------------------------------------------------------------------
(* Watches: inotify_add_watch gives a file the watch that it has.          *)

OneWatch ==
    \A v, w \in Wd : watching[v] = watching[w] /\ watching[v] \in File => v = w

\* A file has one watch or none.
LEMMA WatchOfFile ==
    ASSUME HtmlCacheTypeOK, OneWatch, NEW f \in File
    PROVE  \/ Watched(f) = {} /\ SetToSeq(Watched(f)) = << >>
           \/ \E w \in Wd : Watched(f) = {w} /\ SetToSeq(Watched(f)) = <<w>>
  <1>1. CASE Watched(f) = {}
    BY <1>1, SingleAsSequence
  <1>2. CASE Watched(f) # {}
    <2>1. PICK w \in Wd : watching[w] = f
      BY <1>2 DEF Watched
    <2>2. Watched(f) = {w}
      BY <2>1 DEF Watched, OneWatch
    <2> QED BY <2>2, SingleAsSequence
  <1> QED BY <1>1, <1>2

\* The events that a change of a file puts on the queue.
LEMMA EventsOfFile ==
    ASSUME HtmlCacheTypeOK, OneWatch, NEW f \in File
    PROVE  /\ SetToSeq(Watched(f)) \in Seq(Wd)
           /\ Watched(f) # {} => (CHOOSE w \in Watched(f) : TRUE) \in Wd
           /\ \A q \in Seq(Wd), w \in Wd : Notify(q, w) \in Seq(Wd)
  <1>1. SetToSeq(Watched(f)) \in Seq(Wd)
    <2>1. <<>> \in Seq(Wd) /\ \A w \in Wd : <<w>> \in Seq(Wd)
      OBVIOUS
    <2>2. \/ SetToSeq(Watched(f)) = << >>
          \/ \E w \in Wd : SetToSeq(Watched(f)) = <<w>>
      BY WatchOfFile
    <2> QED BY ONLY <2>1, <2>2
  <1>2. Watched(f) # {} => (CHOOSE w \in Watched(f) : TRUE) \in Wd
    BY DEF Watched
  <1> QED BY <1>1, <1>2 DEF Notify

\* The files change.
LEMMA FileChangesStep ==
    ASSUME Memory, OneWatch, FileChanges
    PROVE  Memory' /\ OneWatch'
  <1>1. HtmlCacheTypeOK /\ UNCHANGED <<cacheVars, sessionVars, batch, work, alive>>
    BY DEF Memory, FileChanges
  <1>2. PICK f \in File : Modify(f) \/ Replace(f) \/ MoveAway(f)
    BY DEF FileChanges
  <1>3. Changes(f) => disk' \in [File -> [version : Version, there : BOOLEAN]]
    <2> SUFFICES ASSUME Changes(f)
                 PROVE  disk' \in [File -> [version : Version, there : BOOLEAN]]
      OBVIOUS
    <2> DEFINE v == disk[f].version + 1
               d == [version |-> v, there |-> TRUE]
    <2>1. disk' = [disk EXCEPT ![f] = d] /\ disk[f].version < MaxVersion[f]
      BY DEF Changes
    <2>2. disk[f].version \in Nat /\ MaxVersion[f] \in Nat
      BY <1>1, HtmlCacheAssumption DEF HtmlCacheTypeOK, Version
    <2>3. v \in 0 .. MaxVersion[f]
      BY <2>1, <2>2
    <2>4. v \in Version
      BY <2>3 DEF Version
    <2>5. d \in [version : Version, there : BOOLEAN]
      BY <2>4
    <2> HIDE DEF d
    <2> QED BY <1>1, <2>1, <2>5 DEF HtmlCacheTypeOK
  <1>4. CASE Modify(f)
    <2>1. queue' \in Seq(Wd)
      <3>1. CASE Watched(f) = {}
        BY <1>1, <1>4, <3>1 DEF Modify, HtmlCacheTypeOK
      <3>2. CASE Watched(f) # {}
        BY <1>1, <1>4, <3>2, EventsOfFile DEF Modify, HtmlCacheTypeOK
      <3> QED BY <3>1, <3>2
    <2>2. HtmlCacheTypeOK'
      BY <1>1, <1>3, <1>4, <2>1 DEF Modify, HtmlCacheTypeOK, cacheVars, sessionVars
    <2>3. OneWatch'
      BY <1>4 DEF Modify, OneWatch
    <2> QED BY <1>1, <2>2, <2>3, AroundStep
  <1>5. CASE Replace(f)
    <2>1. queue' \in Seq(Wd)
      BY <1>1, <1>5, EventsOfFile DEF Replace, HtmlCacheTypeOK
    <2>2. /\ watching' \in [Wd -> File \cup {"away", "nothing"}]
          /\ OneWatch'
      BY <1>1, <1>5, HtmlCacheAssumption DEF Replace, HtmlCacheTypeOK, OneWatch
    <2>3. HtmlCacheTypeOK'
      BY <1>1, <1>3, <1>5, <2>1, <2>2 DEF Replace, HtmlCacheTypeOK, cacheVars, sessionVars
    <2> QED BY <1>1, <2>2, <2>3, AroundStep
  <1>6. CASE MoveAway(f)
    <2>1. queue' \in Seq(Wd)
      BY <1>1, <1>6, EventsOfFile DEF MoveAway, HtmlCacheTypeOK
    <2>2. /\ watching' \in [Wd -> File \cup {"away", "nothing"}]
          /\ OneWatch'
      BY <1>1, <1>6, HtmlCacheAssumption DEF MoveAway, HtmlCacheTypeOK, OneWatch
    <2>3. disk' \in [File -> [version : Version, there : BOOLEAN]]
      <3> DEFINE d == [disk[f] EXCEPT !.there = FALSE]
      <3>1. d \in [version : Version, there : BOOLEAN]
        <4>1. disk[f] \in [version : Version, there : BOOLEAN]
          BY <1>1 DEF HtmlCacheTypeOK
        <4> QED BY ONLY <4>1
      <3>2. disk' = [disk EXCEPT ![f] = d]
        BY <1>6 DEF MoveAway
      <3> HIDE DEF d
      <3> QED BY <1>1, <3>1, <3>2 DEF HtmlCacheTypeOK
    <2>4. HtmlCacheTypeOK'
      BY <1>1, <2>1, <2>2, <2>3 DEF HtmlCacheTypeOK, cacheVars, sessionVars
    <2> QED BY <1>1, <2>2, <2>4, AroundStep
  <1> QED BY <1>2, <1>4, <1>5, <1>6

\* An entry is dropped: the responses that point into it get copies of their own.
LEMMA EvictStep ==
    ASSUME Memory, NEW n \in Cached, Evict(n), batch # <<>>, UNCHANGED <<disk, work>>
    PROVE  Memory' /\ (OneWatch => OneWatch') /\ EntriesStay({}) /\ n \notin Cached'
  <1>1. HtmlCacheTypeOK /\ Apart /\ Filled /\ GzipOfContent /\ AtWork /\ Promised
    BY DEF Memory
  <1>2. PICK copy \in [Affected(n) -> Free] :
            /\ IsInjective(copy)
            /\ ReallocHttpSessionChanged(n, copy)
            /\ heap' = [b \in Block |->
                 IF b \in Contents(n) THEN NoContent
                 ELSE IF \E s \in Affected(n) : copy[s] = b
                 THEN heap[http_buf[CHOOSE s \in Affected(n) : copy[s] = b].base]
                 ELSE heap[b]]
    BY DEF Evict
  <1>3. /\ cache' = [cache EXCEPT ![n] = NoEntry]
        /\ RemoveWatch(cache[n].wd)
        /\ batch' = Tail(batch) /\ UNCHANGED <<response, alive>>
    BY DEF Evict
  <1>4. /\ n \in Name /\ cache[n] \in Entry /\ cache[n].wd \in Wd
        /\ \A x \in Block : OfEntry(n, x) <=> x \in Contents(n)
        /\ Contents(n) \subseteq Block
    BY <1>1, Holdings DEF OfEntry, Contents
  <1>5. \A s \in Affected(n) :
            /\ s \in Session /\ response[s].appended
            /\ http_buf[s].base \in Block /\ OfEntry(n, http_buf[s].base)
            /\ copy[s] \in Block /\ heap[copy[s]] = NoContent
    BY <1>1, <1>2, <1>4, Holdings DEF Affected
  <1>6. \A s, t \in Affected(n) : copy[s] = copy[t] => s = t
    BY <1>2 DEF IsInjective
  <1>7. /\ http_buf' \in [Session -> [base : Block \cup {Null}, ref_flag : BOOLEAN]]
        /\ \A s \in Session : s \notin Affected(n) => http_buf'[s] = http_buf[s]
        /\ \A s \in Affected(n) : http_buf'[s].base = copy[s] /\ ~ http_buf'[s].ref_flag
    <2>1. DOMAIN copy = Affected(n)
      BY <1>2
    <2>2. http_buf' = [s \in Session |-> IF s \in Affected(n)
                                         THEN [base |-> copy[s], ref_flag |-> FALSE]
                                         ELSE http_buf[s]]
      BY <1>2, <2>1 DEF ReallocHttpSessionChanged
    <2> QED BY <1>1, <1>5, <2>2 DEF HtmlCacheTypeOK
  <1>8. \A x \in Block :
            /\ OfEntry(n, x) => heap'[x] = NoContent
            /\ ~ OfEntry(n, x) /\ (\A s \in Affected(n) : copy[s] # x) => heap'[x] = heap[x]
    BY <1>2, <1>4
  <1>9. \A x \in Block : HasOwner(x) <=> heap[x] \in Content
    BY <1>1 DEF Filled
  <1>10. ASSUME NEW s \in Affected(n)
         PROVE  heap'[copy[s]] = heap[http_buf[s].base] /\ heap'[copy[s]] \in Content
    <2>1. copy[s] \in Block /\ copy[s] \notin Contents(n)
      BY <1>4, <1>5, <1>9, Marks DEF HasOwner
    <2>2. (CHOOSE t \in Affected(n) : copy[t] = copy[s]) = s
      BY <1>6
    <2>3. heap'[copy[s]] = heap[http_buf[s].base]
      BY <1>2, <2>1, <2>2
    <2> QED BY <1>4, <1>5, <1>9, <2>3 DEF HasOwner
  <1>11. heap' \in [Block -> Content \cup {NoContent, Leaked}]
    <2>1. \A x \in Block : heap'[x] \in Content \cup {NoContent, Leaked}
      BY <1>1, <1>8, <1>10 DEF HtmlCacheTypeOK
    <2> QED BY <1>2, <2>1
  <1>12. /\ cache' \in [Name -> Entry \cup {NoEntry}]
         /\ \A m \in Name : cache'[m] = IF m = n THEN NoEntry ELSE cache[m]
    BY <1>1, <1>3, <1>4 DEF HtmlCacheTypeOK
  <1>13. /\ watching' \in [Wd -> File \cup {"away", "nothing"}]
         /\ \A w \in Wd : watching'[w] = IF w = cache[n].wd THEN "nothing" ELSE watching[w]
         /\ queue' \in Seq(Wd)
    BY <1>1, <1>3, <1>4 DEF RemoveWatch, HtmlCacheTypeOK
  <1>14. batch' \in Seq(Wd)
    BY <1>1, <1>3 DEF HtmlCacheTypeOK
  <1>15. HtmlCacheTypeOK'
    BY <1>1, <1>3, <1>7, <1>11, <1>12, <1>13, <1>14 DEF HtmlCacheTypeOK
  <1>16. OneWatch => OneWatch'
    BY <1>13, HtmlCacheAssumption DEF OneWatch
  <1>17. \A m \in Name : m \in Cached' <=> m \in Cached /\ m # n
    BY <1>12 DEF Cached
  <1>18. \A m \in Name, x \in Block : OfEntry(m, x)' <=> m # n /\ OfEntry(m, x)
    BY <1>1, <1>12, <1>15, <1>17, Holdings, HoldingsNext
  <1>19. \A s \in Session, x \in Block : OfSession(s, x)' <=>
             IF s \in Affected(n) THEN x = copy[s] ELSE OfSession(s, x)
    BY <1>1, <1>7, <1>15, Holdings, HoldingsNext
  <1>20. \A x \in Block : OfWork(x)' <=> OfWork(x)
    BY DEF OfWork
  <1>21. \A x \in Block, s \in Affected(n) : x = copy[s] =>
             /\ \A m \in Name : ~ OfEntry(m, x)
             /\ \A t \in Session : ~ OfSession(t, x)
             /\ ~ OfWork(x)
    BY <1>5, <1>9, Marks DEF HasOwner
  <1>22. Apart'
    BY <1>1, <1>6, <1>18, <1>19, <1>20, <1>21 DEF Apart
  <1>23. \A s \in Affected(n), x \in Block : ~ OfSession(s, x)
    <2> SUFFICES ASSUME NEW s \in Affected(n), NEW x \in Block, OfSession(s, x) PROVE FALSE
      OBVIOUS
    <2>1. http_buf[s].base = x /\ s \in Session
      BY <1>1, <1>5, Holdings
    <2> QED BY <1>1, <1>4, <1>5, <2>1 DEF Apart
  <1>24. \A x \in Block : HasOwner(x)' <=>
             (HasOwner(x) /\ ~ OfEntry(n, x)) \/ \E s \in Affected(n) : x = copy[s]
    <2> SUFFICES ASSUME NEW x \in Block
                 PROVE  HasOwner(x)' <=>
                            (HasOwner(x) /\ ~ OfEntry(n, x))
                            \/ \E s \in Affected(n) : x = copy[s]
      OBVIOUS
    <2>1. CASE \E s \in Affected(n) : x = copy[s]
      BY <2>1, <1>5, <1>19 DEF HasOwner
    <2>2. CASE ~ \E s \in Affected(n) : x = copy[s]
      <3>1. HasOwner(x)' <=> \/ \E m \in Name : m # n /\ OfEntry(m, x)
                             \/ \E s \in Session : OfSession(s, x)
                             \/ OfWork(x)
        BY <2>2, <1>18, <1>19, <1>20, <1>23 DEF HasOwner
      <3> QED BY <2>2, <3>1, <1>1, <1>4 DEF HasOwner, Apart
    <2> QED BY <2>1, <2>2
  <1>25. Filled'
    <2> SUFFICES ASSUME NEW x \in Block
                 PROVE  heap'[x] \in Content <=> HasOwner(x)'
      BY DEF Filled
    <2>1. CASE \E s \in Affected(n) : x = copy[s]
      BY <2>1, <1>10, <1>24
    <2>2. CASE ~ \E s \in Affected(n) : x = copy[s]
      BY <2>2, <1>8, <1>9, <1>24, Marks
    <2> QED BY <2>1, <2>2
  <1>26. \A x \in Block : HasOwner(x) /\ ~ OfEntry(n, x) => heap'[x] = heap[x]
    BY <1>5, <1>8, <1>9, Marks
  <1>27. GzipOfContent'
    <2>1. \A m \in Name, x \in Block : OfEntry(m, x) /\ m \in Cached' => heap'[x] = heap[x]
      BY <1>1, <1>4, <1>17, <1>26 DEF Apart, HasOwner
    <2> QED BY <1>1, <1>12, <1>17, <2>1, EntriesKept
  <1>28. AtWork'
    <2>1. work.step = "answer" => heap'[work.block] = heap[work.block]
      <3>1. work.step = "answer" => OfWork(work.block) /\ work.block \in Block
        BY <1>1 DEF AtWork, OfWork
      <3> QED BY <1>1, <1>4, <1>26, <3>1 DEF Apart, HasOwner
    <2>2. \A m : m \in Cached' => m \in Cached
      BY <1>17 DEF Cached
    <2> QED BY <1>1, <1>3, <2>1, <2>2 DEF AtWork
  <1>29. Promised'
    <2> SUFFICES ASSUME NEW s \in Session PROVE PromisedTo(s)'
      BY DEF Promised
    <2>1. CASE s \in Affected(n)
      BY <2>1, <1>1, <1>3, <1>5, <1>7, <1>10, <1>19 DEF Promised, PromisedTo
    <2>2. CASE s \notin Affected(n)
      <3> SUFFICES ASSUME response[s].status = "ok" /\ response[s].appended,
                          FileOf[response[s].promised.name] \notin Big
                   PROVE  /\ response[s].promised \in Content
                          /\ http_buf[s].base \in Block
                          /\ heap'[http_buf[s].base] = response[s].promised
                          /\ \/ OfSession(s, http_buf[s].base)
                             \/ \E m \in Name : m # n /\ OfEntry(m, http_buf[s].base)
        BY <2>2, <1>3, <1>7, <1>18, <1>19 DEF PromisedTo
      <3>1. /\ response[s].promised \in Content
            /\ http_buf[s].base \in Block
            /\ heap[http_buf[s].base] = response[s].promised
            /\ \/ OfSession(s, http_buf[s].base)
               \/ \E m \in Name : OfEntry(m, http_buf[s].base)
        BY <1>1 DEF Promised, PromisedTo
      <3>2. ~ OfEntry(n, http_buf[s].base)
        BY <2>2, <1>4, <3>1 DEF Affected
      <3> QED BY <3>1, <3>2, <1>26 DEF HasOwner
    <2> QED BY <2>1, <2>2
  <1>30. EntriesStay({})
    <2> SUFFICES ASSUME NEW m \in Cached, m # n
                 PROVE  /\ cache'[m] = cache[m]
                        /\ heap'[cache[m].html_content] = heap[cache[m].html_content]
      BY <1>17 DEF EntriesStay, Cached
    <2>1. /\ m \in Name /\ cache[m].html_content \in Block
          /\ OfEntry(m, cache[m].html_content)
      BY <1>1, Holdings
    <2>2. HasOwner(cache[m].html_content) /\ ~ OfEntry(n, cache[m].html_content)
      BY <1>1, <1>4, <2>1 DEF Apart, HasOwner
    <2> QED BY <1>12, <1>26, <2>1, <2>2
  <1>31. n \notin Cached'
    BY <1>4, <1>17
  <1> QED BY <1>30, <1>31, <1>15, <1>16, <1>22, <1>25, <1>27, <1>28, <1>29 DEF Memory

-----------------------------------------------------------------------------
(* Every step.                                                             *)

\* The batch of events is read, or dropped up to where the worker returns.
LEMMA EventsStep ==
    ASSUME Memory, OneWatch, ReadEvents \/ HtmlCacheEventHander
    PROVE  Memory' /\ OneWatch'
  <1>1. HtmlCacheTypeOK
    BY DEF Memory
  <1>2. CASE ReadEvents
    <2>1. /\ batch' = queue /\ queue' = <<>>
          /\ UNCHANGED <<disk, watching, cacheVars, sessionVars, work, alive>>
          /\ UNCHANGED <<cache, heap, http_buf, response>>
      BY <1>2 DEF ReadEvents, cacheVars, sessionVars
    <2>2. HtmlCacheTypeOK'
      BY <1>1, <2>1 DEF HtmlCacheTypeOK
    <2> QED BY <2>1, <2>2, AroundStep DEF OneWatch
  <1>3. CASE HtmlCacheEventHander
    <2>1. batch # <<>> /\ UNCHANGED <<disk, work>>
      BY <1>3 DEF HtmlCacheEventHander
    <2>2. ASSUME NEW n \in Matching(Head(batch)), Evict(n) PROVE Memory' /\ OneWatch'
      BY <2>1, <2>2, EvictStep DEF Matching
    <2>3. ASSUME NEW n \in Matching(Head(batch)), DuplicateFails(n) PROVE Memory' /\ OneWatch'
      <3>1. /\ alive' = FALSE /\ UNCHANGED <<watching, queue, cacheVars, sessionVars, batch>>
            /\ UNCHANGED <<cache, heap, http_buf, response>>
        BY <2>3 DEF DuplicateFails, cacheVars, sessionVars
      <3>2. HtmlCacheTypeOK'
        BY <1>1, <2>1, <3>1 DEF HtmlCacheTypeOK
      <3> QED BY <2>1, <3>1, <3>2, AroundStep DEF OneWatch
    <2>4. ASSUME batch' = Tail(batch),
                 UNCHANGED <<watching, queue, cacheVars, sessionVars, alive>>
          PROVE  Memory' /\ OneWatch'
      <3>1. UNCHANGED <<cache, heap, http_buf, response>> /\ batch' \in Seq(Wd)
        BY <1>1, <2>1, <2>4 DEF cacheVars, sessionVars, HtmlCacheTypeOK
      <3>2. HtmlCacheTypeOK'
        BY <1>1, <2>1, <2>4, <3>1 DEF HtmlCacheTypeOK
      <3> QED BY <2>1, <2>4, <3>2, AroundStep DEF OneWatch
    <2> QED BY <1>3, <2>2, <2>3, <2>4 DEF HtmlCacheEventHander
  <1> QED BY <1>2, <1>3

\* Adding a watch leaves every file with one at most.
LEMMA AddWatchStep ==
    ASSUME HtmlCacheTypeOK, OneWatch, NEW r \in Requests, NEW z, NEW w \in Wd,
           AnswerAndKeep(r, z, w)
    PROVE  OneWatch'
  <1>1. FileOf[Head(r.names)] \in File
    BY HtmlCacheAssumption DEF Requests
  <1>2. PICK f \in File : AddWatch(f, w) /\ watching' = [watching EXCEPT ![w] = f]
    BY <1>1 DEF AnswerAndKeep
  <1>3. \A v \in Wd : watching'[v] = IF v = w THEN f ELSE watching[v]
    BY <1>2 DEF HtmlCacheTypeOK
  <1>4. \A v \in Wd : watching[v] = f => v = w
    BY <1>2 DEF AddWatch, Watched, OneWatch
  <1> QED BY <1>3, <1>4 DEF OneWatch

\* What a client asks for, as a request.
LEMMA AskedFor ==
    ASSUME NEW s \in Session, NEW names \in Requested, NEW get \in BOOLEAN, NEW gzip \in BOOLEAN
    PROVE  /\ Req(s, names, get, gzip) \in Requests
           /\ Req(s, names, get, gzip).step = "lookup"
           /\ Req(s, names, get, gzip).session = s
  <1>1. names \in Seq(Name) \ {<<>>}
    BY HtmlCacheAssumption
  <1>2. Head(names) \in Name
    BY <1>1
  <1>3. PICK f \in File : 0 \in 0 .. MaxVersion[f]
    BY <1>2, HtmlCacheAssumption
  <1>4. 0 \in Version
    BY <1>3 DEF Version
  <1> QED BY <1>1, <1>4 DEF Req, Requests

\* The first half of a request leaves the files, the watches and the events.
LEMMA LookupLeaves ==
    ASSUME NEW r, Lookup(r)
    PROVE  UNCHANGED <<disk, watching, queue, batch>>
  BY DEF Lookup, Hit, AnswerCached, Refused, Stat, NotFound

\* A request and a response, with the watches.
LEMMA RequestsStep ==
    ASSUME Memory, OneWatch,
           \/ \E s \in Session : Request(s) \/ ResponseEnds(s)
           \/ NextIndex \/ ReadFile \/ Answer
    PROVE  Memory' /\ OneWatch'
  <1>1. HtmlCacheTypeOK /\ AtWork
    BY DEF Memory
  <1>3. ASSUME NEW s \in Session, Request(s) PROVE Memory' /\ OneWatch'
    <2>1. PICK names \in Requested, get \in BOOLEAN, gzip \in BOOLEAN :
              Lookup(Req(s, names, get, gzip))
      BY <1>3 DEF Request
    <2>2. PICK r : r = Req(s, names, get, gzip)
      OBVIOUS
    <2>5. r \in Requests /\ r.step = "lookup" /\ r.session = s
      BY <2>2, AskedFor
    <2>6. /\ ~ response[r.session].appended /\ work.step # "answer"
          /\ UNCHANGED batch
      BY <1>3, <2>5 DEF Request, Idle, Receiving, NoWork, Lookup
    <2> QED BY <2>1, <2>2, <2>5, <2>6, LookupStep, LookupLeaves DEF OneWatch
  <1>4. ASSUME NEW s \in Session, ResponseEnds(s) PROVE Memory' /\ OneWatch'
    BY <1>4, ResponseEndsStep DEF OneWatch, ResponseEnds, fileVars
  <1>5. CASE NextIndex
    <2>1. work.step = "lookup" /\ Lookup(work) /\ UNCHANGED batch
      BY <1>5 DEF NextIndex, Lookup
    <2>2. work \in Requests
      BY <1>1, <2>1, Holdings DEF NoWork
    <2>3. ~ work.get => ~ response[work.session].appended
      BY <1>1, <2>2, Marks DEF AtWork
    <2> QED BY <2>1, <2>2, <2>3, LookupStep, LookupLeaves DEF OneWatch
  <1>6. CASE ReadFile
    BY <1>6, ReadFileStep DEF OneWatch, ReadFile, fileVars
  <1>7. CASE Answer
    <2>1. work \in Requests
      BY <1>1, <1>7, Holdings DEF Answer, NoWork
    <2>2. OneWatch' \/ UNCHANGED watching
      BY <1>1, <1>7, <2>1, AddWatchStep
         DEF Answer, AnswerBig, WatchFails, Refused, KeepFails
    <2> QED BY <1>7, <2>2, AnswerStep DEF OneWatch
  <1> QED BY <1>3, <1>4, <1>5, <1>6, <1>7

\* Nothing is cached and nothing watched at first.
LEMMA MemoryInit ==
    ASSUME Init
    PROVE  Memory /\ OneWatch
  <1>1. disk \in [File -> [version : Version, there : BOOLEAN]]
    <2>1. \A f \in File : 0 \in 0 .. MaxVersion[f]
      BY HtmlCacheAssumption
    <2>2. \A f \in File : 0 \in Version
      BY <2>1 DEF Version
    <2> QED BY <2>2 DEF Init
  <1>2. HtmlCacheTypeOK
    BY <1>1 DEF Init, HtmlCacheTypeOK, Receiving
  <1>3. Cached = {} /\ work.step = "none" /\ work = NoWork
    BY DEF Init, Cached, NoWork
  <1>4. \A x \in Block : /\ \A n \in Name : ~ OfEntry(n, x)
                         /\ \A s \in Session : ~ OfSession(s, x)
                         /\ ~ OfWork(x) /\ heap[x] = NoContent
    BY <1>3 DEF OfEntry, OfSession, Owned, OfWork, Init
  <1>5. Apart /\ Filled
    BY <1>4, Marks DEF Apart, Filled, HasOwner
  <1>6. GzipOfContent /\ AtWork
    BY <1>3 DEF GzipOfContent, AtWork
  <1>7. Promised
    BY DEF Promised, PromisedTo, Init, Receiving
  <1>8. OneWatch
    BY HtmlCacheAssumption DEF OneWatch, Init
  <1> QED BY <1>2, <1>5, <1>6, <1>7, <1>8 DEF Memory

\* The inductive invariant holds in every state.
LEMMA MemoryAlways == Spec => [](Memory /\ OneWatch)
  <1>1. Init => Memory /\ OneWatch
    BY MemoryInit
  <1>2. Memory /\ OneWatch /\ [Next]_vars => (Memory /\ OneWatch)'
    <2> SUFFICES ASSUME Memory, OneWatch, [Next]_vars PROVE Memory' /\ OneWatch'
      OBVIOUS
    <2>1. CASE Next
      BY <2>1, FileChangesStep, RequestsStep, EventsStep DEF Next
    <2>2. CASE UNCHANGED vars
      <3>1. /\ UNCHANGED <<cacheVars, sessionVars, work>>
            /\ UNCHANGED <<disk, watching, queue, cache, heap, http_buf, response, batch,
                           work, alive>>
        BY <2>2 DEF vars, fileVars, cacheVars, sessionVars
      <3>2. HtmlCacheTypeOK'
        BY <3>1 DEF Memory, HtmlCacheTypeOK
      <3> QED BY <3>1, <3>2, AroundStep DEF OneWatch
    <2> QED BY <2>1, <2>2
  <1> QED BY <1>1, <1>2, PTL DEF Spec

\* The variables keep their types, whatever fails: above all, an event is always
\* that of a watch descriptor, an entry's content is in memory and the block of a
\* page that was read is in the hands of the request.
THEOREM HtmlCacheTypes == Spec => []HtmlCacheTypeOK
  BY MemoryAlways, PTL DEF Memory

\* No content is freed twice, used after it was freed or forgotten: each block has
\* one owner, be it an entry, a session's copy or the request that read it, through
\* hits, evictions, failures and HEAD requests (FreeHtmlCacheSession,
\* SetHttpBufferPtr, ReallocHttpSessionChanged).
THEOREM EveryBlockHasOneOwner == Spec => []OneOwner
  <1>1. ASSUME Memory PROVE OneOwner
    <2>1. HtmlCacheTypeOK /\ Apart /\ Filled
      BY <1>1 DEF Memory
    <2> SUFFICES ASSUME NEW b \in Block
                 PROVE  Cardinality(Owners(b)) = IF heap[b] \in {NoContent, Leaked}
                                                 THEN 0 ELSE 1
      BY DEF OneOwner
    <2>2. heap[b] \in {NoContent, Leaked} <=> ~ HasOwner(b)
      BY <2>1, Marks DEF Filled, HtmlCacheTypeOK
    <2>3. \A o : o \in Owners(b) <=> \/ o \in Name /\ OfEntry(o, b)
                                     \/ o \in Session /\ OfSession(o, b)
                                     \/ o = work /\ OfWork(b)
      BY DEF Owners, OfEntry, OfSession, OfWork, Cached
    <2>4. CASE ~ HasOwner(b)
      <3>1. Owners(b) = {}
        BY <2>3, <2>4 DEF HasOwner
      <3> QED BY <2>2, <2>4, <3>1, FS_EmptySet
    <2>5. CASE HasOwner(b)
      <3>1. \E o : Owners(b) = {o}
        <4>1. ASSUME NEW n \in Name, OfEntry(n, b) PROVE Owners(b) = {n}
          BY <2>1, <2>3, <4>1 DEF Apart
        <4>2. ASSUME NEW s \in Session, OfSession(s, b) PROVE Owners(b) = {s}
          BY <2>1, <2>3, <4>2 DEF Apart
        <4>3. ASSUME OfWork(b) PROVE Owners(b) = {work}
          <5>1. \A o : o \in Owners(b) <=> o = work
            BY <2>1, <2>3, <4>3 DEF Apart
          <5> QED BY ONLY <5>1
        <4> QED BY <2>5, <4>1, <4>2, <4>3 DEF HasOwner
      <3>2. Cardinality(Owners(b)) = 1
        BY ONLY <3>1, FS_Singleton
      <3> QED BY <2>2, <2>5, <3>2
    <2> QED BY <2>4, <2>5
  <1> QED BY <1>1, MemoryAlways, PTL

\* A response in flight keeps the content its header promised, although the file
\* may change, the entry be dropped and its memory be used again before the last
\* byte is sent, for every page that is not larger than the limit.
THEOREM PagesArriveWhole == Spec => []CachedPageReachesClient
  <1>1. Memory => CachedPageReachesClient
    BY DEF Memory, Promised, PromisedTo, CachedPageReachesClient, Intact
  <1> QED BY <1>1, MemoryAlways, PTL

-----------------------------------------------------------------------------
(* Changes: who has an event on the way.                                   *)

Pending == batch \o queue
Twice(p, w) == \E i, j \in 1 .. Len(p) : i < j /\ p[i] = w /\ p[j] = w

\* The elements of a sequence.
LEMMA InSequence ==
    ASSUME NEW s \in Seq(Wd), NEW x
    PROVE  x \in ToSet(s) <=> \E i \in 1 .. Len(s) : s[i] = x
  <1>1. DOMAIN s = 1 .. Len(s)
    OBVIOUS
  <1>2. x \in ToSet(s) <=> \E i \in DOMAIN s : s[i] = x
    BY ONLY DEF ToSet
  <1> QED BY ONLY <1>1, <1>2

\* The first event is taken from the batch.
LEMMA Popped ==
    ASSUME NEW b \in Seq(Wd), NEW q \in Seq(Wd), b # <<>>, NEW w
    PROVE  /\ w \in ToSet(b \o q) /\ w # Head(b) => w \in ToSet(Tail(b) \o q)
           /\ Twice(b \o q, w) => w \in ToSet(Tail(b) \o q)
           /\ Twice(b \o q, w) /\ w # Head(b) => Twice(Tail(b) \o q, w)
  <1> DEFINE p == b \o q
             t == Tail(b) \o q
  <1>1. /\ p \in Seq(Wd) /\ t \in Seq(Wd) /\ Len(p) \in Nat /\ Len(t) = Len(p) - 1
        /\ p[1] = Head(b)
        /\ \A i \in 1 .. Len(t) : t[i] = p[i + 1]
    <2>1. Len(b) \in Nat \ {0} /\ Len(q) \in Nat /\ Len(Tail(b)) = Len(b) - 1
      OBVIOUS
    <2>2. \A i \in 1 .. Len(Tail(b)) : Tail(b)[i] = b[i + 1]
      OBVIOUS
    <2> QED BY <2>1, <2>2
  <1>2. /\ w \in ToSet(p) <=> \E i \in 1 .. Len(p) : p[i] = w
        /\ w \in ToSet(t) <=> \E i \in 1 .. Len(t) : t[i] = w
    BY <1>1, InSequence
  <1> HIDE DEF p, t
  <1>3. \A i \in 1 .. Len(p) : i # 1 => i - 1 \in 1 .. Len(t) /\ t[i - 1] = p[i]
    BY <1>1
  <1>4. w \in ToSet(p) /\ w # Head(b) => w \in ToSet(t)
    BY <1>1, <1>2, <1>3
  <1>5. Twice(p, w) => w \in ToSet(t)
    <2> SUFFICES ASSUME NEW i \in 1 .. Len(p), NEW j \in 1 .. Len(p), i < j, p[j] = w
                 PROVE  \E k \in 1 .. Len(t) : t[k] = w
      BY <1>2 DEF Twice
    <2>1. j # 1
      BY <1>1
    <2> QED BY <1>3, <2>1
  <1>6. Twice(p, w) /\ w # Head(b) => Twice(t, w)
    <2> SUFFICES ASSUME NEW i \in 1 .. Len(p), NEW j \in 1 .. Len(p), i < j,
                        p[i] = w, p[j] = w, w # Head(b)
                 PROVE  \E k, l \in 1 .. Len(t) : k < l /\ t[k] = w /\ t[l] = w
      BY DEF Twice
    <2>1. i # 1 /\ j # 1
      BY <1>1
    <2>2. /\ i - 1 \in 1 .. Len(t) /\ t[i - 1] = w
          /\ j - 1 \in 1 .. Len(t) /\ t[j - 1] = w /\ i - 1 < j - 1
      BY <1>1, <1>3, <2>1
    <2> QED BY <2>2
  <1> QED BY <1>4, <1>5, <1>6 DEF p, t

\* The last event of the queue is on the way.
LEMMA LastIsIn ==
    ASSUME NEW b \in Seq(Wd), NEW s \in Seq(Wd), Len(s) > 0, NEW w, s[Len(s)] = w
    PROVE  w \in ToSet(b \o s)
  <1>1. /\ b \o s \in Seq(Wd) /\ Len(b) + Len(s) \in 1 .. Len(b \o s)
        /\ (b \o s)[Len(b) + Len(s)] = s[Len(s)]
    OBVIOUS
  <1> QED BY ONLY <1>1, s[Len(s)] = w, InSequence

\* Events are added to the queue.
LEMMA Added ==
    ASSUME NEW b \in Seq(Wd), NEW q \in Seq(Wd), NEW r \in Seq(Wd), NEW w \in Wd
    PROVE  /\ w \in ToSet(b \o q) => w \in ToSet(b \o (q \o r))
           /\ Twice(b \o q, w) => Twice(b \o (q \o r), w)
           /\ w \in ToSet(b \o (q \o <<w>>)) /\ w \in ToSet(b \o Append(q, w))
           /\ w \in ToSet(b \o (q \o <<w>> \o <<w>>)) /\ Twice(b \o (q \o <<w>> \o <<w>>), w)
           /\ w \in ToSet(b \o Notify(q, w))
  <1>1. \A s \in Seq(Wd) : w \in ToSet(s) <=> \E i \in 1 .. Len(s) : s[i] = w
    BY InSequence
  <1>2. \A s \in Seq(Wd) : /\ b \o s \in Seq(Wd) /\ Len(b \o s) = Len(b) + Len(s)
                           /\ \A i \in 1 .. Len(s) : (b \o s)[Len(b) + i] = s[i]
    OBVIOUS
  <1>3. Len(b) \in Nat /\ Len(q) \in Nat /\ Len(r) \in Nat
    OBVIOUS
  <1>4. ASSUME NEW i \in 1 .. Len(b \o q)
        PROVE  i \in 1 .. Len(b \o (q \o r)) /\ (b \o (q \o r))[i] = (b \o q)[i]
    OBVIOUS
  <1>5. /\ w \in ToSet(b \o q) => w \in ToSet(b \o (q \o r))
        /\ Twice(b \o q, w) => Twice(b \o (q \o r), w)
    <2>1. b \o q \in Seq(Wd) /\ b \o (q \o r) \in Seq(Wd)
      OBVIOUS
    <2>2. w \in ToSet(b \o q) => w \in ToSet(b \o (q \o r))
      BY ONLY <1>1, <1>4, <2>1
    <2>3. Twice(b \o q, w) => Twice(b \o (q \o r), w)
      BY ONLY <1>4 DEF Twice
    <2> QED BY <2>2, <2>3
  <1>6. w \in ToSet(b \o (q \o <<w>>)) /\ w \in ToSet(b \o Append(q, w))
    <2>1. ASSUME NEW s \in Seq(Wd), Len(s) > 0, s[Len(s)] = w
          PROVE  w \in ToSet(b \o s)
      BY <2>1, LastIsIn
    <2>2. /\ q \o <<w>> \in Seq(Wd) /\ Append(q, w) \in Seq(Wd)
          /\ Len(q \o <<w>>) > 0 /\ (q \o <<w>>)[Len(q \o <<w>>)] = w
          /\ Len(Append(q, w)) > 0 /\ Append(q, w)[Len(Append(q, w))] = w
      OBVIOUS
    <2> QED BY <2>1, <2>2
  <1>7. Twice(b \o (q \o <<w>> \o <<w>>), w)
    <2> DEFINE s == q \o <<w>> \o <<w>>
    <2>1. /\ s \in Seq(Wd) /\ Len(s) = Len(q) + 2
          /\ s[Len(q) + 1] = w /\ s[Len(q) + 2] = w
      OBVIOUS
    <2> HIDE DEF s
    <2>2. /\ Len(b) + (Len(q) + 1) \in 1 .. Len(b \o s)
          /\ Len(b) + (Len(q) + 2) \in 1 .. Len(b \o s)
          /\ (b \o s)[Len(b) + (Len(q) + 1)] = w
          /\ (b \o s)[Len(b) + (Len(q) + 2)] = w
          /\ Len(b) + (Len(q) + 1) < Len(b) + (Len(q) + 2)
      BY <1>2, <1>3, <2>1
    <2>3. Twice(b \o s, w)
      BY ONLY <2>2 DEF Twice
    <2> QED BY <2>3 DEF s
  <1>8. w \in ToSet(b \o (q \o <<w>> \o <<w>>))
    <2>1. b \o (q \o <<w>> \o <<w>>) \in Seq(Wd)
      OBVIOUS
    <2> QED BY ONLY <1>1, <1>7, <2>1 DEF Twice
  <1>9. w \in ToSet(b \o Notify(q, w))
    <2>1. CASE q # <<>> /\ Last(q) = w
      <3>1. Len(q) \in 1 .. Len(q) /\ q[Len(q)] = w
        BY <2>1 DEF Last
      <3>2. w \in ToSet(b \o q)
        BY <1>3, <3>1, LastIsIn
      <3> QED BY <2>1, <3>2 DEF Notify
    <2>2. CASE ~ (q # <<>> /\ Last(q) = w)
      BY <1>6, <2>2 DEF Notify
    <2> QED BY <2>1, <2>2
  <1> QED BY <1>5, <1>6, <1>7, <1>8, <1>9

\* A watch is on the file of its entries, has followed it away, or is gone.
SharedWatch ==
    /\ \A n \in Cached : watching[cache[n].wd] \in {FileOf[n], "away", "nothing"}
    /\ \A m, n \in Cached : cache[m].wd = cache[n].wd => FileOf[m] = FileOf[n]

Current(n) ==
    /\ disk[FileOf[n]].there
    /\ heap[cache[n].html_content].text = disk[FileOf[n]].version

\* An entry that was right at first is watched and current, or has an event on the way.
OnTheWay ==
    \A n \in Cached : cache[n].fresh /\ ~ ThreeNames(FileOf[n]) =>
        \/ watching[cache[n].wd] = FileOf[n] /\ Current(n)
        \/ cache[n].wd \in ToSet(Pending)

\* Two entries that share a watch that is gone have an event each.
BothOnTheWay ==
    \A m, n \in Cached :
        /\ m # n /\ cache[m].wd = cache[n].wd
        /\ watching[cache[n].wd] = "nothing" /\ ~ ThreeNames(FileOf[n])
        => Twice(Pending, cache[n].wd)

Noticed == SharedWatch /\ OnTheWay /\ BothOnTheWay

\* A step of a request that adds no watch.
LEMMA NoticedRequest ==
    ASSUME HtmlCacheTypeOK, Noticed, EntriesStay({}),
           UNCHANGED <<disk, watching, queue, batch>>
    PROVE  Noticed'
  <1>1. ASSUME NEW n \in Cached'
        PROVE  /\ n \in Cached /\ n \in Name
               /\ cache'[n].wd = cache[n].wd /\ cache'[n].fresh = cache[n].fresh
               /\ cache'[n].html_content = cache[n].html_content
               /\ heap'[cache[n].html_content] = heap[cache[n].html_content]
    BY DEF EntriesStay, Cached
  <1>2. Pending' = Pending
    BY DEF Pending
  <1>3. SharedWatch'
    BY <1>1 DEF Noticed, SharedWatch
  <1>4. OnTheWay'
    <2> SUFFICES ASSUME NEW n \in Cached', cache'[n].fresh, ~ ThreeNames(FileOf[n])
                 PROVE  \/ watching'[cache'[n].wd] = FileOf[n] /\ Current(n)'
                        \/ cache'[n].wd \in ToSet(Pending')
      BY DEF OnTheWay, ThreeNames
    <2>1. Current(n) => Current(n)'
      BY <1>1 DEF Current
    <2> QED BY <1>1, <1>2, <2>1 DEF Noticed, OnTheWay
  <1>5. BothOnTheWay'
    <2> SUFFICES ASSUME NEW m \in Cached', NEW n \in Cached', m # n,
                        cache'[m].wd = cache'[n].wd,
                        watching'[cache'[n].wd] = "nothing", ~ ThreeNames(FileOf[n])
                 PROVE  Twice(Pending', cache'[n].wd)
      BY DEF BothOnTheWay, ThreeNames, Twice
    <2> QED BY <1>1, <1>2 DEF Noticed, BothOnTheWay
  <1> QED BY <1>3, <1>4, <1>5 DEF Noticed

\* A page is kept, with the watch its file has or with a new one.
LEMMA NoticedKeep ==
    ASSUME HtmlCacheTypeOK, HtmlCacheTypeOK', OneWatch, AtWork, Noticed,
           work.step = "answer", NEW z \in Block \cup {Null},
           NEW w \in Wd, AnswerAndKeep(work, z, w), EntriesStay({Head(work.names)}),
           heap'[work.block] = heap[work.block],
           UNCHANGED <<disk, queue, batch>>
    PROVE  Noticed'
  <1>1. PICK n \in Name : n = Head(work.names)
    <2>1. work \in Requests
      BY Holdings DEF NoWork
    <2> QED BY <2>1 DEF Requests
  <1>2. PICK f \in File : f = FileOf[n]
    BY <1>1, HtmlCacheAssumption
  <1>3. /\ disk[f].there /\ AddWatch(f, w) /\ watching' = [watching EXCEPT ![w] = f]
        /\ cache' = [cache EXCEPT ![n] =
             [wd |-> w, html_content |-> work.block, html_gzip_content |-> z,
              fresh |-> heap[work.block].size = disk[f].version
                        /\ heap[work.block].text = disk[f].version]]
    BY <1>1, <1>2 DEF AnswerAndKeep
  <1>4. /\ cache'[n].wd = w /\ cache'[n].html_content = work.block
        /\ cache'[n].fresh => heap[work.block].text = disk[f].version
    BY <1>3 DEF HtmlCacheTypeOK
  <1>5. /\ watching'[w] = f
        /\ \A v \in Wd : v # w => watching'[v] = watching[v]
    BY <1>3 DEF HtmlCacheTypeOK
  <1>6. ASSUME NEW m \in Cached', m # n
        PROVE  /\ m \in Cached /\ m \in Name /\ cache[m].wd \in Wd
               /\ cache'[m].wd = cache[m].wd /\ cache'[m].fresh = cache[m].fresh
               /\ cache'[m].html_content = cache[m].html_content
               /\ heap'[cache[m].html_content] = heap[cache[m].html_content]
    BY <1>1, <1>6, Holdings DEF EntriesStay, Cached
  <1>7. ASSUME NEW m \in Cached, cache[m].wd = w
        PROVE  FileOf[m] = f /\ watching[w] = f
    <2>1. InUse(w)
      BY <1>7 DEF InUse
    <2>2. w \in Watched(f)
      BY <1>3, <2>1 DEF AddWatch
    <2>3. watching[w] = f
      BY <2>2 DEF Watched
    <2> QED BY <1>2, <1>7, <2>3, HtmlCacheAssumption DEF Noticed, SharedWatch
  <1>8. Pending' = Pending
    BY DEF Pending
  <1>9. f # "away" /\ f # "nothing"
    BY HtmlCacheAssumption
  <1>10. \A m \in Cached' : watching'[cache'[m].wd] = watching[cache'[m].wd] \/ m = n
    BY <1>5, <1>6, <1>7
  <1>11. SharedWatch'
    <2>1. \A m \in Cached' : watching'[cache'[m].wd] \in {FileOf[m], "away", "nothing"}
      BY <1>2, <1>4, <1>5, <1>6, <1>10 DEF Noticed, SharedWatch
    <2>2. \A k, m \in Cached' : cache'[k].wd = cache'[m].wd => FileOf[k] = FileOf[m]
      BY <1>2, <1>4, <1>6, <1>7 DEF Noticed, SharedWatch
    <2> QED BY <2>1, <2>2 DEF SharedWatch
  <1>12. OnTheWay'
    <2> SUFFICES ASSUME NEW m \in Cached', cache'[m].fresh, ~ ThreeNames(FileOf[m])
                 PROVE  \/ watching'[cache'[m].wd] = FileOf[m] /\ Current(m)'
                        \/ cache'[m].wd \in ToSet(Pending')
      BY DEF OnTheWay, ThreeNames
    <2>1. CASE m = n
      BY <2>1, <1>2, <1>3, <1>4, <1>5 DEF Current
    <2>2. CASE m # n
      <3>1. Current(m) => Current(m)'
        BY <2>2, <1>6 DEF Current
      <3> QED BY <2>2, <3>1, <1>6, <1>8, <1>10 DEF Noticed, OnTheWay
    <2> QED BY <2>1, <2>2
  <1>13. BothOnTheWay'
    <2> SUFFICES ASSUME NEW k \in Cached', NEW m \in Cached', k # m,
                        cache'[k].wd = cache'[m].wd,
                        watching'[cache'[m].wd] = "nothing", ~ ThreeNames(FileOf[m])
                 PROVE  Twice(Pending', cache'[m].wd)
      BY DEF BothOnTheWay, ThreeNames, Twice
    <2>1. k # n /\ m # n
      BY <1>4, <1>5, <1>9
    <2> QED BY <2>1, <1>6, <1>8, <1>10 DEF Noticed, BothOnTheWay
  <1> QED BY <1>11, <1>12, <1>13 DEF Noticed

\* What a change of a file f owes to the entries: events, and twice when the watch ends.
LEMMA NoticedChange ==
    ASSUME HtmlCacheTypeOK, Noticed, NEW f \in File, UNCHANGED <<cache, heap>>,
           \A g \in File \ {f} : disk'[g] = disk[g],
           \A w \in Wd : watching[w] # f => watching'[w] = watching[w],
           \A w \in Wd : watching[w] = f =>
               /\ watching'[w] \in {f, "away", "nothing"}
               /\ w \in ToSet(Pending')
               /\ watching'[w] = "nothing" => Twice(Pending', w),
           \A w \in Wd : /\ w \in ToSet(Pending) => w \in ToSet(Pending')
                         /\ Twice(Pending, w) => Twice(Pending', w)
    PROVE  Noticed'
  <1>1. Cached' = Cached
    BY DEF Cached
  <1>2. \A n \in Cached : n \in Name /\ cache[n].wd \in Wd /\ FileOf[n] \in File
    BY Holdings, HtmlCacheAssumption
  <1>3. SharedWatch'
    <2> SUFFICES ASSUME NEW n \in Cached
                 PROVE  watching'[cache[n].wd] \in {FileOf[n], "away", "nothing"}
      BY <1>1 DEF Noticed, SharedWatch
    <2> QED BY <1>2, HtmlCacheAssumption DEF Noticed, SharedWatch
  <1>4. OnTheWay'
    <2> SUFFICES ASSUME NEW n \in Cached, cache[n].fresh, ~ ThreeNames(FileOf[n])
                 PROVE  \/ watching'[cache[n].wd] = FileOf[n] /\ Current(n)'
                        \/ cache[n].wd \in ToSet(Pending')
      BY <1>1 DEF OnTheWay, ThreeNames
    <2>1. CASE cache[n].wd \in ToSet(Pending)
      BY <2>1, <1>2
    <2>2. CASE watching[cache[n].wd] = FileOf[n] /\ Current(n)
      <3>1. CASE FileOf[n] = f
        BY <2>2, <3>1, <1>2
      <3>2. CASE FileOf[n] # f
        BY <2>2, <3>2, <1>2 DEF Current
      <3> QED BY <3>1, <3>2
    <2> QED BY <2>1, <2>2 DEF Noticed, OnTheWay
  <1>5. BothOnTheWay'
    <2> SUFFICES ASSUME NEW m \in Cached, NEW n \in Cached, m # n,
                        cache[m].wd = cache[n].wd,
                        watching'[cache[n].wd] = "nothing", ~ ThreeNames(FileOf[n])
                 PROVE  Twice(Pending', cache[n].wd)
      BY <1>1 DEF BothOnTheWay, ThreeNames, Twice
    <2>1. CASE watching[cache[n].wd] = f
      BY <2>1, <1>2
    <2>2. CASE watching[cache[n].wd] # f
      BY <2>2, <1>2 DEF Noticed, BothOnTheWay
    <2> QED BY <2>1, <2>2
  <1> QED BY <1>3, <1>4, <1>5 DEF Noticed

\* The files change.
LEMMA NoticedFileChanges ==
    ASSUME HtmlCacheTypeOK, OneWatch, Noticed, FileChanges
    PROVE  Noticed'
  <1>1. UNCHANGED <<cache, heap, batch>> /\ queue \in Seq(Wd) /\ batch \in Seq(Wd)
    BY DEF FileChanges, cacheVars, HtmlCacheTypeOK
  <1>2. PICK f \in File : Modify(f) \/ Replace(f) \/ MoveAway(f)
    BY DEF FileChanges
  <1>3. \A g \in File \ {f} : disk'[g] = disk[g]
    BY <1>2 DEF Modify, Replace, MoveAway, Changes, HtmlCacheTypeOK
  <1>4. CASE Watched(f) = {}
    <2>1. queue' = queue
      <3>1. SetToSeq(Watched(f)) = << >>
        BY <1>4, SingleAsSequence
      <3>2. queue \o << >> = queue /\ queue \o << >> \o << >> = queue
        BY <1>1
      <3> QED BY <1>2, <1>4, <3>1, <3>2 DEF Modify, Replace, MoveAway
    <2>2. \A w \in Wd : watching[w] # f /\ watching'[w] = watching[w]
      BY <1>2, <1>4 DEF Modify, Replace, MoveAway, Watched
    <2>3. Pending' = Pending
      BY <1>1, <2>1 DEF Pending
    <2> QED BY <1>1, <1>3, <2>2, <2>3, NoticedChange
  <1>5. ASSUME NEW v \in Wd, Watched(f) = {v}, SetToSeq(Watched(f)) = <<v>>
        PROVE  Noticed'
    <2>1. \A w \in Wd : watching[w] = f <=> w = v
      BY <1>5 DEF Watched
    <2>2. CASE Modify(f)
      <3>1. queue' = Notify(queue, v) /\ watching' = watching
        <4>1. (CHOOSE w \in {v} : TRUE) = v
          OBVIOUS
        <4> QED BY <1>5, <2>2, <4>1 DEF Modify
      <3>2. queue' = queue \/ queue' = queue \o <<v>>
        <4>1. Append(queue, v) = queue \o <<v>>
          BY <1>1
        <4> QED BY <3>1, <4>1 DEF Notify
      <3>3. \A w \in Wd : /\ w \in ToSet(Pending) => w \in ToSet(Pending')
                          /\ Twice(Pending, w) => Twice(Pending', w)
        <4>1. CASE queue' = queue
          BY <1>1, <4>1 DEF Pending
        <4>2. CASE queue' = queue \o <<v>>
          <5>1. <<v>> \in Seq(Wd)
            OBVIOUS
          <5> QED BY <1>1, <4>2, <5>1, Added DEF Pending
        <4> QED BY <3>2, <4>1, <4>2
      <3>4. v \in ToSet(Pending')
        BY <1>1, <3>1, Added DEF Pending
      <3> QED BY <1>1, <1>3, <2>1, <3>1, <3>3, <3>4, HtmlCacheAssumption, NoticedChange
    <2>3. CASE Replace(f)
      <3>1. /\ queue' = queue \o <<v>> \o <<v>>
            /\ \A w \in Wd : watching'[w] = IF w = v THEN "nothing" ELSE watching[w]
        BY <1>5, <2>3 DEF Replace
      <3>2. queue' = queue \o (<<v>> \o <<v>>) /\ <<v>> \o <<v>> \in Seq(Wd)
        BY <1>1, <3>1
      <3>3. \A w \in Wd : /\ w \in ToSet(Pending) => w \in ToSet(Pending')
                          /\ Twice(Pending, w) => Twice(Pending', w)
        BY <1>1, <3>2, Added DEF Pending
      <3>4. v \in ToSet(Pending') /\ Twice(Pending', v)
        BY <1>1, <3>1, Added DEF Pending
      <3> QED BY <1>1, <1>3, <2>1, <3>1, <3>3, <3>4, NoticedChange
    <2>4. CASE MoveAway(f)
      <3>1. /\ queue' = queue \o <<v>> /\ <<v>> \in Seq(Wd)
            /\ \A w \in Wd : watching'[w] = IF w = v THEN "away" ELSE watching[w]
        BY <1>5, <2>4 DEF MoveAway
      <3>2. \A w \in Wd : /\ w \in ToSet(Pending) => w \in ToSet(Pending')
                          /\ Twice(Pending, w) => Twice(Pending', w)
        BY <1>1, <3>1, Added DEF Pending
      <3>3. v \in ToSet(Pending')
        BY <1>1, <3>1, Added DEF Pending
      <3> QED BY <1>1, <1>3, <2>1, <3>1, <3>2, <3>3, NoticedChange
    <2> QED BY <1>2, <2>2, <2>3, <2>4
  <1> QED BY <1>4, <1>5, WatchOfFile

\* An entry is dropped: a second one of its file has an event left, and is the last.
LEMMA NoticedEvict ==
    ASSUME HtmlCacheTypeOK, HtmlCacheTypeOK', Noticed, NEW n \in Matching(Head(batch)),
           Evict(n), batch # <<>>, EntriesStay({}), n \notin Cached', UNCHANGED disk
    PROVE  Noticed'
  <1>1. PICK w \in Wd : w = cache[n].wd
    BY Holdings DEF Matching
  <1>2. /\ n \in Cached /\ w = Head(batch) /\ batch \in Seq(Wd) /\ queue \in Seq(Wd)
    BY <1>1 DEF Matching, HtmlCacheTypeOK
  <1>3. /\ \A v \in Wd : watching'[v] = IF v = w THEN "nothing" ELSE watching[v]
        /\ queue' = IF watching[w] = "nothing" THEN queue ELSE Append(queue, w)
        /\ batch' = Tail(batch)
    BY <1>1 DEF Evict, RemoveWatch, HtmlCacheTypeOK
  <1>4. ASSUME NEW m \in Cached'
        PROVE  /\ m \in Cached /\ m \in Name /\ m # n /\ cache[m].wd \in Wd
               /\ cache'[m].wd = cache[m].wd /\ cache'[m].fresh = cache[m].fresh
               /\ cache'[m].html_content = cache[m].html_content
               /\ heap'[cache[m].html_content] = heap[cache[m].html_content]
    BY <1>4, Holdings DEF EntriesStay
  <1>5. queue' = queue \/ (queue' = queue \o <<w>> /\ <<w>> \in Seq(Wd))
    <2>1. Append(queue, w) = queue \o <<w>>
      BY <1>2
    <2> QED BY <1>3, <2>1
  <1>6. ASSUME NEW v \in Wd, v # w
        PROVE  /\ v \in ToSet(Pending) => v \in ToSet(Pending')
               /\ Twice(Pending, v) => Twice(Pending', v)
    <2>1. /\ v \in ToSet(Pending) => v \in ToSet(Tail(batch) \o queue)
          /\ Twice(Pending, v) => Twice(Tail(batch) \o queue, v)
      BY <1>2, <1>6, Popped DEF Pending
    <2>2. CASE queue' = queue
      BY <1>3, <2>1, <2>2 DEF Pending
    <2>3. CASE queue' = queue \o <<w>> /\ <<w>> \in Seq(Wd)
      <3>1. Tail(batch) \in Seq(Wd)
        BY <1>2
      <3>2. Pending' = Tail(batch) \o (queue \o <<w>>)
        BY <1>3, <2>3 DEF Pending
      <3>3. /\ v \in ToSet(Tail(batch) \o queue) => v \in ToSet(Pending')
            /\ Twice(Tail(batch) \o queue, v) => Twice(Pending', v)
        BY ONLY <1>2, <2>3, <3>1, <3>2, v \in Wd, Added
      <3> QED BY <2>1, <3>3
    <2> QED BY <1>5, <2>2, <2>3
  <1>7. watching[w] # "nothing" \/ Twice(Pending, w) => w \in ToSet(Pending')
    <2>1. CASE watching[w] # "nothing"
      <3>1. Tail(batch) \in Seq(Wd)
        BY <1>2
      <3> QED BY <1>2, <1>3, <2>1, <3>1, Added DEF Pending
    <2>2. CASE watching[w] = "nothing" /\ Twice(Pending, w)
      BY <1>2, <1>3, <2>2, Popped DEF Pending
    <2> QED BY <2>1, <2>2
  <1>8. SharedWatch'
    <2>1. \A m \in Cached' : watching'[cache'[m].wd] \in {FileOf[m], "away", "nothing"}
      BY <1>3, <1>4 DEF Noticed, SharedWatch
    <2>2. \A k, m \in Cached' : cache'[k].wd = cache'[m].wd => FileOf[k] = FileOf[m]
      BY <1>4 DEF Noticed, SharedWatch
    <2> QED BY <2>1, <2>2 DEF SharedWatch
  <1>9. OnTheWay'
    <2> SUFFICES ASSUME NEW m \in Cached', cache'[m].fresh, ~ ThreeNames(FileOf[m])
                 PROVE  \/ watching'[cache'[m].wd] = FileOf[m] /\ Current(m)'
                        \/ cache'[m].wd \in ToSet(Pending')
      BY DEF OnTheWay, ThreeNames
    <2>1. CASE cache[m].wd = w
      <3>1. watching[w] = "nothing" => Twice(Pending, w)
        <4>1. m \in Cached /\ n \in Cached /\ m # n /\ cache[m].wd = cache[n].wd
              /\ cache[n].wd = w
          BY <2>1, <1>1, <1>2, <1>4
        <4>2. FileOf[n] = FileOf[m]
          BY ONLY <4>1, Noticed DEF Noticed, SharedWatch
        <4> QED BY ONLY <4>1, <4>2, Noticed, ~ ThreeNames(FileOf[m]) DEF Noticed, BothOnTheWay
      <3> QED BY <2>1, <3>1, <1>4, <1>7
    <2>2. CASE cache[m].wd # w
      <3>1. Current(m) => Current(m)'
        BY <1>4 DEF Current
      <3> QED BY <2>2, <3>1, <1>3, <1>4, <1>6 DEF Noticed, OnTheWay
    <2> QED BY <2>1, <2>2
  <1>10. BothOnTheWay'
    <2> SUFFICES ASSUME NEW k \in Cached', NEW m \in Cached', k # m,
                        cache'[k].wd = cache'[m].wd,
                        watching'[cache'[m].wd] = "nothing", ~ ThreeNames(FileOf[m])
                 PROVE  Twice(Pending', cache'[m].wd)
      BY DEF BothOnTheWay, ThreeNames, Twice
    <2>1. CASE cache[m].wd = w
      <3>1. FileOf[k] = FileOf[m] /\ FileOf[n] = FileOf[m]
        <4>1. /\ k \in Cached /\ m \in Cached /\ n \in Cached
              /\ cache[k].wd = cache[m].wd /\ cache[n].wd = cache[m].wd
          BY <2>1, <1>1, <1>2, <1>4
        <4> QED BY ONLY <4>1, Noticed DEF Noticed, SharedWatch
      <3>2. n \in Name /\ k # n /\ m # n
        BY <1>2, <1>4 DEF Cached
      <3> QED BY <3>1, <3>2, <1>4 DEF ThreeNames
    <2>2. CASE cache[m].wd # w
      BY <2>2, <1>3, <1>4, <1>6 DEF Noticed, BothOnTheWay
    <2> QED BY <2>1, <2>2
  <1> QED BY <1>8, <1>9, <1>10 DEF Noticed

\* The events are read, and the first of them dropped when no entry is left for it.
LEMMA NoticedEvents ==
    ASSUME Memory, Noticed, ReadEvents \/ HtmlCacheEventHander
    PROVE  Noticed'
  <1>1. HtmlCacheTypeOK /\ queue \in Seq(Wd) /\ batch \in Seq(Wd)
    BY DEF Memory, HtmlCacheTypeOK
  <1>2. ASSUME UNCHANGED <<disk, watching, cache, heap>>,
               \A v \in Wd : \/ /\ v \in ToSet(Pending) => v \in ToSet(Pending')
                                /\ Twice(Pending, v) => Twice(Pending', v)
                             \/ \A n \in Cached : cache[n].wd # v
        PROVE  Noticed'
    <2>1. Cached' = Cached /\ \A n \in Cached : cache[n].wd \in Wd
      BY <1>1, <1>2, Holdings DEF Cached
    <2>2. SharedWatch'
      BY <1>2, <2>1 DEF Noticed, SharedWatch
    <2>3. OnTheWay'
      <3> SUFFICES ASSUME NEW n \in Cached, cache[n].fresh, ~ ThreeNames(FileOf[n])
                   PROVE  \/ watching[cache[n].wd] = FileOf[n] /\ Current(n)'
                          \/ cache[n].wd \in ToSet(Pending')
        BY <1>2, <2>1 DEF OnTheWay, ThreeNames
      <3>1. Current(n) => Current(n)'
        BY <1>2 DEF Current
      <3> QED BY <1>2, <2>1, <3>1 DEF Noticed, OnTheWay
    <2>4. BothOnTheWay'
      <3> SUFFICES ASSUME NEW m \in Cached, NEW n \in Cached, m # n,
                          cache[m].wd = cache[n].wd,
                          watching[cache[n].wd] = "nothing", ~ ThreeNames(FileOf[n])
                   PROVE  Twice(Pending', cache[n].wd)
        BY <1>2, <2>1 DEF BothOnTheWay, ThreeNames, Twice
      <3> QED BY <1>2, <2>1 DEF Noticed, BothOnTheWay
    <2> QED BY <2>2, <2>3, <2>4 DEF Noticed
  <1>3. CASE ReadEvents
    <2>1. /\ batch = <<>> /\ batch' = queue /\ queue' = <<>>
          /\ UNCHANGED <<disk, watching, cache, heap>>
      BY <1>3 DEF ReadEvents, Idle, cacheVars
    <2>2. Pending' = Pending
      BY <1>1, <2>1 DEF Pending
    <2> QED BY <1>2, <2>1, <2>2
  <1>4. CASE HtmlCacheEventHander
    <2>1. batch # <<>> /\ UNCHANGED <<disk, work>>
      BY <1>4 DEF HtmlCacheEventHander
    <2>2. ASSUME NEW n \in Matching(Head(batch)), Evict(n) PROVE Noticed'
      <3>1. n \in Cached
        BY DEF Matching
      <3>2. Memory' /\ EntriesStay({}) /\ n \notin Cached'
        BY <2>1, <2>2, <3>1, EvictStep
      <3> QED BY <1>1, <2>1, <2>2, <3>2, NoticedEvict DEF Memory
    <2>3. ASSUME NEW n \in Matching(Head(batch)), DuplicateFails(n) PROVE Noticed'
      <3>1. UNCHANGED <<disk, watching, queue, cache, heap, batch>>
        BY <2>1, <2>3 DEF DuplicateFails, cacheVars
      <3>2. Pending' = Pending
        BY <3>1 DEF Pending
      <3> QED BY <1>2, <3>1, <3>2
    <2>4. ASSUME Matching(Head(batch)) = {}, batch' = Tail(batch),
                 UNCHANGED <<watching, queue, cacheVars, sessionVars, alive>>
          PROVE  Noticed'
      <3>1. UNCHANGED <<disk, watching, queue, cache, heap>>
        BY <2>1, <2>4 DEF cacheVars
      <3>2. ASSUME NEW v \in Wd, v # Head(batch)
            PROVE  /\ v \in ToSet(Pending) => v \in ToSet(Pending')
                   /\ Twice(Pending, v) => Twice(Pending', v)
        BY <1>1, <2>1, <2>4, <3>1, <3>2, Popped DEF Pending
      <3>3. \A n \in Cached : cache[n].wd # Head(batch)
        BY <2>4 DEF Matching
      <3> QED BY <1>2, <3>1, <3>2, <3>3
    <2> QED BY <1>4, <2>2, <2>3, <2>4 DEF HtmlCacheEventHander
  <1> QED BY <1>3, <1>4

\* With memory and watches, every step keeps that changes are noticed.
LEMMA NoticedAlways == Spec => []Noticed
  <1>1. Init => Noticed
    <2> SUFFICES ASSUME Init PROVE Noticed
      OBVIOUS
    <2>1. Cached = {}
      BY DEF Init, Cached
    <2> QED BY <2>1 DEF Noticed, SharedWatch, OnTheWay, BothOnTheWay
  <1>2. (Memory /\ OneWatch) /\ (Memory /\ OneWatch)' /\ Noticed /\ [Next]_vars => Noticed'
    <2> SUFFICES ASSUME Memory, OneWatch, Memory', Noticed, [Next]_vars PROVE Noticed'
      OBVIOUS
    <2>1. HtmlCacheTypeOK /\ HtmlCacheTypeOK' /\ AtWork
      BY DEF Memory
    <2>2. CASE FileChanges
      BY <2>1, <2>2, NoticedFileChanges
    <2>3. ASSUME NEW s \in Session, Request(s) PROVE Noticed'
      <3>1. PICK names \in Requested, get \in BOOLEAN, gzip \in BOOLEAN :
                Lookup(Req(s, names, get, gzip))
        BY <2>3 DEF Request
      <3>2. PICK r : r = Req(s, names, get, gzip)
        OBVIOUS
      <3>3. r \in Requests /\ r.step = "lookup" /\ r.session = s
        BY <3>2, AskedFor
      <3>4. /\ ~ response[r.session].appended /\ work.step # "answer"
            /\ UNCHANGED <<disk, watching, queue, batch>>
        BY <2>3, <3>1, <3>2, <3>3, LookupLeaves DEF Request, Idle, Receiving, NoWork
      <3> QED BY <2>1, <3>1, <3>2, <3>3, <3>4, LookupStep, NoticedRequest
    <2>4. ASSUME NEW s \in Session, ResponseEnds(s) PROVE Noticed'
      BY <2>1, <2>4, ResponseEndsStep, NoticedRequest DEF ResponseEnds, fileVars
    <2>5. CASE NextIndex
      <3>1. work \in Requests /\ work.step = "lookup" /\ Lookup(work)
        BY <2>1, <2>5, Holdings DEF NextIndex, NoWork
      <3>2. ~ work.get => ~ response[work.session].appended
        BY <2>1, <3>1, Marks DEF AtWork
      <3>3. UNCHANGED <<disk, watching, queue, batch>>
        BY <3>1, LookupLeaves
      <3> QED BY <2>1, <3>1, <3>2, <3>3, LookupStep, NoticedRequest
    <2>6. CASE ReadFile
      BY <2>1, <2>6, ReadFileStep, NoticedRequest DEF ReadFile, fileVars
    <2>7. CASE Answer
      <3>1. work.step = "answer" /\ UNCHANGED <<disk, queue, batch>>
        BY <2>7 DEF Answer
      <3> QED BY <2>1, <2>7, <3>1, AnswerStep, NoticedRequest, NoticedKeep
    <2>8. CASE ReadEvents \/ HtmlCacheEventHander
      BY <2>8, NoticedEvents
    <2>9. CASE UNCHANGED vars
      <3>1. UNCHANGED <<disk, watching, queue, cache, heap, batch>>
        BY <2>9 DEF vars, fileVars, cacheVars
      <3>2. EntriesStay({})
        BY <3>1 DEF EntriesStay, Cached
      <3> QED BY <2>1, <3>1, <3>2, NoticedRequest
    <2> QED BY <2>2, <2>3, <2>4, <2>5, <2>6, <2>7, <2>8, <2>9 DEF Next
  <1> QED BY <1>1, <1>2, MemoryAlways, PTL DEF Spec

\* A change of a cached file does not go unnoticed: an entry that was right when its
\* watch was added and is out of date now has an event that will drop it, although
\* names share a watch, a change may end it, and events are merged and read in
\* batches (inotify_add_watch, HtmlCacheEventHander).  Files of three names are
\* left out, for which it is not so.
THEOREM ChangesAreNoticed == Spec => []ChangeOnTheWay
  <1>1. Noticed => ChangeOnTheWay
    <2> SUFFICES ASSUME Noticed, NEW n \in Name, Stale(n), ~ ThreeNames(FileOf[n])
                 PROVE  cache[n].wd \in ToSet(Pending)
      BY DEF ChangeOnTheWay, Pending
    <2>1. n \in Cached /\ cache[n].fresh /\ ~ Current(n)
      BY DEF Stale, Current
    <2> QED BY <2>1 DEF Noticed, OnTheWay
  <1> QED BY <1>1, NoticedAlways, PTL
=============================================================================
