------------------------------ MODULE HtmlCache -----------------------------
(***************************************************************************)
(* The page cache of one worker (ProcessHttpRequest.c from line 135,       *)
(* HtmlCacheEventHander.c, HtmlCacheSession.c and the two trees), with the *)
(* files it caches, the inotify queue that tells of their changes, and the *)
(* responses in flight, whose http_buf points into the cached content.     *)
(*                                                                         *)
(* The worker is one thread: a request or a batch of events is finished    *)
(* before the next one, but the files change between any two of its system *)
(* calls.  Memory is a set of blocks, so that a pointer may outlive what   *)
(* it points to.  A deflated copy is treated as a gzipped one is.          *)
(***************************************************************************)
EXTENDS Integers, Sequences, FiniteSets, SequencesExt

CONSTANTS
    Session,     \* the HTTP sessions
    File,        \* regular files under wwwroot
    Name,        \* path names clients use
    FileOf,      \* the file each path name leads to
    Big,         \* the files larger than limits.max_file_cache
    Requested,   \* what clients ask for: a page, or a directory, which is its index pages
    Block,       \* blocks of memory
    Wd,          \* watch descriptors, numbers
    Null,
    MaxVersion,  \* bound: the changes of each file
    MaxEvents,   \* bound: a file does not change while this many are queued
    Failing      \* what may fail: "malloc", "inotify_add_watch", "mime"

ASSUME HtmlCacheAssumption ==
    /\ FileOf \in [Name -> File] /\ Big \subseteq File
    /\ Requested \subseteq Seq(Name) \ {<<>>}
    /\ Null \notin Block \cup Session
    /\ {"away", "nothing"} \cap File = {}
    /\ Wd \subseteq Nat
    /\ MaxVersion \in [File -> Nat] /\ MaxEvents \in Nat \ {0}
    /\ Failing \subseteq {"malloc", "inotify_add_watch", "mime"}

VARIABLES
    disk,      \* the version of each file, and whether it is there
    watching,  \* what each watch descriptor is on: a file, an inode moved away, nothing
    queue,     \* the events inotify has to deliver: watch descriptors
    batch,     \* the events HtmlCacheEventHander has read and not acted on
    cache,     \* the entries, found by path name and by wd
    heap,      \* what each allocated block holds
    http_buf,  \* base and ref_flag of the http_buf of each session
    response,  \* what each session is sending
    work,      \* the request that ProcessHttpRequest is at
    alive      \* WorkerThread has not returned

fileVars == <<disk, watching, queue>>
cacheVars == <<cache, heap>>
sessionVars == <<http_buf, response>>
vars == <<fileVars, cacheVars, sessionVars, batch, work, alive>>

\* A content holds the text of one version, cut or not to the size of another.
Version == UNION {0 .. MaxVersion[f] : f \in File}
Content == [name : Name, gzip : BOOLEAN, size : Version, text : Version]
NoContent == [name |-> Null]
Leaked == [name |-> "leaked"]    \* nobody has a pointer to the block
\* "fresh" is history: the file did not change between stat and the watch.
Entry == [wd : Wd, html_content : Block, html_gzip_content : Block \cup {Null}, fresh : BOOLEAN]
NoEntry == [html_content |-> Null]
NoWork == [step |-> "none"]
\* appended: p_append_buffer is set; promised: the content the header is of.
Receiving == [status |-> "receiving", appended |-> FALSE, promised |-> NoContent]

Cached == {n \in Name : cache[n] # NoEntry}
Free == {b \in Block : heap[b] = NoContent}
NoMemory(k) == "malloc" \in Failing \/ Cardinality(Free) < k
Contents(n) == {cache[n].html_content, cache[n].html_gzip_content} \ {Null}
Owned(s) == IF http_buf[s].ref_flag THEN {} ELSE {http_buf[s].base} \ {Null}
InUse(w) == \/ watching[w] # "nothing"
            \/ w \in ToSet(queue \o batch)
            \/ \E n \in Cached : cache[n].wd = w

Init ==
    /\ disk = [f \in File |-> [version |-> 0, there |-> TRUE]]
    /\ watching = [w \in Wd |-> "nothing"]
    /\ queue = <<>> /\ batch = <<>>
    /\ cache = [n \in Name |-> NoEntry]
    /\ heap = [b \in Block |-> NoContent]
    /\ http_buf = [s \in Session |-> [base |-> Null, ref_flag |-> TRUE]]
    /\ response = [s \in Session |-> Receiving]
    /\ work = NoWork /\ alive = TRUE

-----------------------------------------------------------------------------
(* Files and inotify.  Equal events in a row are merged; a watch ends with *)
(* IN_IGNORED, when it is removed and when the inode it is on is deleted.  *)

Watched(f) == {w \in Wd : watching[w] = f}
Notify(q, w) == IF q # <<>> /\ Last(q) = w THEN q ELSE Append(q, w)

Quiet == Len(queue) < MaxEvents
Changes(f) ==
    /\ Quiet /\ disk[f].version < MaxVersion[f]
    /\ disk' = [disk EXCEPT ![f] = [version |-> @.version + 1, there |-> TRUE]]

\* IN_MODIFY (or IN_CLOSE_WRITE, or both).
Modify(f) ==
    /\ disk[f].there /\ Changes(f)
    /\ queue' = IF Watched(f) = {} THEN queue
                ELSE Notify(queue, CHOOSE w \in Watched(f) : TRUE)
    /\ UNCHANGED watching

\* Another file is renamed to f's name, which deletes the old inode (IN_DELETE_SELF,
\* IN_IGNORED).
Replace(f) ==
    /\ Changes(f)
    /\ watching' = [w \in Wd |-> IF w \in Watched(f) THEN "nothing" ELSE watching[w]]
    /\ queue' = queue \o SetToSeq(Watched(f)) \o SetToSeq(Watched(f))

\* f is moved away (IN_MOVE_SELF): its watch goes with it.
MoveAway(f) ==
    /\ Quiet /\ disk[f].there
    /\ disk' = [disk EXCEPT ![f].there = FALSE]
    /\ watching' = [w \in Wd |-> IF w \in Watched(f) THEN "away" ELSE watching[w]]
    /\ queue' = queue \o SetToSeq(Watched(f))

FileChanges ==
    /\ alive
    /\ \E f \in File : Modify(f) \/ Replace(f) \/ MoveAway(f)
    /\ UNCHANGED <<cacheVars, sessionVars, batch, work, alive>>

-----------------------------------------------------------------------------
(* Buffers.                                                                *)

FreeBlocks(h, blocks) == [b \in Block |-> IF b \in blocks THEN NoContent ELSE h[b]]

\* Mistaken: a response with gzipped content is not looked at.
AffectedPlain(n) ==
    {s \in Session : response[s].appended /\ http_buf[s].base = cache[n].html_content}

\* DuplicateHttpBufferPtr gives every session whose response is of the entry a copy of its own.
Affected(n) ==
    {s \in Session : response[s].appended /\ http_buf[s].base \in Contents(n)}

ReallocHttpSessionChanged(n, copy) ==
    http_buf' = [s \in Session |->
        IF s \in DOMAIN copy THEN [base |-> copy[s], ref_flag |-> FALSE] ELSE http_buf[s]]

-----------------------------------------------------------------------------
(* ProcessHttpRequest: the stat, the reading of the file, and the response *)
(* with the watch are steps of their own, for the file may change between. *)

Idle == alive /\ work = NoWork /\ batch = <<>>

\* A request, and how far ProcessHttpRequest is with it: the names that are left,
\* the size that stat told and the block the page was read into.
Req(s, names, get, gzip) ==
    [step |-> "lookup", session |-> s, names |-> names, get |-> get, gzip |-> gzip,
     size |-> 0, block |-> Null]

\* A name that fails is followed by the next index page, or by the error page,
\* which does not take back an appended buffer.
NextName(r) ==
    IF Len(r.names) > 1
    THEN /\ work' = Req(r.session, Tail(r.names), r.get, r.gzip)
         /\ UNCHANGED response
    ELSE /\ work' = NoWork
         /\ response' = [response EXCEPT ![r.session].status = "error"]

NotFound(r) ==
    /\ ~ disk[FileOf[Head(r.names)]].there
    /\ NextName(r) /\ UNCHANGED <<watching, cacheVars, http_buf, alive>>

Stat(r) ==
    /\ disk[FileOf[Head(r.names)]].there
    /\ work' = [r EXCEPT !.step = "read", !.size = disk[FileOf[Head(r.names)]].version]
    /\ UNCHANGED <<watching, cacheVars, sessionVars, alive>>

\* Mistaken: the length of the buffer is taken for that of the page.
ReadOneTooMany(r, b) ==
    /\ disk[FileOf[Head(r.names)]].there /\ b \in Free
    /\ heap' = [heap EXCEPT ![b] = [name |-> Head(r.names), gzip |-> FALSE, size |-> r.size + 1,
                                    text |-> disk[FileOf[Head(r.names)]].version]]
    /\ work' = [r EXCEPT !.step = "answer", !.block = b]
    /\ UNCHANGED response

\* fread is asked for the size that stat told; a file that has changed since may
\* be shorter, and is cut when it is longer.
ReadOk(r, b) ==
    /\ disk[FileOf[Head(r.names)]].there /\ b \in Free
    /\ heap' = [heap EXCEPT ![b] = [name |-> Head(r.names), gzip |-> FALSE, size |-> r.size,
                                    text |-> disk[FileOf[Head(r.names)]].version]]
    /\ work' = [r EXCEPT !.step = "answer", !.block = b]
    /\ UNCHANGED response

ReadFails(r) ==
    /\ \/ ~ disk[FileOf[Head(r.names)]].there
       \/ disk[FileOf[Head(r.names)]].version # r.size
       \/ NoMemory(1)
    /\ NextName(r) /\ UNCHANGED heap

ReadFile ==
    /\ alive /\ work.step = "read"
    /\ ReadFails(work) \/ \E b \in Block : ReadOk(work, b)
    /\ UNCHANGED <<fileVars, cache, http_buf, batch, alive>>

-----------------------------------------------------------------------------
(* The second half of ProcessHttpRequest, for the request r whose page is  *)
(* in r.block.  z is the gzipped content, Null when the answer is not      *)
(* gzipped.                                                                *)

Gzipped(b) == [heap[b] EXCEPT !.gzip = TRUE]
Present(n) == IF n \in Cached THEN cache[n].html_gzip_content ELSE Null

\* CompressData is called when the entry has no gzipped content yet.
Compressed(r, z) ==
    LET present == Present(Head(r.names)) IN
    IF ~ r.gzip THEN z = Null
    ELSE IF present # Null THEN z = present
    ELSE z \in Free

WithGzip(r, z) == IF z = Null THEN heap ELSE [heap EXCEPT ![z] = Gzipped(r.block)]

Appended(r, z) == IF z = Null THEN r.block ELSE z

\* Mistaken: the mark of a buffer that owned a copy is left as it was.
SetHttpBufferBase(r, z) ==
    IF r.get THEN http_buf' = [http_buf EXCEPT ![r.session].base = Appended(r, z)]
    ELSE UNCHANGED http_buf

\* SetHttpBufferPtr refers to the content, and has freed what the buffer owned;
\* for HEAD there is only a header.
SetHttpBufferPtr(r, z) ==
    IF r.get
    THEN http_buf' = [http_buf EXCEPT ![r.session] = [base |-> Appended(r, z), ref_flag |-> TRUE]]
    ELSE UNCHANGED http_buf
Dropped(r) == IF r.get THEN Owned(r.session) ELSE {}

Answered(r, z, status) ==
    /\ SetHttpBufferPtr(r, z)
    /\ response' = [response EXCEPT ![r.session] =
         [status |-> status,
          appended |-> @.appended \/ r.get,
          promised |-> IF r.get THEN WithGzip(r, z)[Appended(r, z)] ELSE @.promised]]

AnswerCached(r, z) ==
    /\ cache' = [cache EXCEPT ![Head(r.names)].html_gzip_content = IF z = Null THEN @ ELSE z]
    /\ heap' = FreeBlocks(WithGzip(r, z), Dropped(r))
    /\ Answered(r, z, "ok")
    /\ work' = NoWork /\ UNCHANGED <<watching, alive>>

\* A page that is larger than the limit is freed as soon as it is appended.
AnswerBig(r, z) ==
    /\ FileOf[Head(r.names)] \in Big
    /\ heap' = FreeBlocks(WithGzip(r, z), Dropped(r) \cup {r.block, z})
    /\ Answered(r, z, "ok")
    /\ work' = NoWork /\ UNCHANGED <<watching, cache, alive>>

\* inotify_add_watch returns the descriptor that the inode has, if any.  A new one
\* is one that nothing refers to, which is all that the kernel's counting means.
AddWatch(f, w) ==
    IF Watched(f) # {} THEN w \in Watched(f)
    ELSE ~ InUse(w) /\ \A v \in Wd : v < w => InUse(v)

AnswerAndKeep(r, z, w) ==
    LET n == Head(r.names)
        f == FileOf[n]
    IN /\ f \notin Big /\ disk[f].there /\ AddWatch(f, w)
       /\ watching' = [watching EXCEPT ![w] = f]
       /\ cache' = [cache EXCEPT ![n] =
            [wd |-> w, html_content |-> r.block, html_gzip_content |-> z,
             fresh |-> heap[r.block].size = disk[f].version
                       /\ heap[r.block].text = disk[f].version]]
       /\ heap' = FreeBlocks(WithGzip(r, z), Dropped(r))
       /\ Answered(r, z, "ok")
       /\ work' = NoWork /\ UNCHANGED alive

\* No watch: the content is freed and 500 returned, with the buffer appended already.
WatchFails(r, z) ==
    /\ FileOf[Head(r.names)] \notin Big
    /\ "inotify_add_watch" \in Failing \/ ~ disk[FileOf[Head(r.names)]].there
    /\ heap' = FreeBlocks(WithGzip(r, z), Dropped(r) \cup {r.block, z})
    /\ IF Len(r.names) > 1
       THEN /\ Answered(r, z, "receiving")
            /\ work' = Req(r.session, Tail(r.names), r.get, r.gzip)
       ELSE /\ Answered(r, z, "error")
            /\ work' = NoWork
    /\ UNCHANGED <<watching, cache, alive>>

\* QueryMimeType knows no type, or CompressData fails; what was read is not freed.
Refused(r) ==
    LET n == Head(r.names) IN
    /\ \/ "mime" \in Failing
       \/ r.gzip /\ Present(n) = Null /\ NoMemory(1)
    /\ heap' = IF n \in Cached THEN heap ELSE [heap EXCEPT ![r.block] = Leaked]
    /\ NextName(r) /\ UNCHANGED <<watching, cache, http_buf, alive>>

\* There is no memory for the entry: the worker returns.
KeepFails(r) ==
    /\ FileOf[Head(r.names)] \notin Big /\ NoMemory(1)
    /\ alive' = FALSE
    /\ UNCHANGED <<watching, cacheVars, sessionVars, work>>

Answer ==
    /\ alive /\ work.step = "answer"
    /\ \/ \E z \in Block \cup {Null} :
            /\ Compressed(work, z)
            /\ \/ AnswerBig(work, z) \/ WatchFails(work, z)
               \/ \E w \in Wd : AnswerAndKeep(work, z, w)
       \/ Refused(work) \/ KeepFails(work)
    /\ UNCHANGED <<disk, queue, batch>>

-----------------------------------------------------------------------------
(* The first half: a page that is cached is answered at once.              *)

Hit(r) ==
    \/ \E z \in Block \cup {Null} : Compressed(r, z) /\ AnswerCached(r, z)
    \/ Refused(r)

Lookup(r) ==
    LET n == Head(r.names) IN
    /\ \/ n \in Cached /\ Hit([r EXCEPT !.block = cache[n].html_content])
       \/ n \notin Cached /\ (Stat(r) \/ NotFound(r))
    /\ UNCHANGED <<disk, queue, batch>>

\* A client asks for a page, or for a directory and with it for its index pages in turn.
Request(s) ==
    /\ Idle /\ response[s] = Receiving
    /\ \E names \in Requested, get, gzip \in BOOLEAN : Lookup(Req(s, names, get, gzip))

NextIndex ==
    /\ alive /\ work.step = "lookup"
    /\ Lookup(work)

\* OnSendingSocket has sent the response, or the session is released: either way
\* ResetHttpEnv forgets the appended buffer.  http_buf keeps a copy that it owns;
\* a reference is not looked at again, and counts as none.
ResponseEnds(s) ==
    /\ Idle /\ response[s] # Receiving
    /\ response' = [response EXCEPT ![s] = Receiving]
    /\ http_buf' = [http_buf EXCEPT ![s].base = IF http_buf[s].ref_flag THEN Null ELSE @]
    /\ UNCHANGED <<fileVars, cacheVars, batch, work, alive>>

-----------------------------------------------------------------------------
(* HtmlCacheEventHander.                                                   *)

ReadEvents ==
    /\ Idle /\ queue # <<>>
    /\ batch' = queue /\ queue' = <<>>
    /\ UNCHANGED <<disk, watching, cacheVars, sessionVars, work, alive>>

\* Mistaken: the watch is left to the kernel.
WatchKept(w) == UNCHANGED <<watching, queue>>

\* inotify_rm_watch fails where the watch is gone, and is followed by IN_IGNORED otherwise.
RemoveWatch(w) ==
    /\ watching' = [watching EXCEPT ![w] = "nothing"]
    /\ queue' = IF watching[w] = "nothing" THEN queue ELSE Append(queue, w)

\* One of the entries that have the descriptor: the one the tree finds first.
Matching(w) == {n \in Cached : cache[n].wd = w}

Evict(n) ==
    /\ \E copy \in [Affected(n) -> Free] :
         /\ IsInjective(copy)
         /\ ReallocHttpSessionChanged(n, copy)
         /\ heap' = [b \in Block |->
              IF b \in Contents(n) THEN NoContent
              ELSE IF \E s \in Affected(n) : copy[s] = b
              THEN heap[http_buf[CHOOSE s \in Affected(n) : copy[s] = b].base]
              ELSE heap[b]]
    /\ cache' = [cache EXCEPT ![n] = NoEntry]
    /\ RemoveWatch(cache[n].wd)
    /\ batch' = Tail(batch) /\ UNCHANGED <<response, alive>>

DuplicateFails(n) ==
    /\ Affected(n) # {}
    /\ NoMemory(Cardinality(Affected(n)))
    /\ alive' = FALSE
    /\ UNCHANGED <<watching, queue, cacheVars, sessionVars, batch>>

HtmlCacheEventHander ==
    /\ alive /\ batch # <<>>
    /\ \/ \E n \in Matching(Head(batch)) : Evict(n) \/ DuplicateFails(n)
       \/ /\ Matching(Head(batch)) = {}
          /\ batch' = Tail(batch)
          /\ UNCHANGED <<watching, queue, cacheVars, sessionVars, alive>>
    /\ UNCHANGED <<disk, work>>

-----------------------------------------------------------------------------
Next ==
    \/ FileChanges
    \/ \E s \in Session : Request(s) \/ ResponseEnds(s)
    \/ NextIndex \/ ReadFile \/ Answer
    \/ ReadEvents \/ HtmlCacheEventHander

Spec == Init /\ [][Next]_vars

-----------------------------------------------------------------------------
(* Properties.                                                             *)

HtmlCacheTypeOK ==
    /\ disk \in [File -> [version : Version, there : BOOLEAN]]
    /\ watching \in [Wd -> File \cup {"away", "nothing"}]
    /\ queue \in Seq(Wd) /\ batch \in Seq(Wd)
    /\ cache \in [Name -> Entry \cup {NoEntry}]
    /\ heap \in [Block -> Content \cup {NoContent, Leaked}]
    /\ http_buf \in [Session -> [base : Block \cup {Null}, ref_flag : BOOLEAN]]
    /\ response \in [Session -> [status : {"receiving", "ok", "error"},
                                appended : BOOLEAN, promised : Content \cup {NoContent}]]
    /\ work \in {NoWork} \cup [step : {"lookup", "read", "answer"}, session : Session,
                              names : Seq(Name) \ {<<>>}, get : BOOLEAN, gzip : BOOLEAN,
                              size : Version, block : Block \cup {Null}]
    /\ alive \in BOOLEAN

Intact(s) == heap[http_buf[s].base] = response[s].promised

\* What a response that is being sent points to is what its header was made for,
\* whatever has happened to the file, the entry and the other responses since
\* (ReallocHttpSessionChanged, SetHttpBufferPtr), for pages within the limit.
CachedPageReachesClient ==
    \A s \in Session :
        /\ response[s].status = "ok" /\ response[s].appended
        /\ FileOf[response[s].promised.name] \notin Big
        => Intact(s)

\* The same for every page: one that is too large to be kept is still served.
PageReachesClient ==
    \A s \in Session : response[s].status = "ok" /\ response[s].appended => Intact(s)

\* Memory has one owner.  A block is freed by its entry (FreeHtmlCacheSession), by
\* the http_buf that owns it (SetHttpBufferPtr) or by the request that read it, and
\* by no two of them; and none is forgotten, except where a request is refused.
Owners(b) ==
    {n \in Cached : b \in Contents(n)} \cup {s \in Session : b \in Owned(s)}
    \cup {r \in {work} : r.step = "answer" /\ r.block = b}
OneOwner ==
    \A b \in Block :
        Cardinality(Owners(b)) = IF heap[b] \in {NoContent, Leaked} THEN 0 ELSE 1

Stale(n) ==
    /\ n \in Cached /\ cache[n].fresh
    /\ \/ ~ disk[FileOf[n]].there
       \/ heap[cache[n].html_content].text # disk[FileOf[n]].version

\* An entry that was right when its watch was added, and is not any more, has an
\* event on the way that will drop it, also when another name of the file shares
\* its watch and lost it first (inotify_add_watch, HtmlCacheEventHander).  Where a
\* file has three names the events of a change may drop two entries and the watch.
ThreeNames(f) ==
    \E k, m, n \in Name : /\ k # m /\ k # n /\ m # n
                          /\ FileOf[k] = f /\ FileOf[m] = f /\ FileOf[n] = f
ChangeOnTheWay ==
    alive => \A n \in Name :
        Stale(n) /\ ~ ThreeNames(FileOf[n]) => cache[n].wd \in ToSet(batch \o queue)
=============================================================================
