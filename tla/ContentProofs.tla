---------------------------- MODULE ContentProofs ----------------------------
(***************************************************************************)
(* Proofs about files and posts, for any number of requests.               *)
(***************************************************************************)
EXTENDS Content, FiniteSetTheorems, SequenceTheorems, TLAPS

-----------------------------------------------------------------------------
(* Files.                                                                  *)

FileType ==
    /\ upload \in [Uploads -> UploadSteps]
    /\ replaced \in [Uploads -> Uploads \cup {NoFile}]
    /\ slot \in Uploads \cup {NoFile}
    /\ blobs \in [Uploads -> {"none", "partial", "whole"}]
    /\ rows \in [Uploads -> {"none", "live", "deleted", "retired"}]
    /\ deletion \in [Deletions -> [step : {"new", "read", "done"}, key : Uploads \cup {NoFile}]]
    /\ announced \in [Uploads -> Nat]
    /\ handled \subseteq Uploads

\* What an upload has done by each of its steps.
UploadInv(u) ==
    /\ upload[u] = "new" => blobs[u] = "none" /\ rows[u] = "none" /\ replaced[u] = NoFile
    /\ upload[u] = "stored" =>
           blobs[u] = "whole" /\ rows[u] = "none" /\ replaced[u] = NoFile
    /\ upload[u] = "cleanup" /\ rows[u] # "deleted" => blobs[u] = "whole"
    /\ rows[u] = "none" => upload[u] \in {"new", "stored", "cleanup", "failed"}
    /\ rows[u] # "none" => blobs[u] # "partial"
    /\ upload[u] \in {"retire", "answered"} /\ blobs[u] # "whole" => rows[u] = "deleted"
    /\ upload[u] = "retire" => replaced[u] \in Uploads /\ rows[replaced[u]] # "none"

\* What became of its file.
FileInv(u) ==
    /\ announced[u] = IF rows[u] = "deleted" THEN 1 ELSE 0
    /\ u \in handled => rows[u] = "deleted" /\ blobs[u] = "none"
    /\ rows[u] = "retired" => \E w \in Uploads : replaced[w] = u /\ upload[w] # "stored"
    /\ slot = u => rows[u] # "none"

DeletionInv ==
    \A d \in Deletions : deletion[d].step = "read" =>
        deletion[d].key \in Uploads /\ rows[deletion[d].key] # "none"

FilesInv == FileType /\ (\A u \in Uploads : UploadInv(u) /\ FileInv(u)) /\ DeletionInv

LEMMA FilesInitially == FileInit => FilesInv
<1> SUFFICES ASSUME FileInit PROVE FilesInv
  OBVIOUS
<1> USE DEF FileInit
<1>0. NoFile \notin Uploads
  BY DEF NoFile, Uploads
<1>1. FileType
  BY DEF FileType, NoDeletion, UploadSteps
<1>2. ASSUME NEW u \in Uploads PROVE UploadInv(u) /\ FileInv(u)
  BY <1>0 DEF UploadInv, FileInv
<1>3. DeletionInv
  BY DEF DeletionInv, NoDeletion
<1>4. QED BY <1>1, <1>2, <1>3 DEF FilesInv

LEMMA FileTypeStep ==
    ASSUME FilesInv, FileArrival \/ FileStep
    PROVE  FileType'
<1> USE DEF FilesInv, FileType, UploadSteps
<1>1. ASSUME NEW u \in Uploads, PutBlob(u) PROVE FileType'
  BY <1>1 DEF PutBlob
<1>2. ASSUME NEW d \in Deletions, FindFile(d) PROVE FileType'
  BY <1>2 DEF FindFile
<1>3. ASSUME NEW u \in Uploads, CommitUpload(u) PROVE FileType'
  BY <1>3 DEF CommitUpload
<1>4. ASSUME NEW u \in Uploads, RejectUpload(u) PROVE FileType'
  BY <1>4 DEF RejectUpload
<1>5. ASSUME NEW u \in Uploads, CleanUp(u) PROVE FileType'
  BY <1>5 DEF CleanUp
<1>6. ASSUME NEW u \in Uploads, Retire(u) PROVE FileType'
  BY <1>6 DEF Retire
<1>7. ASSUME NEW u \in Uploads, StopUpload(u) PROVE FileType'
  BY <1>7 DEF StopUpload
<1>8. ASSUME NEW u \in Uploads, HandleDeleted(u) PROVE FileType'
  BY <1>8 DEF HandleDeleted, Removed
<1>9. ASSUME NEW d \in Deletions, DeleteFile(d) PROVE FileType'
  BY <1>9 DEF DeleteFile, DeletionInv
<1>10. QED
  BY <1>1, <1>2, <1>3, <1>4, <1>5, <1>6, <1>7, <1>8, <1>9 DEF FileArrival, FileStep

LEMMA FilesInvStep ==
    ASSUME FilesInv, FileArrival \/ FileStep
    PROVE  FilesInv'
<1>0. FileType /\ FileType' /\ DeletionInv /\ NoFile \notin Uploads
      /\ \A u \in Uploads : UploadInv(u) /\ FileInv(u)
  BY FileTypeStep DEF FilesInv, NoFile, Uploads
<1> DEFINE Good == (\A v \in Uploads : UploadInv(v)' /\ FileInv(v)') /\ DeletionInv'
<1> USE <1>0 DEF FileType, UploadInv, FileInv, DeletionInv
<1>1. ASSUME NEW u \in Uploads, PutBlob(u) PROVE Good
  BY <1>1 DEF PutBlob
<1>2. ASSUME NEW d \in Deletions, FindFile(d) PROVE Good
  BY <1>2 DEF FindFile, FoundFile
<1>3. ASSUME NEW u \in Uploads, CommitUpload(u) PROVE Good
  BY <1>3 DEF CommitUpload
<1>4. ASSUME NEW u \in Uploads, RejectUpload(u) PROVE Good
  BY <1>4 DEF RejectUpload
<1>5. ASSUME NEW u \in Uploads, CleanUp(u) PROVE Good
  BY <1>5 DEF CleanUp
<1>6. ASSUME NEW u \in Uploads, Retire(u) PROVE Good
  BY <1>6 DEF Retire
<1>7. ASSUME NEW u \in Uploads, StopUpload(u) PROVE Good
  BY <1>7 DEF StopUpload
<1>8. ASSUME NEW u \in Uploads, HandleDeleted(u) PROVE Good
  BY <1>8 DEF HandleDeleted, Removed, Due
<1>9. ASSUME NEW d \in Deletions, DeleteFile(d) PROVE Good
  BY <1>9 DEF DeleteFile, Deletable
<1>10. QED
  BY <1>1, <1>2, <1>3, <1>4, <1>5, <1>6, <1>7, <1>8, <1>9
  DEF FileArrival, FileStep, FilesInv

LEMMA FilesInvCorrect == Spec => []FilesInv
<1>1. Init => FilesInv
  BY FilesInitially DEF Init
<1>2. FilesInv /\ [Next]_vars => FilesInv'
  <2> SUFFICES ASSUME FilesInv, [Next]_vars PROVE FilesInv'
    OBVIOUS
  <2>1. CASE UNCHANGED fileVars
    BY <2>1 DEF fileVars, FilesInv, FileType, UploadInv, FileInv, DeletionInv
  <2>2. CASE FileArrival \/ FileStep
    BY <2>2, FilesInvStep
  <2>3. QED BY <2>1, <2>2 DEF Next, vars
<1>3. QED BY <1>1, <1>2, PTL DEF Spec

\* uploadHandler, for any number of uploads, deletions and failures: a file
\* whose upload was answered and that nobody deleted has all its bytes, and
\* nobody is served half a file.
THEOREM LiveFileHasBytesCorrect == Spec => []LiveFileHasBytes
<1>1. FilesInv => LiveFileHasBytes
  BY DEF FilesInv, FileType, UploadInv, LiveFileHasBytes, Served, FoundFile, Opens
<1>2. QED BY <1>1, FilesInvCorrect, PTL

\* Bytes without a live row belong to an upload that is in progress or failed,
\* to a deletion that the worker is not done with, or to a replaced file.
THEOREM OrphansExplainedCorrect == Spec => []OrphansExplained
<1>1. FilesInv => OrphansExplained
  BY DEF FilesInv, FileType, UploadInv, FileInv, OrphansExplained, Due
<1>2. QED BY <1>1, FilesInvCorrect, PTL

\* deleteHandler: a deleted file has one event however many requests meet, and
\* the worker removes bytes only of a file that has one.
THEOREM DeletedOnceCorrect == Spec => []DeletedOnce
<1>1. FilesInv => DeletedOnce
  BY DEF FilesInv, FileType, UploadInv, FileInv, DeletedOnce
<1>2. QED BY <1>1, FilesInvCorrect, PTL

-----------------------------------------------------------------------------
(* Posts.                                                                  *)

Call == [step : {"new", "read", "ok", "conflict", "missing", "error"},
         kind : {"", "update", "delete"}, post : Nat,
         row : Post \cup {<<>>}, patch : Patches \cup {NoPatch}]

PostType ==
    /\ posts \in Seq(Post) /\ postEvents \in Seq(PostEvent)
    /\ call \in [Requests -> Call]

\* An update of the post was answered with success.
Updated(p) == \E r \in Requests : call[r].step = "ok" /\ call[r].kind = "update" /\ call[r].post = p

\* What a request between its two statements has read: the row as it still is,
\* deleted or not, or an earlier version that an update has replaced.
CopyInv(r) ==
    LET p == call[r].post
        copy == call[r].row
    IN  call[r].step = "read" =>
            /\ p \in DOMAIN posts /\ copy \in Post /\ ~copy.deleted
            /\ copy.position = posts[p].position
            /\ copy.version <= posts[p].version
            /\ copy.version = posts[p].version =>
                   copy.text = posts[p].text /\ copy.visible = posts[p].visible
            /\ copy.version < posts[p].version => Updated(p)

PostsInv == PostType /\ \A r \in Requests : CopyInv(r)

LEMMA PostsInitially == PostInit => PostsInv
<1> SUFFICES ASSUME PostInit PROVE PostsInv
  OBVIOUS
<1>1. NoCall \in Call /\ NoCall.step = "new"
  BY DEF NoCall, Call
<1>2. posts \in Seq(Post) /\ postEvents \in Seq(PostEvent)
  BY DEF PostInit
<1>3. QED BY <1>1, <1>2 DEF PostInit, PostsInv, PostType, CopyInv

\* Every step of the posts is one of these.
Answered(r) ==
    /\ call[r].step = "read"
    /\ \E a \in {"ok", "conflict", "missing", "error"} : Answer(r, a)

PostAppended(r) ==
    /\ call[r].step = "new"
    /\ \E n \in 1..MaxPosition : /\ \A q \in DOMAIN posts : posts[q].position # n
                                 /\ posts' = Append(posts, NewPost(r, n))
    /\ postEvents' = CreationEvents
    /\ Answer(r, "ok")
    /\ Disturb

PostUpdated(r) ==
    LET version == call[r].row.version + 1 IN
    /\ call[r].step = "read" /\ call[r].kind = "update" /\ Writable(r)
    /\ posts' = [posts EXCEPT ![call[r].post] = [Merged(r) EXCEPT !.version = version]]
    /\ postEvents' = UpdateEvents(r, version)
    /\ Answer(r, "ok")
    /\ Disturb

PostDeleted(r) ==
    /\ call[r].step = "read" /\ Found(call[r].post)
    /\ posts' = [posts EXCEPT ![call[r].post].deleted = TRUE]
    /\ postEvents' = DeletionEvents(r)
    /\ Answer(r, "ok")
    /\ Disturb

PostOnly(r) ==
    /\ UNCHANGED <<posts, postEvents, walk>>
    /\ ReadPost(r) \/ Answered(r)

Walks ==
    /\ UNCHANGED <<posts, postEvents, call>>
    /\ StartWalk \/ CursorPage \/ OffsetPage

LEMMA PostSteps ==
    ASSUME PostArrival \/ PostStep
    PROVE  \/ Walks
           \/ \E r \in Requests : PostAppended(r) \/ PostUpdated(r) \/ PostDeleted(r) \/ PostOnly(r)
<1>1. ASSUME NEW r \in Requests, CreatePost(r) PROVE PostAppended(r)
  <2>1. PICK n \in 1..MaxPosition \ {posts[q].position : q \in DOMAIN posts} :
            posts' = Append(posts, NewPost(r, n))
    BY <1>1 DEF CreatePost
  <2>2. QED BY <1>1, <2>1 DEF CreatePost, PostAppended, Arrives
<1>2. ASSUME NEW r \in Requests, UpdatePost(r) PROVE PostUpdated(r) \/ PostOnly(r)
  BY <1>2 DEF UpdatePost, PostUpdated, PostOnly, Answered
<1>3. ASSUME NEW r \in Requests, DeletePost(r) PROVE PostDeleted(r) \/ PostOnly(r)
  BY <1>3 DEF DeletePost, PostDeleted, PostOnly, Answered, SoftDeleted
<1>4. ASSUME NEW r \in Requests, FailPost(r) PROVE PostOnly(r)
  BY <1>4 DEF FailPost, PostOnly, Answered
<1>5. ASSUME NEW r \in Requests, ReadPost(r) PROVE PostOnly(r)
  BY <1>5 DEF ReadPost, PostOnly
<1>6. CASE StartWalk \/ CursorPage \/ OffsetPage
  BY <1>6 DEF StartWalk, CursorPage, OffsetPage, Walks
<1>7. QED BY <1>1, <1>2, <1>3, <1>4, <1>5, <1>6 DEF PostArrival, PostStep

\* An answer keeps the other requests as they were.
LEMMA AnswerKeeps ==
    ASSUME PostType, NEW r \in Requests, NEW a \in {"ok", "conflict", "missing", "error"},
           Answer(r, a)
    PROVE  /\ call' \in [Requests -> Call]
           /\ call'[r].step = a /\ call'[r].kind = call[r].kind /\ call'[r].post = call[r].post
           /\ \A q \in Requests \ {r} : call'[q] = call[q]
<1> DEFINE first == [call[r] EXCEPT !.step = a]
           second == [first EXCEPT !.row = <<>>]
           third == [second EXCEPT !.patch = NoPatch]
<1>1. first \in Call /\ first.step = a /\ first.kind = call[r].kind /\ first.post = call[r].post
  BY DEF PostType, Call
<1>2. second \in Call /\ second.step = a /\ second.kind = call[r].kind /\ second.post = call[r].post
  <2> HIDE DEF first
  <2>1. QED BY <1>1 DEF Call
<1>3. third \in Call /\ third.step = a /\ third.kind = call[r].kind /\ third.post = call[r].post
  <2> HIDE DEF second
  <2>1. QED BY <1>2 DEF Call
<1>4. call' = [call EXCEPT ![r] = third]
  BY DEF Answer, PostType
<1> HIDE DEF third
<1>5. QED BY <1>3, <1>4 DEF PostType

\* The row that an update writes.
LEMMA MergedRow ==
    ASSUME PostsInv, NEW r \in Requests, call[r].step = "read"
    PROVE  LET row == [Merged(r) EXCEPT !.version = call[r].row.version + 1] IN
           /\ row \in Post
           /\ row.version = call[r].row.version + 1
           /\ row.text = [f \in Fields |-> IF f \in call[r].patch.fields THEN r
                                           ELSE call[r].row.text[f]]
           /\ row.visible = Merged(r).visible
           /\ row.deleted = call[r].row.deleted /\ row.position = call[r].row.position
<1>1. call[r].row \in Post
  BY DEF PostsInv, CopyInv
<1> DEFINE text == [f \in Fields |-> IF f \in call[r].patch.fields THEN r ELSE call[r].row.text[f]]
           visible == IF call[r].patch.visible = "keep" THEN call[r].row.visible
                      ELSE call[r].patch.visible = "show"
           first == [call[r].row EXCEPT !.text = text]
           second == [first EXCEPT !.visible = visible]
           third == [second EXCEPT !.version = call[r].row.version + 1]
           Same(row) == row.deleted = call[r].row.deleted /\ row.position = call[r].row.position
<1>2. text \in [Fields -> Requests] /\ visible \in BOOLEAN
  BY <1>1 DEF Post
<1>3. Merged(r) = second
  BY <1>1 DEF Merged, Post
<1>4. first \in Post /\ first.text = text /\ Same(first)
  <2> HIDE DEF text
  <2>1. QED BY <1>1, <1>2 DEF Post
<1>5. second \in Post /\ second.text = text /\ second.visible = visible /\ Same(second)
  <2> HIDE DEF text, visible, first
  <2>1. QED BY <1>2, <1>4 DEF Post
<1>6. /\ third \in Post /\ third.text = text /\ third.version = call[r].row.version + 1
      /\ third.visible = visible /\ Same(third)
  <2> HIDE DEF text, visible, second
  <2>1. QED BY <1>1, <1>5 DEF Post
<1>7. QED BY <1>3, <1>5, <1>6

\* What a step of request r does to the rows: a row is added, the row that r has
\* read is updated, or it is deleted.
LEMMA AppendedRows ==
    ASSUME PostsInv, NEW r \in Requests, PostAppended(r)
    PROVE  LET new == Len(posts) + 1 IN
           /\ posts' \in Seq(Post) /\ new \notin DOMAIN posts
           /\ DOMAIN posts' = DOMAIN posts \cup {new}
           /\ \A p \in DOMAIN posts : posts'[p] = posts[p] /\ posts'[new].position # posts[p].position
           /\ posts'[new].visible /\ ~posts'[new].deleted /\ posts'[new].version = 1
<1>1. PICK n \in 1..MaxPosition : /\ \A q \in DOMAIN posts : posts[q].position # n
                                  /\ posts' = Append(posts, NewPost(r, n))
  BY DEF PostAppended
<1>2. posts \in Seq(Post)
  BY DEF PostsInv, PostType
<1>3. /\ NewPost(r, n) \in Post /\ NewPost(r, n).position = n /\ NewPost(r, n).visible
      /\ ~NewPost(r, n).deleted /\ NewPost(r, n).version = 1
  BY DEF NewPost, Post
<1>4. QED BY <1>1, <1>2, <1>3

LEMMA UpdatedRows ==
    ASSUME PostsInv, NEW r \in Requests, PostUpdated(r)
    PROVE  LET p == call[r].post IN
           /\ posts' \in Seq(Post) /\ DOMAIN posts' = DOMAIN posts /\ p \in DOMAIN posts
           /\ call[r].row.version = posts[p].version /\ call[r].row.visible = posts[p].visible
           /\ ~posts[p].deleted /\ ~posts'[p].deleted
           /\ posts'[p].version = posts[p].version + 1 /\ posts'[p].visible = Merged(r).visible
           /\ posts'[p].position = posts[p].position
           /\ \A f \in Fields : posts'[p].text[f] = IF f \in call[r].patch.fields THEN r
                                                   ELSE posts[p].text[f]
           /\ \A o \in DOMAIN posts \ {p} : posts'[o] = posts[o]
<1> DEFINE p == call[r].post
           row == [Merged(r) EXCEPT !.version = call[r].row.version + 1]
<1>1. /\ posts \in Seq(Post) /\ p \in DOMAIN posts /\ call[r].row.version = posts[p].version
      /\ call[r].row.text = posts[p].text /\ call[r].row.visible = posts[p].visible
      /\ ~posts[p].deleted /\ ~call[r].row.deleted /\ call[r].row.position = posts[p].position
  BY DEF PostsInv, PostType, CopyInv, PostUpdated, Writable, Found
<1>2. /\ row \in Post /\ row.version = posts[p].version + 1 /\ row.visible = Merged(r).visible
      /\ ~row.deleted /\ row.position = posts[p].position
      /\ \A f \in Fields : row.text[f] = IF f \in call[r].patch.fields THEN r ELSE posts[p].text[f]
  <2>1. /\ row \in Post /\ row.version = call[r].row.version + 1
        /\ row.text = [f \in Fields |-> IF f \in call[r].patch.fields THEN r ELSE call[r].row.text[f]]
        /\ row.visible = Merged(r).visible
        /\ row.deleted = call[r].row.deleted /\ row.position = call[r].row.position
    BY MergedRow DEF PostUpdated
  <2> HIDE DEF row
  <2>2. QED BY <1>1, <2>1
<1>3. posts' = [posts EXCEPT ![p] = row]
  BY DEF PostUpdated
<1> HIDE DEF row
<1>4. QED BY <1>1, <1>2, <1>3

LEMMA DeletedRows ==
    ASSUME PostsInv, NEW r \in Requests, PostDeleted(r)
    PROVE  LET p == call[r].post IN
           /\ posts' \in Seq(Post) /\ DOMAIN posts' = DOMAIN posts /\ p \in DOMAIN posts
           /\ ~posts[p].deleted /\ posts'[p].deleted
           /\ \A o \in DOMAIN posts : /\ posts'[o].version = posts[o].version
                                      /\ posts'[o].text = posts[o].text
                                      /\ posts'[o].visible = posts[o].visible
                                      /\ posts'[o].position = posts[o].position
           /\ \A o \in DOMAIN posts \ {p} : posts'[o] = posts[o]
<1> DEFINE p == call[r].post
           row == [posts[p] EXCEPT !.deleted = TRUE]
<1>1. posts \in Seq(Post) /\ p \in DOMAIN posts /\ posts[p] \in Post
  BY DEF PostsInv, PostType, CopyInv, PostDeleted
<1>2. /\ row \in Post /\ row.version = posts[p].version /\ row.text = posts[p].text
      /\ row.visible = posts[p].visible /\ row.position = posts[p].position /\ row.deleted
  BY <1>1 DEF Post
<1>3. posts' = [posts EXCEPT ![p] = row]
  BY <1>1 DEF PostDeleted
<1>4. ~posts[p].deleted
  BY DEF PostDeleted, Found
<1> HIDE DEF row
<1>5. QED BY <1>1, <1>2, <1>3, <1>4

LEMMA UpdatedStays ==
    ASSUME PostType, NEW p, Updated(p), NEW r \in Requests, call[r].step \in {"new", "read"},
           \A q \in Requests \ {r} : call'[q] = call[q]
    PROVE  Updated(p)'
BY DEF Updated

LEMMA RowTyped ==
    ASSUME PostType, NEW p \in DOMAIN posts
    PROVE  /\ p \in Nat \ {0} /\ posts[p] \in Post
           /\ posts[p].version \in Nat \ {0} /\ posts[p].visible \in BOOLEAN
           /\ posts[p].deleted \in BOOLEAN
           /\ posts[p].position \in 1..MaxPosition
<1>1. p \in Nat \ {0} /\ posts[p] \in Post
  BY DEF PostType
<1>2. QED BY <1>1 DEF Post

\* A copy stays as good as its row allows.
LEMMA CopyKept ==
    ASSUME PostType, NEW q \in Requests, CopyInv(q), call'[q] = call[q],
           \A p : Updated(p) => Updated(p)',
           NEW p \in DOMAIN posts, p = call[q].post, p \in DOMAIN posts',
           posts'[p].position = posts[p].position,
           \/ /\ posts'[p].version = posts[p].version
              /\ posts'[p].text = posts[p].text /\ posts'[p].visible = posts[p].visible
           \/ posts'[p].version = posts[p].version + 1 /\ Updated(p)'
    PROVE  CopyInv(q)'
<1> SUFFICES ASSUME call[q].step = "read" PROVE CopyInv(q)'
  BY DEF CopyInv
<1>1. call[q].row \in Post
  BY DEF CopyInv
<1>2. posts[p].version \in Nat /\ call[q].row.version \in Nat
  BY <1>1, RowTyped DEF Post
<1>3. QED BY <1>2 DEF CopyInv

LEMMA CopyOf ==
    ASSUME PostsInv, NEW r \in Requests, ReadPost(r), UNCHANGED posts
    PROVE  PostsInv'
<1>0. posts \in Seq(Post) /\ postEvents \in Seq(PostEvent) /\ call \in [Requests -> Call]
  BY DEF PostsInv, PostType
<1>1. PICK p \in DOMAIN posts, kind \in {"update", "delete"}, patch \in Patches \cup {NoPatch} :
        /\ Found(p)
        /\ call' = [call EXCEPT ![r] = [step |-> "read", kind |-> kind, post |-> p,
                                        row |-> posts[p], patch |-> patch]]
  BY DEF ReadPost
<1>2. p \in Nat /\ posts[p] \in Post /\ ~posts[p].deleted /\ posts[p].version \in Nat
  BY <1>1, RowTyped DEF Found, PostsInv
<1> DEFINE new == [step |-> "read", kind |-> kind, post |-> p, row |-> posts[p], patch |-> patch]
<1>3. new \in Call /\ new.step = "read" /\ new.post = p /\ new.row = posts[p]
  BY <1>2 DEF Call
<1> HIDE DEF new
<1>4. call' \in [Requests -> Call] /\ call'[r] = new /\ \A q \in Requests \ {r} : call'[q] = call[q]
  BY <1>0, <1>1, <1>3 DEF new
<1>5. CopyInv(r)'
  BY <1>1, <1>2, <1>3, <1>4 DEF CopyInv
<1>6. call[r].step = "new"
  BY DEF ReadPost, Arrives
<1>7. ASSUME NEW q \in Requests \ {r} PROVE CopyInv(q)'
  <2>1. \A o : Updated(o) => Updated(o)'
    BY <1>4, <1>6, UpdatedStays DEF PostsInv
  <2>2. QED BY <1>4, <2>1 DEF CopyInv, PostsInv
<1>8. UNCHANGED postEvents
  BY DEF ReadPost
<1>9. QED BY <1>0, <1>4, <1>5, <1>7, <1>8 DEF PostsInv, PostType

\* The three kinds of events.
LEMMA EventsTyped ==
    ASSUME PostsInv, NEW r \in Requests, PostAppended(r) \/ PostUpdated(r) \/ PostDeleted(r)
    PROVE  postEvents' \in Seq(PostEvent)
<1>0. postEvents \in Seq(PostEvent)
  BY DEF PostsInv, PostType
<1>1. ASSUME NEW p \in Nat \ {0}, NEW type \in {"created", "updated", "visibility", "deleted"},
             NEW version \in Nat \ {0}, NEW before \in BOOLEAN, NEW after \in BOOLEAN
      PROVE  Tell(p, type, version, before, after) \in Seq(PostEvent)
  <2>1. [post |-> p, type |-> type, version |-> version, before |-> before, after |-> after] \in PostEvent
    BY DEF PostEvent
  <2>2. QED BY <1>0, <2>1 DEF Tell
<1>2. CASE PostAppended(r)
  <2>1. Len(posts) + 1 \in Nat \ {0}
    BY DEF PostsInv, PostType
  <2>2. Tell(Len(posts) + 1, "created", 1, TRUE, TRUE) \in Seq(PostEvent)
    <3>1. [post |-> Len(posts) + 1, type |-> "created", version |-> 1, before |-> TRUE,
           after |-> TRUE] \in PostEvent
      BY <2>1 DEF PostEvent
    <3>2. QED BY <1>0, <3>1 DEF Tell
  <2>3. QED BY <1>2, <2>2 DEF PostAppended, CreationEvents
<1>3. CASE call[r].step = "read"
  <2>1. /\ call[r].post \in Nat \ {0} /\ call[r].row \in Post
        /\ call[r].row.version \in Nat \ {0} /\ call[r].row.visible \in BOOLEAN
    BY <1>3 DEF PostsInv, PostType, CopyInv, Post
  <2>2. Merged(r).visible \in BOOLEAN
    <3>1. [Merged(r) EXCEPT !.version = call[r].row.version + 1] \in Post
      BY <1>3, MergedRow
    <3>2. [Merged(r) EXCEPT !.version = call[r].row.version + 1].visible = Merged(r).visible
      BY <1>3, MergedRow
    <3>3. QED BY <3>1, <3>2 DEF Post
  <2>3. call[r].row.version + 1 \in Nat \ {0}
    BY <2>1
  <2>4. CASE PostUpdated(r)
    BY <1>0, <1>1, <2>1, <2>2, <2>3, <2>4 DEF PostUpdated, UpdateEvents
  <2>5. CASE PostDeleted(r)
    BY <1>1, <2>1, <2>5 DEF PostDeleted, DeletionEvents
  <2>6. CASE PostAppended(r)
    BY <1>3, <2>6 DEF PostAppended
  <2>7. QED BY <2>4, <2>5, <2>6
<1>4. QED BY <1>2, <1>3 DEF PostUpdated, PostDeleted

LEMMA PostsInvStep ==
    ASSUME PostsInv, PostArrival \/ PostStep
    PROVE  PostsInv' /\ \A p : Updated(p) => Updated(p)'
<1>0. PostType /\ \A r \in Requests : CopyInv(r)
  BY DEF PostsInv
<1>1. CASE Walks
  BY <1>0, <1>1 DEF Walks, PostsInv, PostType, CopyInv, Updated
<1>2. ASSUME NEW r \in Requests, NEW a \in {"ok", "conflict", "missing", "error"}, Answer(r, a),
             call[r].step \in {"new", "read"},
             posts' \in Seq(Post), postEvents' \in Seq(PostEvent),
             \A p \in DOMAIN posts :
                 /\ p \in DOMAIN posts' /\ posts'[p].position = posts[p].position
                 /\ \/ /\ posts'[p].version = posts[p].version
                       /\ posts'[p].text = posts[p].text /\ posts'[p].visible = posts[p].visible
                    \/ /\ posts'[p].version = posts[p].version + 1
                       /\ p = call[r].post /\ call[r].kind = "update" /\ a = "ok"
      PROVE  PostsInv' /\ \A p : Updated(p) => Updated(p)'
  <2>1. call' \in [Requests -> Call] /\ call'[r].step = a
        /\ call'[r].kind = call[r].kind /\ call'[r].post = call[r].post
        /\ \A q \in Requests \ {r} : call'[q] = call[q]
    BY <1>0, <1>2, AnswerKeeps
  <2>2. \A p : Updated(p) => Updated(p)'
    BY <1>0, <1>2, <2>1, UpdatedStays
  <2>3. ASSUME NEW q \in Requests \ {r} PROVE CopyInv(q)'
    <3>1. CASE call[q].step # "read"
      BY <2>1, <3>1 DEF CopyInv
    <3>2. CASE call[q].step = "read"
      <4>1. call[q].post \in DOMAIN posts
        BY <1>0, <3>2 DEF CopyInv
      <4>2. a = "ok" /\ call[r].kind = "update" /\ call[q].post = call[r].post => Updated(call[q].post)'
        BY <2>1 DEF Updated
      <4>3. QED BY <1>0, <1>2, <2>1, <2>2, <4>1, <4>2, CopyKept
    <3>3. QED BY <3>1, <3>2
  <2>4. CopyInv(r)'
    BY <2>1 DEF CopyInv
  <2>5. QED BY <1>2, <2>1, <2>2, <2>3, <2>4 DEF PostsInv, PostType
<1>3. ASSUME NEW r \in Requests, PostAppended(r) PROVE PostsInv' /\ \A p : Updated(p) => Updated(p)'
  BY <1>2, <1>3, AppendedRows, EventsTyped DEF PostAppended
<1>4. ASSUME NEW r \in Requests, PostUpdated(r) PROVE PostsInv' /\ \A p : Updated(p) => Updated(p)'
  <2>1. call[r].kind = "update" /\ call[r].step = "read" /\ Answer(r, "ok")
    BY <1>4 DEF PostUpdated
  <2>2. postEvents' \in Seq(PostEvent)
    BY <1>4, EventsTyped
  <2>3. QED BY <1>2, <1>4, <2>1, <2>2, UpdatedRows
<1>5. ASSUME NEW r \in Requests, PostDeleted(r) PROVE PostsInv' /\ \A p : Updated(p) => Updated(p)'
  BY <1>2, <1>5, DeletedRows, EventsTyped DEF PostDeleted
<1>6. ASSUME NEW r \in Requests, PostOnly(r), Answered(r)
      PROVE  PostsInv' /\ \A p : Updated(p) => Updated(p)'
  BY <1>0, <1>2, <1>6 DEF Answered, PostOnly, PostType
<1>7. ASSUME NEW r \in Requests, PostOnly(r), ReadPost(r)
      PROVE  PostsInv' /\ \A p : Updated(p) => Updated(p)'
  <2>1. PostsInv'
    BY <1>7, CopyOf DEF PostOnly
  <2>2. call[r].step = "new" /\ \A q \in Requests \ {r} : call'[q] = call[q]
    BY <1>0, <1>7 DEF ReadPost, Arrives, PostType
  <2>3. QED BY <1>0, <2>1, <2>2, UpdatedStays
<1>8. QED BY <1>1, <1>3, <1>4, <1>5, <1>6, <1>7, PostSteps DEF PostOnly

LEMMA PostsInvCorrect == Spec => []PostsInv
<1>1. Init => PostsInv
  BY PostsInitially DEF Init
<1>2. PostsInv /\ [Next]_vars => PostsInv'
  <2> SUFFICES ASSUME PostsInv, [Next]_vars PROVE PostsInv'
    OBVIOUS
  <2>1. CASE UNCHANGED postVars
    BY <2>1 DEF postVars, PostsInv, PostType, CopyInv, Updated
  <2>2. CASE PostArrival \/ PostStep
    BY <2>2, PostsInvStep
  <2>3. QED BY <2>1, <2>2 DEF Next, vars
<1>3. QED BY <1>1, <1>2, PTL DEF Spec

-----------------------------------------------------------------------------
(* The events of the posts.                                                *)

\* An event is about a post that is there, and none is ahead of its row.
EventInv(n) ==
    LET e == postEvents[n] IN e.post \in DOMAIN posts /\ e.version <= posts[e.post].version

\* What the last event of a post says of its row.
LastTold(p, n) ==
    LET last == postEvents[n] IN
    /\ \A m \in EventsOf(p) : m <= n
    /\ last.type # "deleted" => last.after = posts[p].visible
    /\ posts[p].deleted <=> last.type = "deleted"
    /\ last.type = "deleted" /\ last.version < posts[p].version => Updated(p)

\* What an event and the next one of the post have to do with each other.
NextTold(p, m, n) ==
    LET e == postEvents[m]
        next == postEvents[n]
    IN  m < n /\ (\A k \in EventsOf(p) : k <= m \/ n <= k) =>
            /\ e.type # "deleted"
            /\ next.type # "deleted" => e.version < next.version /\ e.after = next.before

Told(p) ==
    /\ \E n \in EventsOf(p) : postEvents[n].type = "created" /\ \A m \in EventsOf(p) : n <= m
    /\ \E n \in EventsOf(p) : LastTold(p, n)
    /\ \A m, n \in EventsOf(p) : NextTold(p, m, n)

EventsInv ==
    /\ \A n \in DOMAIN postEvents : EventInv(n)
    /\ \A p \in DOMAIN posts : Told(p)

LEMMA EventsInitially == PostInit => EventsInv
  BY DEF PostInit, EventsInv

\* What one more event changes.
LEMMA EventAdded ==
    ASSUME PostType, NEW e, postEvents' = Append(postEvents, e)
    PROVE  LET last == Len(postEvents) + 1 IN
           /\ last \in Nat /\ DOMAIN postEvents' = DOMAIN postEvents \cup {last}
           /\ \A n \in DOMAIN postEvents : n < last /\ n \in Nat /\ postEvents'[n] = postEvents[n]
           /\ postEvents'[last] = e
           /\ \A p : /\ EventsOf(p) \subseteq DOMAIN postEvents
                     /\ EventsOf(p)' = IF e.post = p THEN EventsOf(p) \cup {last} ELSE EventsOf(p)
<1> DEFINE last == Len(postEvents) + 1
<1>1. postEvents \in Seq(PostEvent)
  BY DEF PostType
<1>2. /\ last \in Nat /\ DOMAIN postEvents' = DOMAIN postEvents \cup {last}
      /\ \A n \in DOMAIN postEvents : n < last /\ n \in Nat /\ postEvents'[n] = postEvents[n]
      /\ postEvents'[last] = e
  BY <1>1
<1> HIDE DEF last
<1>3. ASSUME NEW p
      PROVE  /\ EventsOf(p) \subseteq DOMAIN postEvents
             /\ EventsOf(p)' = IF e.post = p THEN EventsOf(p) \cup {last} ELSE EventsOf(p)
  BY <1>2 DEF EventsOf
<1>4. QED BY <1>2, <1>3 DEF last

LEMMA ToldStays ==
    ASSUME NEW p, Told(p), EventsOf(p)' = EventsOf(p),
           \A n \in EventsOf(p) : postEvents'[n] = postEvents[n],
           posts'[p].visible = posts[p].visible, posts'[p].deleted = posts[p].deleted,
           posts[p].deleted => posts'[p].version = posts[p].version,
           Updated(p) => Updated(p)'
    PROVE  Told(p)'
<1>1. PICK n \in EventsOf(p) : LastTold(p, n)
  BY DEF Told
<1>2. LastTold(p, n)'
  BY <1>1 DEF LastTold
<1>3. \A m, k \in EventsOf(p) : NextTold(p, m, k)'
  BY DEF NextTold, Told
<1>4. QED BY <1>1, <1>2, <1>3 DEF Told

\* The next event of a post: an update of the row as it is, or the deletion.
LEMMA ToldMore ==
    ASSUME PostType, EventsInv, NEW p \in DOMAIN posts, ~posts[p].deleted, NEW e,
           e.post = p, postEvents' = Append(postEvents, e),
           \/ /\ e.type \in {"updated", "visibility"} /\ ~posts'[p].deleted
              /\ e.version = posts[p].version + 1
              /\ e.before = posts[p].visible /\ e.after = posts'[p].visible
           \/ /\ e.type = "deleted" /\ posts'[p].deleted
              /\ e.version < posts'[p].version => Updated(p)'
    PROVE  Told(p)'
<1>0. PICK last : last = Len(postEvents) + 1
  OBVIOUS
<1>1. /\ EventsOf(p)' = EventsOf(p) \cup {last} /\ postEvents'[last] = e /\ last \in Nat
      /\ \A n \in EventsOf(p) : n < last /\ n \in Nat /\ postEvents'[n] = postEvents[n]
  BY <1>0, EventAdded
<1>2. PICK n \in EventsOf(p) : LastTold(p, n)
  BY DEF EventsInv, Told
<1>3. postEvents[n].type # "deleted" /\ postEvents[n].after = posts[p].visible
  BY <1>2 DEF LastTold
<1>4. LastTold(p, last)'
  BY <1>1 DEF LastTold
<1>5. ASSUME NEW m \in EventsOf(p), NEW k \in EventsOf(p) PROVE NextTold(p, m, k)'
  <2>1. NextTold(p, m, k)
    BY DEF EventsInv, Told
  <2>2. QED BY <1>1, <2>1 DEF NextTold
<1>6. ASSUME NEW m \in EventsOf(p) PROVE NextTold(p, m, last)'
  <2>1. SUFFICES ASSUME \A k \in EventsOf(p) : k <= m \/ last <= k
                 PROVE  /\ postEvents[m].type # "deleted"
                        /\ e.type # "deleted" => /\ postEvents[m].version < e.version
                                                 /\ postEvents[m].after = e.before
    BY <1>1 DEF NextTold
  <2>2. m = n
    BY <1>1, <1>2, <2>1 DEF LastTold
  <2>3. postEvents[n].version <= posts[p].version
    BY DEF EventsInv, EventInv, EventsOf
  <2>4. postEvents[n] \in PostEvent
    BY DEF EventsOf, PostType
  <2>5. postEvents[n].version \in Nat /\ posts[p].version \in Nat
    BY <2>4, RowTyped DEF PostEvent
  <2>6. QED BY <1>3, <2>2, <2>3, <2>5
<1>7. \A m \in EventsOf(p) \cup {last} : NextTold(p, last, m)'
  BY <1>1 DEF NextTold
<1>8. \E k \in EventsOf(p) : postEvents[k].type = "created" /\ \A m \in EventsOf(p) : k <= m
  BY DEF EventsInv, Told
<1>9. \E k \in EventsOf(p)' : postEvents'[k].type = "created" /\ \A m \in EventsOf(p)' : k <= m
  <2>1. PICK k \in EventsOf(p) : postEvents[k].type = "created" /\ \A m \in EventsOf(p) : k <= m
    BY <1>8
  <2>2. k \in Nat /\ k < last /\ postEvents'[k] = postEvents[k]
    BY <1>1
  <2>3. last \in Nat /\ EventsOf(p)' = EventsOf(p) \cup {last}
    BY <1>1
  <2>4. k <= last
    BY <2>2, <2>3
  <2>5. QED BY <2>1, <2>2, <2>3, <2>4
<1>10. \A m, k \in EventsOf(p)' : NextTold(p, m, k)'
  BY <1>1, <1>5, <1>6, <1>7
<1>11. \E k \in EventsOf(p)' : LastTold(p, k)'
  BY <1>1, <1>4
<1>12. QED BY <1>9, <1>10, <1>11 DEF Told

\* The first event of a post.
LEMMA ToldFirst ==
    ASSUME PostType, NEW p, EventsOf(p) = {}, NEW e, e.post = p, e.type = "created",
           postEvents' = Append(postEvents, e), ~posts'[p].deleted, e.after = posts'[p].visible
    PROVE  Told(p)'
<1>0. PICK last : last = Len(postEvents) + 1
  OBVIOUS
<1>1. EventsOf(p)' = {last} /\ postEvents'[last] = e /\ last \in Nat
  BY <1>0, EventAdded
<1>2. LastTold(p, last)'
  BY <1>1 DEF LastTold
<1>3. NextTold(p, last, last)'
  BY <1>1 DEF NextTold
<1>4. \A m \in EventsOf(p)' : last <= m
  BY <1>1
<1>5. \E k \in EventsOf(p)' : LastTold(p, k)'
  BY <1>1, <1>2
<1>6. \A m, k \in EventsOf(p)' : NextTold(p, m, k)'
  BY <1>1, <1>3
<1>7. \E k \in EventsOf(p)' : postEvents'[k].type = "created" /\ \A m \in EventsOf(p)' : k <= m
  BY <1>1, <1>4
<1>8. QED BY <1>5, <1>6, <1>7 DEF Told

\* Posts that the step does not concern.
LEMMA ToldOthers ==
    ASSUME PostsInv, EventsInv, \A o : Updated(o) => Updated(o)',
           NEW p, \A o \in DOMAIN posts \ {p} : posts'[o] = posts[o],
           \/ UNCHANGED postEvents
           \/ \E e : e.post = p /\ postEvents' = Append(postEvents, e),
           NEW o \in DOMAIN posts \ {p}
    PROVE  Told(o)'
<1>1. CASE UNCHANGED postEvents
  BY <1>1, ToldStays DEF EventsInv, EventsOf
<1>2. ASSUME NEW e, e.post = p, postEvents' = Append(postEvents, e) PROVE Told(o)'
  <2>1. EventsOf(o)' = EventsOf(o) /\ \A n \in EventsOf(o) : postEvents'[n] = postEvents[n]
    BY <1>2, EventAdded DEF PostsInv
  <2>2. QED BY <2>1, ToldStays DEF EventsInv
<1>3. QED BY <1>1, <1>2

\* Rows are never removed, and their versions never fall.
LEMMA EventsBehind ==
    ASSUME PostType, EventsInv,
           \A p \in DOMAIN posts : p \in DOMAIN posts' /\ posts'[p].version \in Nat
                                   /\ posts[p].version <= posts'[p].version,
           \/ UNCHANGED postEvents
           \/ \E e : /\ postEvents' = Append(postEvents, e)
                     /\ e.post \in DOMAIN posts' /\ e.version <= posts'[e.post].version
    PROVE  \A n \in DOMAIN postEvents' : EventInv(n)'
<1>1. ASSUME NEW n \in DOMAIN postEvents, postEvents'[n] = postEvents[n] PROVE EventInv(n)'
  <2>1. postEvents[n] \in PostEvent
    BY DEF PostType
  <2>2. postEvents[n].version \in Nat
    BY <2>1 DEF PostEvent
  <2>3. postEvents[n].post \in DOMAIN posts
        /\ postEvents[n].version <= posts[postEvents[n].post].version
    BY DEF EventsInv, EventInv
  <2>4. posts[postEvents[n].post].version \in Nat
    BY <2>3, RowTyped
  <2>5. QED BY <1>1, <2>2, <2>3, <2>4 DEF EventInv
<1>2. CASE UNCHANGED postEvents
  BY <1>1, <1>2
<1>3. ASSUME NEW e, postEvents' = Append(postEvents, e), e.post \in DOMAIN posts',
             e.version <= posts'[e.post].version
      PROVE  \A n \in DOMAIN postEvents' : EventInv(n)'
  <2>0. PICK last : last = Len(postEvents) + 1
    OBVIOUS
  <2>1. /\ DOMAIN postEvents' = DOMAIN postEvents \cup {last} /\ postEvents'[last] = e
        /\ \A n \in DOMAIN postEvents : postEvents'[n] = postEvents[n]
    BY <1>3, <2>0, EventAdded
  <2>2. EventInv(last)'
    BY <1>3, <2>1 DEF EventInv
  <2>3. QED BY <1>1, <2>1, <2>2
<1>4. QED BY <1>2, <1>3

LEMMA EventsInvStep ==
    ASSUME PostsInv, EventsInv, PostArrival \/ PostStep
    PROVE  EventsInv'
<1>0. /\ PostType /\ PostType' /\ \A p : Updated(p) => Updated(p)'
      /\ \A r \in Requests : CopyInv(r)
  BY PostsInvStep DEF PostsInv
<1>1. ASSUME UNCHANGED <<posts, postEvents>> PROVE EventsInv'
  <2>1. \A p \in DOMAIN posts : Told(p)'
    BY <1>0, <1>1, ToldStays DEF EventsInv, EventsOf
  <2>2. QED BY <1>1, <2>1 DEF EventsInv, EventInv
<1>2. ASSUME NEW r \in Requests, PostAppended(r) PROVE EventsInv'
  <2>1. PICK new : new = Len(posts) + 1
    OBVIOUS
  <2>2. PICK e : /\ e = [post |-> new, type |-> "created", version |-> 1, before |-> TRUE, after |-> TRUE]
                 /\ postEvents' = Append(postEvents, e)
    BY <1>2, <2>1 DEF PostAppended, CreationEvents, Tell
  <2>3. /\ new \notin DOMAIN posts /\ DOMAIN posts' = DOMAIN posts \cup {new}
        /\ \A p \in DOMAIN posts : posts'[p] = posts[p]
        /\ posts'[new].visible /\ ~posts'[new].deleted /\ posts'[new].version = 1
    BY <1>2, <2>1, AppendedRows
  <2>4. EventsOf(new) = {}
    BY <2>3 DEF EventsOf, EventsInv, EventInv
  <2>5. posts'[new].visible = TRUE
    BY <1>0, <2>3, RowTyped
  <2>6. Told(new)'
    BY <1>0, <2>2, <2>3, <2>4, <2>5, ToldFirst
  <2>7. \A p \in DOMAIN posts : Told(p)'
    BY <1>0, <2>2, <2>3, ToldOthers
  <2>8. \A n \in DOMAIN postEvents' : EventInv(n)'
    BY <1>0, <2>2, <2>3, RowTyped, EventsBehind
  <2>9. QED BY <2>3, <2>6, <2>7, <2>8 DEF EventsInv
<1>3. ASSUME NEW r \in Requests, PostUpdated(r) PROVE EventsInv'
  <2>1. PICK p : p = call[r].post
    OBVIOUS
  <2>2. PICK before, after : before = call[r].row.visible /\ after = Merged(r).visible
    OBVIOUS
  <2>3. PICK version : version = call[r].row.version + 1
    OBVIOUS
  <2>4. /\ DOMAIN posts' = DOMAIN posts /\ p \in DOMAIN posts
        /\ ~posts[p].deleted /\ ~posts'[p].deleted
        /\ version = posts[p].version + 1 /\ posts'[p].version = version
        /\ before = posts[p].visible /\ after = posts'[p].visible
        /\ \A o \in DOMAIN posts \ {p} : posts'[o] = posts[o]
    BY <1>3, <2>1, <2>2, <2>3, UpdatedRows
  <2>5. \/ /\ UNCHANGED postEvents /\ before = after
        \/ \E type \in {"updated", "visibility"} :
              postEvents' = Append(postEvents, [post |-> p, type |-> type, version |-> version,
                                                before |-> before, after |-> after])
    BY <1>3, <2>1, <2>2, <2>3 DEF PostUpdated, UpdateEvents, Tell
  <2>6. \A o \in DOMAIN posts : /\ o \in DOMAIN posts' /\ posts'[o].version \in Nat
                                /\ posts[o].version <= posts'[o].version
    BY <1>0, <2>4, RowTyped
  <2>7. CASE UNCHANGED postEvents /\ before = after
    <3>1. Told(p)'
      <4>1. EventsOf(p)' = EventsOf(p) /\ \A n \in EventsOf(p) : postEvents'[n] = postEvents[n]
        BY <2>7 DEF EventsOf
      <4>2. /\ posts'[p].visible = posts[p].visible
            /\ posts[p].deleted \in BOOLEAN /\ posts'[p].deleted \in BOOLEAN
        <5>1. posts'[p] \in Post /\ posts[p].deleted \in BOOLEAN
          BY <1>0, <2>4, RowTyped DEF PostType
        <5>2. QED BY <2>4, <2>7, <5>1 DEF Post
      <4>3. posts'[p].deleted = posts[p].deleted
        BY <2>4, <4>2
      <4>4. Told(p) /\ (Updated(p) => Updated(p)')
        BY <1>0, <2>4 DEF EventsInv
      <4>5. QED BY <2>4, <4>1, <4>2, <4>3, <4>4, ToldStays
    <3>2. \A o \in DOMAIN posts \ {p} : Told(o)'
      BY <1>0, <2>4, <2>7, ToldOthers
    <3>3. \A n \in DOMAIN postEvents' : EventInv(n)'
      BY <1>0, <2>6, <2>7, EventsBehind
    <3>4. QED BY <2>4, <3>1, <3>2, <3>3 DEF EventsInv
  <2>8. ASSUME NEW type \in {"updated", "visibility"},
               postEvents' = Append(postEvents, [post |-> p, type |-> type, version |-> version,
                                                 before |-> before, after |-> after])
        PROVE  EventsInv'
    <3>1. PICK e : /\ e = [post |-> p, type |-> type, version |-> version,
                           before |-> before, after |-> after]
                   /\ postEvents' = Append(postEvents, e)
      BY <2>8
    <3>2. Told(p)'
      BY <1>0, <2>4, <3>1, ToldMore
    <3>3. \A o \in DOMAIN posts \ {p} : Told(o)'
      BY <1>0, <2>4, <3>1, ToldOthers
    <3>4. e.post \in DOMAIN posts' /\ e.version <= posts'[e.post].version
      BY <1>0, <2>4, <2>6, <3>1
    <3>5. \A n \in DOMAIN postEvents' : EventInv(n)'
      BY <1>0, <2>6, <3>1, <3>4, EventsBehind
    <3>6. QED BY <2>4, <3>2, <3>3, <3>5 DEF EventsInv
  <2>9. QED BY <2>5, <2>7, <2>8
<1>4. ASSUME NEW r \in Requests, PostDeleted(r) PROVE EventsInv'
  <2>1. PICK p : p = call[r].post
    OBVIOUS
  <2>2. PICK e : /\ e = [post |-> p, type |-> "deleted", version |-> call[r].row.version,
                         before |-> call[r].row.visible, after |-> call[r].row.visible]
                 /\ postEvents' = Append(postEvents, e)
    BY <1>4, <2>1 DEF PostDeleted, DeletionEvents, Tell
  <2>3. /\ DOMAIN posts' = DOMAIN posts /\ p \in DOMAIN posts
        /\ ~posts[p].deleted /\ posts'[p].deleted
        /\ \A o \in DOMAIN posts : posts'[o].version = posts[o].version
        /\ \A o \in DOMAIN posts \ {p} : posts'[o] = posts[o]
    BY <1>4, <2>1, DeletedRows
  <2>4. e.version <= posts[p].version /\ (e.version < posts[p].version => Updated(p))
    BY <1>0, <1>4, <2>1, <2>2 DEF CopyInv, PostDeleted
  <2>5. Told(p)'
    BY <1>0, <2>2, <2>3, <2>4, ToldMore
  <2>6. \A o \in DOMAIN posts \ {p} : Told(o)'
    BY <1>0, <2>2, <2>3, ToldOthers
  <2>7. \A n \in DOMAIN postEvents' : EventInv(n)'
    BY <1>0, <2>2, <2>3, <2>4, RowTyped, EventsBehind
  <2>8. QED BY <2>3, <2>5, <2>6, <2>7 DEF EventsInv
<1>5. QED BY <1>1, <1>2, <1>3, <1>4, PostSteps DEF PostOnly, Walks

\* events.go of posts, for any number of requests: an event of a post tells the
\* visibility that the next one starts from and the last one the row's, versions
\* rise, and a deletion is the last event, behind the row only by an update that
\* was answered.
THEOREM EventsTellPostCorrect == Spec => []EventsTellPost
<1>1. EventsInv => EventsTellPost
  BY DEF EventsInv, Told, LastTold, NextTold, Updated, EventsTellPost
<1>2. Init => EventsInv
  BY EventsInitially DEF Init
<1>3. PostsInv /\ EventsInv /\ [Next]_vars => EventsInv'
  <2> SUFFICES ASSUME PostsInv, EventsInv, [Next]_vars PROVE EventsInv'
    OBVIOUS
  <2>1. CASE UNCHANGED postVars
    BY <2>1, ToldStays DEF postVars, EventsInv, EventInv, EventsOf, Updated
  <2>2. CASE PostArrival \/ PostStep
    BY <2>2, EventsInvStep
  <2>3. QED BY <2>1, <2>2 DEF Next, vars
<1>4. QED BY <1>1, <1>2, <1>3, PostsInvCorrect, PTL DEF Spec

-----------------------------------------------------------------------------
(* The list.                                                               *)

\* The posts of a page, or of all pages so far.
Shown(page) == {page[n] : n \in DOMAIN page}

Once(page) == \A m, n \in DOMAIN page : page[m] = page[n] => m = n

SecondsShared == \E p, q \in DOMAIN posts :
                     p # q /\ Second(posts[p].position) = Second(posts[q].position)

WalkType ==
    /\ walk \in [step : {"new", "page", "done", "error"}, mode : {"", "cursor", "offset"},
                 cursor : Nat, seen : Seq(Nat), steady : SUBSET Nat, disturbed : BOOLEAN]
    /\ Shown(walk.seen) \subseteq DOMAIN posts /\ walk.steady \subseteq Listed
    /\ walk.step \in {"new", "error"} => walk.seen = <<>>
    /\ walk.step \in {"page", "done"} => walk.mode \in {"cursor", "offset"}

\* By cursor: what was seen is above the cursor, the rest of the steady posts below.
CursorInv ==
    walk.mode = "cursor" =>
        /\ Once(walk.seen)
        /\ walk.step = "page" =>
               /\ \A p \in Shown(walk.seen) : posts[p].position >= walk.cursor
               /\ \A p \in walk.steady : p \in Shown(walk.seen) \/ posts[p].position < walk.cursor
        /\ walk.step = "done" => walk.steady \subseteq Shown(walk.seen)

\* The posts of A are the first ones of the list.
Leads(A) == \A p \in A, q \in Listed \ A : CreatedAt[q] <= CreatedAt[p]

\* By offset: what was seen is the top of a list that has not changed.
OffsetInv ==
    walk.mode = "offset" /\ ~walk.disturbed /\ ~SecondsShared =>
        /\ Once(walk.seen) /\ walk.steady = Listed
        /\ Shown(walk.seen) \subseteq Listed /\ Leads(Shown(walk.seen))
        /\ walk.step = "done" => Shown(walk.seen) = Listed

PlacesInv == \A p, q \in DOMAIN posts : posts[p].position = posts[q].position => p = q

WalkInv == WalkType /\ CursorInv /\ OffsetInv /\ PlacesInv

LEMMA ListedPosts ==
    ASSUME PostType
    PROVE  /\ IsFiniteSet(Listed) /\ Listed \subseteq DOMAIN posts /\ DOMAIN posts \subseteq Nat
           /\ \A p \in DOMAIN posts : /\ posts[p].position \in Nat
                                      /\ posts[p].position < MaxPosition + 1
                                      /\ Position[p] = posts[p].position
                                      /\ CreatedAt[p] = Second(posts[p].position)
                                      /\ CreatedAt[p] \in Nat
<1>1. DOMAIN posts = 1..Len(posts) /\ Len(posts) \in Nat
  BY DEF PostType
<1>2. IsFiniteSet(DOMAIN posts)
  BY <1>1, FS_Interval
<1>3. Listed \subseteq DOMAIN posts
  BY DEF Listed
<1>4. ASSUME NEW p \in DOMAIN posts
      PROVE  /\ posts[p].position \in Nat /\ posts[p].position < MaxPosition + 1
             /\ Second(posts[p].position) \in Nat
  BY RowTyped, PostsAssumption DEF Second
<1>5. QED BY <1>1, <1>2, <1>3, <1>4, FS_Subset DEF Position, CreatedAt

LEMMA WalkInitially == PostInit => WalkInv
<1> SUFFICES ASSUME PostInit PROVE WalkInv
  OBVIOUS
<1>1. posts = <<>> /\ walk = NoWalk
  BY DEF PostInit
<1>2. WalkType
  <2>1. NoWalk.seen = <<>> /\ NoWalk.steady = {} /\ NoWalk.step = "new"
    BY DEF NoWalk
  <2>2. Shown(<<>>) = {}
    BY DEF Shown
  <2>3. NoWalk \in [step : {"new", "page", "done", "error"}, mode : {"", "cursor", "offset"},
                    cursor : Nat, seen : Seq(Nat), steady : SUBSET Nat, disturbed : BOOLEAN]
    BY DEF NoWalk
  <2>4. QED BY <1>1, <2>1, <2>2, <2>3 DEF WalkType
<1>3. walk.mode = ""
  BY <1>1 DEF NoWalk
<1>4. CursorInv /\ OffsetInv
  BY <1>3 DEF CursorInv, OffsetInv
<1>5. DOMAIN posts = {}
  BY <1>1
<1>6. PlacesInv
  BY <1>5 DEF PlacesInv
<1>7. QED BY <1>2, <1>4, <1>6 DEF WalkInv

\* A page has no post twice, and one that is not full has all of them.
LEMMA PageFacts ==
    ASSUME NEW rest, IsFiniteSet(rest), NEW place, NEW S, NEW page \in Seq(S),
           IsPage(page, rest, place)
    PROVE  /\ Shown(page) \subseteq rest /\ Once(page) /\ Len(page) <= PageLimit
           /\ Len(page) # PageLimit => Shown(page) = rest
<1>1. Len(page) \in Nat /\ DOMAIN page = 1..Len(page) /\ Cardinality(rest) \in Nat
      /\ PageLimit \in Nat
  BY FS_CardinalityType, PostsAssumption
<1>2. Shown(page) \subseteq rest
  BY DEF IsPage, Shown
<1>3. Once(page)
  <2>1. \A m, n \in DOMAIN page : m < n => page[m] # page[n]
    BY DEF IsPage
  <2>2. \A m, n \in DOMAIN page : m < n \/ n < m \/ m = n
    BY <1>1
  <2>3. QED BY <2>1, <2>2 DEF Once
<1>4. Len(page) <= PageLimit /\ (Len(page) # PageLimit => Len(page) = Cardinality(rest))
  BY <1>1 DEF IsPage
<1>5. ASSUME Len(page) = Cardinality(rest) PROVE Shown(page) = rest
  <2>1. page \in [1..Len(page) -> rest]
    BY <1>1, <1>2 DEF Shown
  <2>2. page \in Injection(1..Len(page), rest)
    BY <1>1, <1>3, <2>1 DEF Injection, IsInjective, Once
  <2>3. Cardinality(1..Len(page)) = Cardinality(rest)
    BY <1>1, <1>5, FS_Interval
  <2>4. page \in Surjection(1..Len(page), rest)
    BY <2>2, <2>3, FS_Injection
  <2>5. QED BY <1>1, <1>2, <2>4 DEF Surjection, Shown
<1>6. QED BY <1>2, <1>3, <1>4, <1>5

LEMMA Joined ==
    ASSUME NEW s \in Seq(Nat), NEW t \in Seq(Nat)
    PROVE  /\ s \o t \in Seq(Nat) /\ Shown(s \o t) = Shown(s) \cup Shown(t)
           /\ Once(s) /\ Once(t) /\ Shown(s) \cap Shown(t) = {} => Once(s \o t)
<1> DEFINE u == s \o t
<1>1. /\ u \in Seq(Nat) /\ Len(s) \in Nat /\ Len(t) \in Nat
      /\ DOMAIN s = 1..Len(s) /\ DOMAIN t = 1..Len(t) /\ DOMAIN u = 1..(Len(s) + Len(t))
  OBVIOUS
<1>2. \A n \in DOMAIN u : u[n] = IF n <= Len(s) THEN s[n] ELSE t[n - Len(s)]
  OBVIOUS
<1> HIDE DEF u
<1>3. \A n \in DOMAIN s : n \in DOMAIN u /\ u[n] = s[n]
  BY <1>1, <1>2
<1>4. ASSUME NEW n \in DOMAIN t PROVE n + Len(s) \in DOMAIN u /\ u[n + Len(s)] = t[n]
  <2>1. n \in Nat \ {0} /\ n <= Len(t)
    BY <1>1
  <2>2. n + Len(s) \in DOMAIN u /\ ~(n + Len(s) <= Len(s)) /\ (n + Len(s)) - Len(s) = n
    BY <1>1, <2>1
  <2>3. QED BY <1>2, <2>2
<1>5. \A n \in DOMAIN u : \/ n \in DOMAIN s /\ u[n] = s[n]
                          \/ n - Len(s) \in DOMAIN t /\ u[n] = t[n - Len(s)] /\ n \notin DOMAIN s
  BY <1>1, <1>2
<1>6. Shown(u) = Shown(s) \cup Shown(t)
  BY <1>3, <1>4, <1>5 DEF Shown
<1>7. ASSUME Once(s), Once(t), Shown(s) \cap Shown(t) = {} PROVE Once(u)
  <2> SUFFICES ASSUME NEW m \in DOMAIN u, NEW n \in DOMAIN u, u[m] = u[n] PROVE m = n
    BY DEF Once
  <2>1. CASE m \in DOMAIN s /\ n \in DOMAIN s
    BY <1>3, <1>7, <2>1 DEF Once
  <2>2. CASE m \notin DOMAIN s /\ n \notin DOMAIN s
    <3>1. m - Len(s) = n - Len(s)
      BY <1>5, <1>7, <2>2 DEF Once
    <3>2. QED BY <1>1, <3>1
  <2>3. \A i, j \in DOMAIN u : i \in DOMAIN s /\ j \notin DOMAIN s => u[i] # u[j]
    <3> SUFFICES ASSUME NEW i \in DOMAIN u, NEW j \in DOMAIN u, i \in DOMAIN s, j \notin DOMAIN s
                 PROVE  u[i] # u[j]
      OBVIOUS
    <3>1. u[i] = s[i] /\ u[j] = t[j - Len(s)] /\ j - Len(s) \in DOMAIN t
      BY <1>3, <1>5
    <3>2. u[i] \in Shown(s) /\ u[j] \in Shown(t)
      BY <3>1 DEF Shown
    <3>3. QED BY <1>7, <3>2
  <2>4. QED BY <2>1, <2>2, <2>3
<1>8. QED BY <1>1, <1>6, <1>7 DEF u

\* A change of the table keeps what the walk has shown.
LEMMA DisturbKeeps ==
    ASSUME PostType, PostType', WalkInv, Disturb, PlacesInv', DOMAIN posts \subseteq DOMAIN posts',
           \A p \in DOMAIN posts : posts'[p].position = posts[p].position
    PROVE  WalkInv'
<1>1. /\ walk'.step = walk.step /\ walk'.mode = walk.mode /\ walk'.cursor = walk.cursor
      /\ walk'.seen = walk.seen /\ walk'.steady = walk.steady \cap Listed'
      /\ walk'.disturbed = (walk.disturbed \/ Listed' # Listed)
      /\ walk' \in [step : {"new", "page", "done", "error"}, mode : {"", "cursor", "offset"},
                    cursor : Nat, seen : Seq(Nat), steady : SUBSET Nat, disturbed : BOOLEAN]
  BY DEF WalkInv, WalkType, Disturb
<1>2. Shown(walk.seen) \subseteq DOMAIN posts /\ walk.steady \subseteq DOMAIN posts
  BY ListedPosts DEF WalkInv, WalkType
<1> DEFINE shown == Shown(walk'.seen)
<1>0. shown = Shown(walk.seen) /\ (Once(walk'.seen) <=> Once(walk.seen))
  BY <1>1
<1>3. WalkType'
  <2>1. shown \subseteq DOMAIN posts' /\ walk'.steady \subseteq Listed'
    BY <1>0, <1>1, <1>2
  <2>2. /\ walk.step \in {"new", "error"} => walk.seen = <<>>
        /\ walk.step \in {"page", "done"} => walk.mode \in {"cursor", "offset"}
    BY DEF WalkInv, WalkType
  <2>3. QED BY <1>1, <2>1, <2>2 DEF WalkType, Shown
<1>4. CursorInv'
  <2> SUFFICES ASSUME walk.mode = "cursor" PROVE CursorInv'
    BY <1>1 DEF CursorInv
  <2>1. Once(walk.seen) /\ (walk.step = "done" => walk.steady \subseteq Shown(walk.seen))
    BY DEF WalkInv, CursorInv
  <2>2. ASSUME walk.step = "page"
        PROVE  /\ \A p \in shown : posts'[p].position >= walk.cursor
               /\ \A p \in walk.steady : p \in shown \/ posts'[p].position < walk.cursor
    <3>1. /\ \A p \in Shown(walk.seen) : posts[p].position >= walk.cursor
          /\ \A p \in walk.steady : p \in Shown(walk.seen) \/ posts[p].position < walk.cursor
      BY <2>2 DEF WalkInv, CursorInv
    <3>2. QED BY <1>0, <1>2, <3>1
  <2>3. Once(walk'.seen) /\ (walk'.step = "done" => walk'.steady \subseteq shown)
    BY <1>0, <1>1, <2>1
  <2>4. QED BY <1>1, <2>2, <2>3 DEF CursorInv, Once, Shown
<1>5. OffsetInv'
  <2> SUFFICES ASSUME walk.mode = "offset", ~walk.disturbed, Listed' = Listed, ~SecondsShared'
               PROVE  OffsetInv'
    BY <1>1 DEF OffsetInv
  <2>1. ~SecondsShared
    BY DEF SecondsShared
  <2>2. /\ Once(walk.seen) /\ walk.steady = Listed
        /\ Shown(walk.seen) \subseteq Listed /\ Leads(Shown(walk.seen))
        /\ walk.step = "done" => Shown(walk.seen) = Listed
    BY <2>1 DEF WalkInv, OffsetInv
  <2>3. \A p \in Listed : CreatedAt'[p] = CreatedAt[p]
    BY ListedPosts DEF CreatedAt
  <2>4. /\ Once(walk'.seen) /\ walk'.steady = Listed' /\ shown \subseteq Listed'
        /\ walk'.step = "done" => shown = Listed'
    BY <1>0, <1>1, <2>2
  <2>5. \A p \in shown, q \in Listed' \ shown : CreatedAt'[q] <= CreatedAt'[p]
    BY <1>0, <2>2, <2>3 DEF Leads
  <2>6. QED BY <2>4, <2>5 DEF OffsetInv, Once, Shown, Leads
<1>6. QED BY <1>3, <1>4, <1>5 DEF WalkInv

LEMMA StartKeeps ==
    ASSUME PostType, WalkInv, StartWalk
    PROVE  WalkInv'
<1>1. posts' = posts /\ Listed' = Listed
  BY DEF StartWalk, Listed, Found
<1>2. /\ walk'.step \in {"page", "error"} /\ walk'.mode \in {"cursor", "offset"}
      /\ walk'.cursor = MaxPosition + 1 /\ walk'.seen = <<>> /\ walk'.steady = Listed
      /\ walk'.disturbed = FALSE
      /\ walk' \in [step : {"new", "page", "done", "error"}, mode : {"", "cursor", "offset"},
                    cursor : Nat, seen : Seq(Nat), steady : SUBSET Nat, disturbed : BOOLEAN]
  <2>1. MaxPosition + 1 \in Nat /\ Listed \in SUBSET Nat
    BY ListedPosts, PostsAssumption
  <2>2. PICK mode \in {"cursor", "offset"}, sortBy \in {"created_at", ""} :
            walk' = [NoWalk EXCEPT !.step = IF Sortable(sortBy) THEN "page" ELSE "error",
                                   !.mode = mode, !.cursor = MaxPosition + 1, !.steady = Listed]
    BY DEF StartWalk
  <2> DEFINE step == IF Sortable(sortBy) THEN "page" ELSE "error"
  <2>3. step \in {"page", "error"}
    OBVIOUS
  <2> HIDE DEF step
  <2>4. walk' = [NoWalk EXCEPT !.step = step, !.mode = mode, !.cursor = MaxPosition + 1,
                               !.steady = Listed]
    BY <2>2 DEF step
  <2>5. walk' = [step |-> step, mode |-> mode, cursor |-> MaxPosition + 1, seen |-> <<>>,
                 steady |-> Listed, disturbed |-> FALSE]
    BY <2>4 DEF NoWalk
  <2>6. /\ walk'.step = step /\ walk'.mode = mode /\ walk'.cursor = MaxPosition + 1
        /\ walk'.seen = <<>> /\ walk'.steady = Listed /\ walk'.disturbed = FALSE
    BY <2>5
  <2>7. walk' \in [step : {"new", "page", "done", "error"}, mode : {"", "cursor", "offset"},
                   cursor : Nat, seen : Seq(Nat), steady : SUBSET Nat, disturbed : BOOLEAN]
    <3>1. <<>> \in Seq(Nat) /\ FALSE \in BOOLEAN
      BY EmptySeq
    <3>2. mode \in {"", "cursor", "offset"} /\ step \in {"new", "page", "done", "error"}
      BY <2>3
    <3> HIDE DEF step
    <3>3. QED BY <2>1, <2>5, <3>1, <3>2, Zenon
  <2>8. QED BY <2>3, <2>6, <2>7
<1>3. Shown(walk'.seen) = {} /\ DOMAIN walk'.seen = {}
  <2>1. walk'.seen \in Seq(Nat) /\ Len(walk'.seen) = 0
    BY <1>2, EmptySeq
  <2>2. DOMAIN walk'.seen = {}
    BY <2>1
  <2>3. QED BY <2>2 DEF Shown
<1>4. WalkType'
  BY <1>1, <1>2, <1>3 DEF WalkType, Shown
<1>5. CursorInv'
  <2>1. \A p \in Listed : posts[p].position < MaxPosition + 1
    BY ListedPosts
  <2>2. QED BY <1>1, <1>2, <1>3, <2>1 DEF CursorInv, Shown, Once
<1>6. OffsetInv'
  BY <1>1, <1>2, <1>3 DEF OffsetInv, Shown, Once, Leads
<1>7. PlacesInv'
  BY <1>1 DEF WalkInv, PlacesInv
<1>8. QED BY <1>4, <1>5, <1>6, <1>7 DEF WalkInv

\* What a page does to the walk.
LEMMA TurnedWalk ==
    ASSUME PostType, WalkInv, walk.step = "page", NEW page \in Pages, NEW place,
           NEW rest \in SUBSET Listed, IsPage(page, rest, place), NEW cursor \in Nat,
           walk' = [Turned(page) EXCEPT !.cursor = cursor], UNCHANGED posts
    PROVE  /\ WalkType' /\ PlacesInv' /\ Listed' = Listed
           /\ page \in Seq(Nat) /\ Len(page) \in Nat /\ DOMAIN page = 1..Len(page)
           /\ Shown(page) \subseteq rest /\ Once(page)
           /\ Len(page) # PageLimit => Shown(page) = rest
           /\ walk'.step = (IF Len(page) = PageLimit THEN "page" ELSE "done")
           /\ walk'.mode = walk.mode /\ walk'.cursor = cursor /\ walk'.seen = walk.seen \o page
           /\ walk'.steady = walk.steady /\ walk'.disturbed = walk.disturbed
           /\ Shown(walk'.seen) = Shown(walk.seen) \cup Shown(page)
           /\ Once(walk.seen) /\ Shown(walk.seen) \cap Shown(page) = {} => Once(walk'.seen)
<1>1. Listed \subseteq DOMAIN posts /\ Listed \subseteq Nat /\ IsFiniteSet(rest)
  BY ListedPosts, FS_Subset
<1>2. page \in Seq(Nat) /\ Len(page) \in Nat /\ DOMAIN page = 1..Len(page)
  <2>1. PICK n \in 0..PageLimit : page \in [1..n -> Listed]
    BY DEF Pages
  <2>2. n \in Nat
    BY PostsAssumption
  <2>3. page \in Seq(Nat)
    BY <1>1, <2>1, <2>2
  <2>4. QED BY <2>3
<1>3. /\ Shown(page) \subseteq rest /\ Once(page)
      /\ Len(page) # PageLimit => Shown(page) = rest
  BY <1>1, <1>2, PageFacts
<1>4. /\ walk'.step = (IF Len(page) = PageLimit THEN "page" ELSE "done")
      /\ walk'.mode = walk.mode /\ walk'.cursor = cursor /\ walk'.seen = walk.seen \o page
      /\ walk'.steady = walk.steady /\ walk'.disturbed = walk.disturbed
      /\ walk' = [step |-> IF Len(page) = PageLimit THEN "page" ELSE "done", mode |-> walk.mode,
                  cursor |-> cursor, seen |-> walk.seen \o page, steady |-> walk.steady,
                  disturbed |-> walk.disturbed]
  BY DEF Turned, WalkInv, WalkType
<1>5. /\ walk.seen \in Seq(Nat) /\ walk.steady \in SUBSET Nat /\ walk.disturbed \in BOOLEAN
      /\ walk.mode \in {"cursor", "offset"} /\ Shown(walk.seen) \subseteq DOMAIN posts
      /\ walk.steady \subseteq Listed
  BY DEF WalkInv, WalkType
<1>6. /\ walk'.seen \in Seq(Nat) /\ Shown(walk'.seen) = Shown(walk.seen) \cup Shown(page)
      /\ Once(walk.seen) /\ Shown(walk.seen) \cap Shown(page) = {} => Once(walk'.seen)
  <2>1. /\ walk.seen \o page \in Seq(Nat)
        /\ Shown(walk.seen \o page) = Shown(walk.seen) \cup Shown(page)
        /\ Once(walk.seen) /\ Once(page) /\ Shown(walk.seen) \cap Shown(page) = {} =>
               Once(walk.seen \o page)
    BY <1>2, <1>5, Joined
  <2>2. walk'.seen = walk.seen \o page /\ Once(page)
    BY <1>3, <1>4
  <2>3. QED BY <2>1, <2>2
<1>7. Listed' = Listed
  BY DEF Listed, Found
<1>8. WalkType'
  <2>1. walk' \in [step : {"new", "page", "done", "error"}, mode : {"", "cursor", "offset"},
                   cursor : Nat, seen : Seq(Nat), steady : SUBSET Nat, disturbed : BOOLEAN]
    BY <1>4, <1>5, <1>6
  <2>2. Shown(walk'.seen) \subseteq DOMAIN posts'
    BY <1>1, <1>3, <1>5, <1>6
  <2>3. walk'.step \in {"page", "done"} /\ walk'.mode \in {"cursor", "offset"}
    BY <1>4, <1>5
  <2>4. walk'.steady \subseteq Listed'
    BY <1>4, <1>5, <1>7
  <2>5. QED BY <2>1, <2>2, <2>3, <2>4 DEF WalkType, Shown
<1>9. PlacesInv'
  BY DEF WalkInv, PlacesInv
<1>10. QED BY <1>2, <1>3, <1>4, <1>6, <1>7, <1>8, <1>9

LEMMA CursorKeeps ==
    ASSUME PostType, WalkInv, CursorPage
    PROVE  WalkInv'
<1>1. PICK page \in Pages : IsPage(page, BelowCursor, Position) /\ walk' = Turned(page)
  BY DEF CursorPage
<1>2. walk.step = "page" /\ walk.mode = "cursor" /\ posts' = posts
  BY DEF CursorPage
<1> DEFINE cursor == NextCursor(page)
<1>3. /\ Once(walk.seen) /\ walk.steady \subseteq Listed /\ walk.cursor \in Nat
      /\ \A p \in Shown(walk.seen) : posts[p].position >= walk.cursor
      /\ \A p \in walk.steady : p \in Shown(walk.seen) \/ posts[p].position < walk.cursor
  BY <1>2 DEF WalkInv, WalkType, CursorInv
<1>4. BelowCursor \in SUBSET Listed /\ \A p \in BelowCursor : posts[p].position < walk.cursor
  BY DEF BelowCursor
<1>5. Listed \subseteq DOMAIN posts
      /\ \A p \in DOMAIN posts : posts[p].position \in Nat /\ Position[p] = posts[p].position
  BY ListedPosts
<1>6. Len(page) = PageLimit => PageLimit \in DOMAIN page /\ page[PageLimit] \in BelowCursor
  <2>1. ASSUME Len(page) = PageLimit PROVE PageLimit \in DOMAIN page
    <3>1. PICK n \in 0..PageLimit : page \in [1..n -> Listed]
      BY DEF Pages
    <3>2. n = PageLimit /\ PageLimit \in Nat \ {0}
      BY <2>1, <3>1, PostsAssumption
    <3>3. QED BY <3>1, <3>2
  <2>2. QED BY <1>1, <2>1 DEF IsPage
<1>7. cursor \in Nat /\ walk' = [Turned(page) EXCEPT !.cursor = cursor]
  <2>1. cursor \in Nat
    BY <1>3, <1>4, <1>5, <1>6 DEF NextCursor
  <2>2. QED BY <1>1, <2>1 DEF Turned, WalkInv, WalkType
<1> HIDE DEF cursor
<1>8. /\ WalkType' /\ PlacesInv' /\ Listed' = Listed
      /\ Len(page) \in Nat /\ DOMAIN page = 1..Len(page)
      /\ Shown(page) \subseteq BelowCursor
      /\ Len(page) # PageLimit => Shown(page) = BelowCursor
      /\ walk'.step = (IF Len(page) = PageLimit THEN "page" ELSE "done")
      /\ walk'.mode = walk.mode /\ walk'.cursor = cursor
      /\ walk'.steady = walk.steady
      /\ Shown(walk'.seen) = Shown(walk.seen) \cup Shown(page)
      /\ Once(walk.seen) /\ Shown(walk.seen) \cap Shown(page) = {} => Once(walk'.seen)
  BY <1>1, <1>2, <1>4, <1>7, TurnedWalk
<1>9. Once(walk'.seen)
  BY <1>3, <1>4, <1>5, <1>8
<1>10. ASSUME Len(page) = PageLimit
       PROVE  /\ \A p \in Shown(walk'.seen) : posts[p].position >= cursor
              /\ \A p \in walk.steady : p \in Shown(walk'.seen) \/ posts[p].position < cursor
  <2> DEFINE last == page[PageLimit]
  <2>1. /\ last \in BelowCursor /\ PageLimit \in DOMAIN page /\ cursor = posts[last].position
        /\ last \in Shown(page)
    BY <1>6, <1>10 DEF cursor, NextCursor, Shown
  <2> HIDE DEF last
  <2>2. \A p \in Shown(page) : posts[p].position >= cursor
    <3> SUFFICES ASSUME NEW n \in DOMAIN page PROVE posts[page[n]].position >= cursor
      BY DEF Shown
    <3>1. n = PageLimit \/ n < PageLimit
      BY <1>8, <1>10
    <3>2. page[n] \in DOMAIN posts /\ last \in DOMAIN posts
      BY <1>4, <1>5, <1>8, <2>1 DEF Shown
    <3>3. n < PageLimit => Position[last] <= Position[page[n]]
      BY <1>1, <2>1 DEF IsPage, last
    <3>4. QED BY <1>5, <2>1, <3>1, <3>2, <3>3 DEF last
  <2>3. \A p \in Shown(walk.seen) : posts[p].position >= cursor
    <3>1. cursor \in Nat /\ cursor < walk.cursor
      BY <1>4, <1>7, <2>1
    <3>2. Shown(walk.seen) \subseteq DOMAIN posts
      BY DEF WalkInv, WalkType
    <3>3. QED BY <1>3, <1>5, <3>1, <3>2
  <2>4. ASSUME NEW p \in walk.steady, p \notin Shown(walk'.seen)
        PROVE  posts[p].position < cursor
    <3>1. p \in Listed /\ p \notin Shown(walk.seen) /\ p \notin Shown(page) /\ p # last
      BY <1>3, <1>8, <2>1, <2>4
    <3>2. p \in BelowCursor
      BY <1>3, <3>1 DEF BelowCursor
    <3>3. Position[p] <= Position[last]
      BY <1>1, <2>1, <3>1, <3>2 DEF IsPage, Shown, last
    <3>4. p \in DOMAIN posts /\ last \in DOMAIN posts
      BY <1>4, <1>5, <2>1, <3>1
    <3>5. posts[p].position # posts[last].position
      BY <3>1, <3>4 DEF WalkInv, PlacesInv
    <3>6. QED BY <1>5, <2>1, <3>3, <3>4, <3>5
  <2>5. QED BY <1>8, <2>2, <2>3, <2>4
<1>11. ASSUME Len(page) # PageLimit PROVE walk.steady \subseteq Shown(walk'.seen)
  <2>1. \A p \in walk.steady : p \in Shown(walk.seen) \/ p \in BelowCursor
    BY <1>3 DEF BelowCursor
  <2>2. QED BY <1>8, <1>11, <2>1
<1>12. CursorInv'
  BY <1>2, <1>8, <1>9, <1>10, <1>11 DEF CursorInv, Once, Shown
<1>13. OffsetInv'
  BY <1>2, <1>8 DEF OffsetInv
<1>14. QED BY <1>8, <1>12, <1>13 DEF WalkInv

\* A sequence without repetition shows as many posts as it is long.
LEMMA ShownCount ==
    ASSUME NEW s \in Seq(Nat), Once(s)
    PROVE  IsFiniteSet(Shown(s)) /\ Cardinality(Shown(s)) = Len(s)
<1>1. Len(s) \in Nat /\ DOMAIN s = 1..Len(s)
  OBVIOUS
<1>2. s \in [1..Len(s) -> Shown(s)]
  BY <1>1 DEF Shown
<1>3. s \in Injection(1..Len(s), Shown(s))
  BY <1>1, <1>2 DEF Injection, IsInjective, Once
<1>4. s \in Surjection(1..Len(s), Shown(s))
  BY <1>1, <1>2 DEF Surjection, Shown
<1>5. s \in Bijection(1..Len(s), Shown(s))
  BY <1>3, <1>4 DEF Bijection
<1>6. IsFiniteSet(1..Len(s)) /\ Cardinality(1..Len(s)) = Len(s)
  <2> DEFINE n == Len(s)
  <2>1. n \in Int /\ 1 \in Int /\ (IF 1 > n THEN 0 ELSE n - 1 + 1) = n
    BY <1>1
  <2> HIDE DEF n
  <2>2. IsFiniteSet(1..n) /\ Cardinality(1..n) = n
    BY <2>1, FS_Interval
  <2>3. QED BY <2>2 DEF n
<1>7. QED BY <1>5, <1>6, FS_Bijection DEF ExistsBijection

\* Without a shared second the list has one top of each size.
LEMMA OneTop ==
    ASSUME PostType, ~SecondsShared, NEW A \in SUBSET Listed, NEW B \in SUBSET Listed,
           Leads(A), Leads(B), Cardinality(A) = Cardinality(B)
    PROVE  A = B
<1>1. IsFiniteSet(A) /\ IsFiniteSet(B)
  BY ListedPosts, FS_Subset
<1>2. A \subseteq B \/ B \subseteq A
  <2> SUFFICES ASSUME NEW p \in A \ B, NEW q \in B \ A PROVE FALSE
    OBVIOUS
  <2>1. CreatedAt[q] <= CreatedAt[p] /\ CreatedAt[p] <= CreatedAt[q]
    BY DEF Leads
  <2>2. p \in DOMAIN posts /\ q \in DOMAIN posts
    BY ListedPosts
  <2>3. CreatedAt[p] = Second(posts[p].position) /\ CreatedAt[q] = Second(posts[q].position)
        /\ CreatedAt[p] \in Nat /\ CreatedAt[q] \in Nat
    BY <2>2, ListedPosts
  <2>4. QED BY <2>1, <2>2, <2>3 DEF SecondsShared
<1>3. QED BY <1>1, <1>2, FS_Subset

LEMMA OffsetKeeps ==
    ASSUME PostType, WalkInv, OffsetPage
    PROVE  WalkInv'
<1> DEFINE C == Cardinality(Listed)
<1>1. walk.step = "page" /\ walk.mode = "offset" /\ posts' = posts
  BY DEF OffsetPage
<1>2. PICK before \in SUBSET Listed :
          /\ Cardinality(before) = IF Len(walk.seen) < C THEN Len(walk.seen) ELSE C
          /\ Leads(before)
          /\ \E page \in Pages : /\ IsPage(page, Listed \ before, CreatedAt)
                                 /\ walk' = [Turned(page) EXCEPT !.cursor = walk.cursor]
  BY DEF OffsetPage, Leads
<1>3. PICK page \in Pages : /\ IsPage(page, Listed \ before, CreatedAt)
                            /\ walk' = [Turned(page) EXCEPT !.cursor = walk.cursor]
  BY <1>2
<1>4. walk.cursor \in Nat /\ walk.seen \in Seq(Nat) /\ Listed \ before \in SUBSET Listed
  BY DEF WalkInv, WalkType
<1>5. /\ WalkType' /\ PlacesInv' /\ Listed' = Listed
      /\ Shown(page) \subseteq Listed \ before
      /\ Len(page) # PageLimit => Shown(page) = Listed \ before
      /\ walk'.step = (IF Len(page) = PageLimit THEN "page" ELSE "done")
      /\ walk'.mode = walk.mode
      /\ walk'.steady = walk.steady /\ walk'.disturbed = walk.disturbed
      /\ Shown(walk'.seen) = Shown(walk.seen) \cup Shown(page)
      /\ Once(walk.seen) /\ Shown(walk.seen) \cap Shown(page) = {} => Once(walk'.seen)
  BY <1>1, <1>3, <1>4, TurnedWalk
<1>6. CursorInv'
  BY <1>1, <1>5 DEF CursorInv
<1>7. OffsetInv'
  <2> SUFFICES ASSUME ~walk.disturbed, ~SecondsShared PROVE OffsetInv'
    BY <1>1, <1>5 DEF OffsetInv, SecondsShared
  <2>1. /\ Once(walk.seen) /\ walk.steady = Listed
        /\ Shown(walk.seen) \subseteq Listed /\ Leads(Shown(walk.seen))
    BY <1>1 DEF WalkInv, OffsetInv
  <2>2. Cardinality(Shown(walk.seen)) = Len(walk.seen) /\ Len(walk.seen) \in Nat
    BY <1>4, <2>1, ShownCount
  <2>3. Len(walk.seen) <= C /\ C \in Nat
    BY <2>1, <2>2, ListedPosts, FS_Subset, FS_CardinalityType
  <2>4. Cardinality(before) = Cardinality(Shown(walk.seen))
    <3> HIDE DEF C
    <3>1. QED BY <1>2, <2>2, <2>3
  <2>5. before = Shown(walk.seen)
    BY <1>2, <2>1, <2>4, OneTop
  <2>6. Once(walk'.seen) /\ Shown(walk'.seen) \subseteq Listed
    BY <1>5, <2>1, <2>5
  <2>7. Leads(Shown(walk'.seen))
    <3> SUFFICES ASSUME NEW p \in Shown(walk'.seen), NEW q \in Listed \ Shown(walk'.seen)
                 PROVE  CreatedAt[q] <= CreatedAt[p]
      BY DEF Leads
    <3>1. CASE p \in Shown(walk.seen)
      BY <1>5, <2>1, <3>1 DEF Leads
    <3>2. CASE p \in Shown(page)
      <4>1. q \in Listed \ before /\ q \notin Shown(page)
        BY <1>5, <2>5
      <4>2. QED BY <1>3, <3>2, <4>1 DEF IsPage, Shown
    <3>3. QED BY <1>5, <3>1, <3>2
  <2>8. walk'.step = "done" => Shown(walk'.seen) = Listed
    BY <1>5, <2>1, <2>5
  <2>9. CreatedAt' = CreatedAt
    BY <1>1 DEF CreatedAt
  <2>10. QED BY <1>5, <2>1, <2>6, <2>7, <2>8, <2>9 DEF OffsetInv, Once, Shown, Leads
<1>8. QED BY <1>5, <1>6, <1>7 DEF WalkInv

LEMMA WalkInvStep ==
    ASSUME PostsInv, WalkInv, PostArrival \/ PostStep
    PROVE  WalkInv'
<1>1. PostType /\ PlacesInv /\ PostType'
  BY PostsInvStep DEF PostsInv, WalkInv
<1>2. CASE Walks
  BY <1>1, <1>2, StartKeeps, CursorKeeps, OffsetKeeps DEF Walks
<1>3. ASSUME NEW r \in Requests, PostAppended(r) PROVE WalkInv'
  <2> DEFINE new == Len(posts) + 1
  <2>1. /\ DOMAIN posts' = DOMAIN posts \cup {new}
        /\ \A p \in DOMAIN posts : posts'[p] = posts[p] /\ posts'[new].position # posts[p].position
    BY <1>3, AppendedRows
  <2> HIDE DEF new
  <2>2. PlacesInv'
    BY <1>1, <2>1 DEF PlacesInv
  <2>3. Disturb
    BY <1>3 DEF PostAppended
  <2>4. QED BY <1>1, <2>1, <2>2, <2>3, DisturbKeeps
<1>4. ASSUME NEW r \in Requests, PostUpdated(r) \/ PostDeleted(r) PROVE WalkInv'
  <2>1. DOMAIN posts' = DOMAIN posts /\ \A p \in DOMAIN posts : posts'[p].position = posts[p].position
    <3>1. CASE PostUpdated(r)
      BY <3>1, UpdatedRows
    <3>2. CASE PostDeleted(r)
      BY <3>2, DeletedRows
    <3>3. QED BY <1>4, <3>1, <3>2
  <2>2. PlacesInv'
    BY <1>1, <2>1 DEF PlacesInv
  <2>3. Disturb
    BY <1>4 DEF PostUpdated, PostDeleted
  <2>4. QED BY <1>1, <2>1, <2>2, <2>3, DisturbKeeps
<1>5. ASSUME NEW r \in Requests, PostOnly(r) PROVE WalkInv'
  <2>1. posts' = posts /\ walk' = walk
    BY <1>5 DEF PostOnly
  <2>2. QED BY <2>1 DEF WalkInv, WalkType, CursorInv, OffsetInv, PlacesInv, Listed, Found,
                        Leads, SecondsShared, CreatedAt
<1>6. QED BY <1>2, <1>3, <1>4, <1>5, PostSteps

LEMMA WalkInvCorrect == Spec => []WalkInv
<1>1. Init => WalkInv
  BY WalkInitially DEF Init
<1>2. PostsInv /\ WalkInv /\ [Next]_vars => WalkInv'
  <2> SUFFICES ASSUME PostsInv, WalkInv, [Next]_vars PROVE WalkInv'
    OBVIOUS
  <2>1. CASE UNCHANGED postVars
    BY <2>1 DEF postVars, WalkInv, WalkType, CursorInv, OffsetInv, PlacesInv, Listed, Found,
                Leads, SecondsShared, CreatedAt
  <2>2. CASE PostArrival \/ PostStep
    BY <2>2, WalkInvStep
  <2>3. QED BY <2>1, <2>2 DEF Next, vars
<1>3. QED BY <1>1, <1>2, PostsInvCorrect, PTL DEF Spec

\* List (store.go) and query.Cursor, for any number of posts and any page size:
\* a walk by cursor shows every post that stays in the list once, whatever is
\* created, hidden or deleted meanwhile; one by offset shows the list if nothing
\* changes and no two posts have one second.
THEOREM WalksCompleteCorrect == Spec => []WalksComplete
<1> DEFINE Places(p) == {n \in DOMAIN walk.seen : walk.seen[n] = p}
<1>1. ASSUME WalkInv, Once(walk.seen), NEW p
      PROVE  Cardinality(Places(p)) <= 1 /\ (p \in Shown(walk.seen) => Cardinality(Places(p)) = 1)
  <2>1. CASE p \in Shown(walk.seen)
    <3>1. PICK n \in DOMAIN walk.seen : walk.seen[n] = p
      BY <2>1 DEF Shown
    <3>2. Places(p) = {n}
      BY <1>1, <3>1 DEF Once, Places
    <3>3. QED BY <3>2, FS_Singleton
  <2>2. CASE p \notin Shown(walk.seen)
    <3>1. Places(p) = {}
      BY <2>2 DEF Shown, Places
    <3>2. QED BY <2>2, <3>1, FS_EmptySet
  <2>3. QED BY <2>1, <2>2
<1> HIDE DEF Places
<1>2. ASSUME WalkInv
      PROVE  \/ walk.mode = "offset" /\ (walk.disturbed \/ SecondsShared)
             \/ Once(walk.seen) /\ (walk.step = "done" => walk.steady \subseteq Shown(walk.seen))
  <2>1. CASE walk.mode = "cursor"
    BY <1>2, <2>1 DEF WalkInv, CursorInv
  <2>2. CASE walk.mode = "offset"
    BY <1>2, <2>2 DEF WalkInv, OffsetInv
  <2>3. CASE walk.mode \notin {"cursor", "offset"}
    <3>1. walk.seen = <<>> /\ walk.step # "done"
      BY <1>2, <2>3 DEF WalkInv, WalkType
    <3>2. DOMAIN walk.seen = {}
      BY <3>1
    <3>3. QED BY <3>1, <3>2 DEF Once
  <2>4. QED BY <2>1, <2>2, <2>3
<1>3. ASSUME WalkInv PROVE WalksComplete
  <2>1. CASE walk.mode = "offset" /\ (walk.disturbed \/ SecondsShared)
    BY <2>1 DEF WalksComplete, SecondsShared
  <2>2. CASE Once(walk.seen) /\ (walk.step = "done" => walk.steady \subseteq Shown(walk.seen))
    <3>1. \A p \in DOMAIN posts : Cardinality(Places(p)) <= 1
      BY <1>1, <1>3, <2>2
    <3>2. walk.step = "done" => \A p \in walk.steady : Cardinality(Places(p)) = 1
      BY <1>1, <1>3, <2>2
    <3>3. QED BY <3>1, <3>2 DEF WalksComplete, Places
  <2>3. QED BY <1>2, <1>3, <2>1, <2>2
<1>4. QED BY <1>3, WalkInvCorrect, PTL

\* The tables, the requests and the walk have their types, and the bounded
\* counters keep their bounds.
THEOREM TypeCorrect == Spec => []TypeOK
<1> DEFINE Counts == attempts \in [Uploads -> 0..MaxAttempts] /\ arrivals \in 0..MaxArrivals
<1>1. Init => Counts
  BY FilesAssumption, ContentAssumption DEF Init, FileInit
<1>2. Counts /\ [Next]_vars => Counts'
  <2> SUFFICES ASSUME Counts, [Next]_vars PROVE Counts'
    OBVIOUS
  <2>1. attempts' \in [Uploads -> 0..MaxAttempts]
    <3>1. ASSUME NEW u \in Uploads, HandleDeleted(u) PROVE attempts' \in [Uploads -> 0..MaxAttempts]
      BY <3>1, FilesAssumption DEF HandleDeleted, TriesLeft
    <3>2. CASE UNCHANGED attempts
      BY <3>2
    <3>3. (\E u \in Uploads : HandleDeleted(u)) \/ UNCHANGED attempts
      BY DEF Next, vars, fileVars, FileArrival, FileStep, PutBlob, FindFile, CommitUpload,
             RejectUpload, CleanUp, Retire, StopUpload, DeleteFile
    <3>4. QED BY <3>1, <3>2, <3>3
  <2>2. arrivals' \in 0..MaxArrivals
    BY ContentAssumption DEF Next, Arrive, vars
  <2>3. QED BY <2>1, <2>2
<1>3. PostsInv /\ WalkInv /\ FilesInv /\ Counts => TypeOK
  <2> SUFFICES ASSUME PostsInv, WalkInv, FilesInv, Counts PROVE TypeOK
    OBVIOUS
  <2>1. posts \in Seq(Post) /\ postEvents \in Seq(PostEvent)
    BY DEF PostsInv, PostType
  <2>2. \A r \in Requests : call[r].step = "read" => call[r].row \in Post
    BY DEF PostsInv, CopyInv
  <2>3. walk.steady \subseteq DOMAIN posts
    BY ListedPosts DEF PostsInv, WalkInv, WalkType
  <2>4. FileType
    BY DEF FilesInv
  <2>5. QED BY <2>1, <2>2, <2>3, <2>4 DEF TypeOK, FileType
<1>4. QED BY <1>1, <1>2, <1>3, PostsInvCorrect, WalkInvCorrect, FilesInvCorrect, PTL DEF Spec

-----------------------------------------------------------------------------
\* What NoLostUpdate says of a step.
NothingLost ==
    \A p \in DOMAIN posts :
        /\ posts[p].deleted => posts'[p] = posts[p]
        /\ \A f \in Fields : posts'[p].text[f] # posts[p].text[f] =>
               \E r \in Requests :
                   /\ call[r].step = "read" /\ call'[r].step = "ok"
                   /\ call[r].post = p /\ f \in call[r].patch.fields
                   /\ posts'[p].text[f] = r

\* updatePostHandler and Store.update, for any number of requests: a field
\* changes only when a request that gave it a value is answered with success,
\* and then to that value; a deleted post does not change any more.
THEOREM NoLostUpdateCorrect == Spec => NoLostUpdate
<1>1. PostsInv /\ [Next]_vars => [NothingLost]_postVars
  <2> SUFFICES ASSUME PostsInv, PostArrival \/ PostStep PROVE NothingLost
    BY DEF Next, vars, postVars
  <2>1. CASE UNCHANGED posts
    BY <2>1 DEF NothingLost
  <2>2. ASSUME NEW r \in Requests, PostAppended(r) PROVE NothingLost
    BY <2>2, AppendedRows DEF NothingLost
  <2>3. ASSUME NEW r \in Requests, PostUpdated(r) PROVE NothingLost
    <3>1. call[r].step = "read" /\ ~posts[call[r].post].deleted /\ call'[r].step = "ok"
      BY <2>3, AnswerKeeps DEF PostUpdated, Writable, Found, PostsInv
    <3>2. QED BY <2>3, <3>1, UpdatedRows DEF NothingLost
  <2>4. ASSUME NEW r \in Requests, PostDeleted(r) PROVE NothingLost
    BY <2>4, DeletedRows DEF NothingLost
  <2>5. QED BY <2>1, <2>2, <2>3, <2>4, PostSteps DEF PostOnly, Walks
<1>2. QED BY <1>1, PostsInvCorrect, PTL DEF Spec, NoLostUpdate, NothingLost
=============================================================================
