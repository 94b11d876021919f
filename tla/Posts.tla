------------------------------- MODULE Posts -------------------------------
(***************************************************************************)
(* internal/modules/post: posts, the events they put into the outbox, and  *)
(* the list.  A handler reads the row in the middleware, merges its        *)
(* payload into the copy, and writes the copy and the event in one         *)
(* transaction; the update compares versions, the deletion does not.  What *)
(* a field holds is known by the request that wrote it.                    *)
(***************************************************************************)
EXTENDS Naturals, Sequences, FiniteSets

CONSTANTS
    MaxRequests,    \* bound on create, update and delete requests
    Fields,         \* title, content, tags, metadata
    Patches,        \* what an update may ask for
    MaxPosition,    \* places of posts in the list
    PageLimit       \* limit of a list page

ASSUME PostsAssumption ==
    /\ MaxRequests \in Nat
    /\ Patches \subseteq [fields : SUBSET Fields, visible : {"keep", "show", "hide"}]
    /\ MaxPosition \in Nat
    /\ PageLimit \in Nat \ {0}

\* Requests are numbered as they reach the database for the first time.
Requests == 1..MaxRequests

VARIABLES
    posts,          \* rows in the order of their commits
    postEvents,     \* their events in the order of their commits
    call,           \* call[r]: a request and the copy of the row it read
    walk            \* a client that follows the pages of the list

postVars == <<posts, postEvents, call, walk>>

Post == [text : [Fields -> Requests], visible : BOOLEAN, version : Nat \ {0},
         deleted : BOOLEAN, position : 1..MaxPosition]
PostEvent == [post : Nat \ {0}, type : {"created", "updated", "visibility", "deleted"},
              version : Nat \ {0}, before : BOOLEAN, after : BOOLEAN]

NoPatch == [fields |-> {}, visible |-> "keep"]
NoCall == [step |-> "new", kind |-> "", post |-> 0, row |-> <<>>, patch |-> NoPatch]
NoWalk == [step |-> "new", mode |-> "", cursor |-> 0, seen |-> <<>>, steady |-> {},
           disturbed |-> FALSE]

Tell(p, type, version, before, after) ==
    Append(postEvents, [post |-> p, type |-> type, version |-> version,
                        before |-> before, after |-> after])

Arrives(r) == call[r].step = "new" /\ \A q \in 1..r - 1 : call[q].step # "new"

Answer(r, a) == call' = [call EXCEPT ![r].step = a, ![r].row = <<>>, ![r].patch = NoPatch]

\* created_at has seconds: two neighbouring places share one.
Second(position) == (position + 1) \div 2

\* GetByID, GetByReferenceID: hidden posts are found as well.
Found(p) == ~posts[p].deleted

\* visiblePosts.
Listed == {p \in DOMAIN posts : Found(p) /\ posts[p].visible}

\* What the change of the list means to a walk in progress.
Disturb == walk' = [walk EXCEPT !.disturbed = @ \/ Listed' # Listed,
                                !.steady = @ \cap Listed']

-----------------------------------------------------------------------------

\* Store.create.  NOW() is the start of the transaction,
\* so a commit may land before the head of the list.  A create that fails, among
\* others on a taken reference id (the second INSERT runs in the transaction
\* that the first has failed), leaves nothing.
NewPost(r, position) ==
    [text |-> [f \in Fields |-> r], visible |-> TRUE, version |-> 1, deleted |-> FALSE,
     position |-> position]

CreationEvents == Tell(Len(posts) + 1, "created", 1, TRUE, TRUE)

\* createPostHandler: row and event in one transaction.
CreatePost(r) ==
    /\ Arrives(r)
    /\ \E n \in 1..MaxPosition \ {posts[q].position : q \in DOMAIN posts} :
        posts' = Append(posts, NewPost(r, n))
    /\ postEvents' = CreationEvents
    /\ Answer(r, "ok")
    /\ Disturb

\* postsContextMiddleware.
ReadPost(r) ==
    /\ Arrives(r)
    /\ \E p \in DOMAIN posts : \E kind \in {"update", "delete"} :
        /\ Found(p)
        /\ \E patch \in IF kind = "update" THEN Patches ELSE {NoPatch} :
            call' = [call EXCEPT ![r] = [step |-> "read", kind |-> kind, post |-> p,
                                         row |-> posts[p], patch |-> patch]]
    /\ UNCHANGED <<posts, postEvents, walk>>

\* updatePostHandler: the copy with the fields of the payload.
Merged(r) ==
    LET patch == call[r].patch IN
    [call[r].row EXCEPT
        !.text = [f \in Fields |-> IF f \in patch.fields THEN r ELSE @[f]],
        !.visible = IF patch.visible = "keep" THEN @ ELSE patch.visible = "show"]

\* Mutant: WHERE id = ... without the version.
WritableUnversioned(r) == Found(call[r].post)

\* WHERE id AND version AND deleted_at IS NULL.
Writable(r) ==
    LET p == call[r].post IN Found(p) /\ posts[p].version = call[r].row.version

\* Mutant: the comparison with the patch and not with the visibility before.
UpdateEventsOnChange(r, version) ==
    LET copy == call[r].row IN
    IF call[r].patch.fields # {} THEN Tell(call[r].post, "updated", version, copy.visible, copy.visible)
    ELSE postEvents

\* update (events.go): a change of the visibility hides the changed fields, an
\* update that changes nothing is silent though it raises the version.
UpdateEvents(r, version) ==
    LET before == call[r].row.visible
        after == Merged(r).visible
    IN  IF before # after THEN Tell(call[r].post, "visibility", version, before, after)
        ELSE IF call[r].patch.fields # {} THEN Tell(call[r].post, "updated", version, before, after)
        ELSE postEvents

UpdatePost(r) ==
    LET version == call[r].row.version + 1 IN
    /\ call[r].step = "read" /\ call[r].kind = "update"
    /\ IF Writable(r)
       THEN /\ posts' = [posts EXCEPT ![call[r].post] = [Merged(r) EXCEPT !.version = version]]
            /\ postEvents' = UpdateEvents(r, version)
            /\ Answer(r, "ok")
            /\ Disturb
       ELSE Answer(r, "conflict") /\ UNCHANGED <<posts, postEvents, walk>>

\* softDelete: no version is compared, and it is not raised.
SoftDeleted(row) == [row EXCEPT !.deleted = TRUE]

\* delete (events.go): with the version that was read.
DeletionEvents(r) ==
    LET copy == call[r].row
    IN  Tell(call[r].post, "deleted", copy.version, copy.visible, copy.visible)

\* deletePostHandler.
DeletePost(r) ==
    /\ call[r].step = "read" /\ call[r].kind = "delete"
    /\ IF Found(call[r].post)
       THEN /\ posts' = [posts EXCEPT ![call[r].post] = SoftDeleted(@)]
            /\ postEvents' = DeletionEvents(r)
            /\ Answer(r, "ok")
            /\ Disturb
       ELSE Answer(r, "missing") /\ UNCHANGED <<posts, postEvents, walk>>

\* The transaction fails and leaves nothing.
FailPost(r) ==
    /\ call[r].step = "read"
    /\ Answer(r, "error")
    /\ UNCHANGED <<posts, postEvents, walk>>

-----------------------------------------------------------------------------
(* The list, newest first.                                                 *)

\* Parse: without sort_by the sort column is "created_a\tt", which is none of the
\* table, so a list by offset fails in the database and one by cursor before.
Sortable(sortBy) == sortBy = "created_at"

\* A first request with sort_by=created_at or without.  The cursor is made by
\* the client from some place in the list: a page by offset has no next_cursor.
StartWalk ==
    /\ walk.step = "new"
    /\ \E mode \in {"cursor", "offset"}, sortBy \in {"created_at", ""} :
        walk' = [NoWalk EXCEPT !.step = IF Sortable(sortBy) THEN "page" ELSE "error",
                               !.mode = mode, !.cursor = MaxPosition + 1, !.steady = Listed]
    /\ UNCHANGED <<posts, postEvents, call>>

\* The first PageLimit rows, the highest place of the list first.
IsPage(page, rows, place) ==
    /\ Len(page) = IF Cardinality(rows) < PageLimit THEN Cardinality(rows) ELSE PageLimit
    /\ \A n \in DOMAIN page : page[n] \in rows
    /\ \A m, n \in DOMAIN page : m < n => page[m] # page[n] /\ place[page[n]] <= place[page[m]]
    /\ \A p \in rows : p \in {page[n] : n \in DOMAIN page}
                       \/ \A n \in DOMAIN page : place[p] <= place[page[n]]

\* ORDER BY created_at, id, and by created_at alone.
Position == [p \in DOMAIN posts |-> posts[p].position]
CreatedAt == [p \in DOMAIN posts |-> Second(posts[p].position)]

Pages == UNION {[1..n -> Listed] : n \in 0..PageLimit}

\* Mutant: <= in place of <.
BelowCursorInclusive == {p \in Listed : posts[p].position <= walk.cursor}

\* (created_at, id) < cursor.
BelowCursor == {p \in Listed : posts[p].position < walk.cursor}

\* EncodeCursor of the last item of a full page.
NextCursor(page) ==
    IF Len(page) = PageLimit THEN posts[page[PageLimit]].position ELSE walk.cursor

Turned(page) ==
    [walk EXCEPT !.seen = @ \o page, !.cursor = NextCursor(page),
                 !.step = IF Len(page) = PageLimit THEN "page" ELSE "done"]

\* A page after the cursor.
CursorPage ==
    /\ walk.step = "page" /\ walk.mode = "cursor"
    /\ \E page \in Pages : IsPage(page, BelowCursor, Position) /\ walk' = Turned(page)
    /\ UNCHANGED <<posts, postEvents, call>>

\* ORDER BY created_at LIMIT OFFSET: rows of one second come in any order, and
\* in another order for the next page.
OffsetPage ==
    LET offset == Len(walk.seen) IN
    /\ walk.step = "page" /\ walk.mode = "offset"
    /\ \E before \in SUBSET Listed :
        /\ Cardinality(before) = IF offset < Cardinality(Listed) THEN offset ELSE Cardinality(Listed)
        /\ \A p \in before, q \in Listed \ before : CreatedAt[q] <= CreatedAt[p]
        /\ \E page \in Pages :
            /\ IsPage(page, Listed \ before, CreatedAt)
            /\ walk' = [Turned(page) EXCEPT !.cursor = walk.cursor]
    /\ UNCHANGED <<posts, postEvents, call>>

-----------------------------------------------------------------------------

PostInit ==
    /\ posts = <<>> /\ postEvents = <<>>
    /\ call = [r \in Requests |-> NoCall]
    /\ walk = NoWalk

PostArrival == StartWalk \/ \E r \in Requests : CreatePost(r) \/ ReadPost(r)

PostStep ==
    \/ \E r \in Requests : UpdatePost(r) \/ DeletePost(r) \/ FailPost(r)
    \/ CursorPage \/ OffsetPage

-----------------------------------------------------------------------------
(* Properties.                                                             *)

\* The places of the events of p.
EventsOf(p) == {n \in DOMAIN postEvents : postEvents[n].post = p}

\* Optimistic locking (updatePostHandler, Store.update): a field changes only
\* when a request that gave it a value is answered, and then to that value; a
\* deleted post does not change any more.
NoLostUpdate ==
    [][\A p \in DOMAIN posts :
          /\ posts[p].deleted => posts'[p] = posts[p]
          /\ \A f \in Fields : posts'[p].text[f] # posts[p].text[f] =>
                 \E r \in Requests :
                     /\ call[r].step = "read" /\ call'[r].step = "ok"
                     /\ call[r].post = p /\ f \in call[r].patch.fields
                     /\ posts'[p].text[f] = r]_postVars

\* events.go of posts: who replays the events of a post knows its visibility,
\* each event but the deletion raises the version, the deletion is the last
\* one, and it is below the row's version only if an update that the deleting
\* request had not seen was answered before it.
EventsTellPost ==
    \A p \in DOMAIN posts :
        LET es == EventsOf(p) IN
        /\ \E n \in es : postEvents[n].type = "created" /\ \A m \in es : n <= m
        /\ \E n \in es :
            LET last == postEvents[n] IN
            /\ \A m \in es : m <= n
            /\ last.type # "deleted" => last.after = posts[p].visible
            /\ posts[p].deleted <=> last.type = "deleted"
            /\ last.type = "deleted" /\ last.version < posts[p].version =>
                   \E r \in Requests :
                       /\ call[r].step = "ok" /\ call[r].kind = "update" /\ call[r].post = p
        /\ \A m, n \in es :
            LET e == postEvents[m]
                next == postEvents[n]
            IN  m < n /\ (\A k \in es : k <= m \/ n <= k) =>
                    /\ e.type # "deleted"
                    /\ next.type # "deleted" => e.version < next.version /\ e.after = next.before

\* List (store.go), query.Cursor: a walk by cursor shows every post that is
\* listed all the time once, and no post twice; a walk by offset does so unless
\* the list changes or two posts were created within one second.
WalksComplete ==
    LET Times(p) == Cardinality({n \in DOMAIN walk.seen : walk.seen[n] = p})
        Clean == /\ \A p \in DOMAIN posts : Times(p) <= 1
                 /\ walk.step = "done" => \A p \in walk.steady : Times(p) = 1
        Tied == \E p, q \in DOMAIN posts :
                    p # q /\ Second(posts[p].position) = Second(posts[q].position)
    IN  Clean \/ (walk.mode = "offset" /\ (walk.disturbed \/ Tied))

=============================================================================
