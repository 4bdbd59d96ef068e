------------------------- MODULE ReadableResources --------------------------
(***************************************************************************)
(* What the GraphQL API and the ActivityPub endpoints show (graphql         *)
(* readable.ts, builder.ts, resource.ts, object.ts, classification.ts,      *)
(* activity-delivery/entry.ts; federation collection.ts, visibility.ts,     *)
(* object-dispatchers.ts): activities and objects of remote actors are      *)
(* hidden from those they were not meant for, deleted ones from everybody,  *)
(* and collections are read a page at a time while both change.             *)
(*                                                                         *)
(* Resources are numbered in the order of their UUIDs; one of which only    *)
(* the IRI is known is of kind "unknown".  Actors, owners of collections    *)
(* and the columns of a row that nothing here depends on are left out; so   *)
(* are the sessions that make somebody a viewer.                            *)
(***************************************************************************)
EXTENDS Integers, Sequences, FiniteSets, FiniteSetsExt

CONSTANTS
  Databases,     \* the databases a behaviour may start with
  Incoming,      \* the Creates remote actors deliver
  Posts,         \* the addressing and publication time of local Creates
  LocalInstances,
  Memberships,   \* the instances the viewer may be a member of
  PageSize,
  NullPosition,  \* the position of an item that has none
  MaxResource    \* bound: the highest number a resource gets

ASSUME ReadingAssumption ==
  PageSize \in Nat \ {0} /\ MaxResource \in Nat /\ NullPosition \notin Int

VARIABLES
  db,   \* rows, deletions, the collection's items, deliveries, memberships
  walk  \* the pages a client has read of a collection

readVars == <<db, walk>>

NoResource == 0
NotStated == {"nothing stated"}
Authors == {"local", "remote"}

StoredIds(d) == DOMAIN d.rows
RowsOf(d, kindOf) == {id \in StoredIds(d) : d.rows[id].kind = kindOf}

-----------------------------------------------------------------------------
(* Who may read what                                                        *)

\* viewableInstance(): a viewer's instances are those it accepted to join.
ViewerOf(d, account) ==
  [admin |-> account = "admin",
   instances |-> IF account = "member" THEN d.accepted ELSE {}]

IsPublic(addressed) == "public" \in addressed
AddressedPublicly(row) == IsPublic(row.to) \/ IsPublic(row.cc) \/ row.aside

\* received(): a delivery to one of the viewer's instances carried the mark.
WasReceived(d, viewer, id, mark) ==
  \E l \in d.links :
    l.activity = id /\ mark \in l.carried /\ l.instance \in viewer.instances

\* readableActivity(): anything but a remote actor's activity is.
ReadableActivity(d, viewer, id) ==
  \/ d.rows[id].kind # "activity" \/ d.rows[id].author = "local"
  \/ AddressedPublicly(d.rows[id])
  \/ WasReceived(d, viewer, id, "activity")

\* readableObject(): only the activity that carried it opens a remote object.
ReadableObject(d, viewer, id) ==
  LET row == d.rows[id] IN
  \/ row.kind # "object" \/ row.author = "local"
  \/ AddressedPublicly(row)
  \/ /\ row.carrier \in StoredIds(d)
     /\ \/ ~row.fetched /\ AddressedPublicly(d.rows[row.carrier])
        \/ WasReceived(d, viewer, row.carrier, "object")

\* readableResource() of a stored row.
IsReadable(d, viewer, id) ==
  viewer.admin \/ (ReadableActivity(d, viewer, id) /\ ReadableObject(d, viewer, id))

UnreadableResources(d, viewer) ==
  {id \in StoredIds(d) : ~IsReadable(d, viewer, id)}

\* visibleResource(), filterDeleted(): neither it nor its author is deleted.
IsVisible(d, id) == id \notin d.deleted /\ d.rows[id].author \notin d.deletedAuthors

-----------------------------------------------------------------------------
(* What each field answers                                                  *)

NoAnswer == <<>>

\* node(), nodes(), Resource.detail
Shown(d, viewer, id) ==
  id \in StoredIds(d) /\ IsVisible(d, id) /\ IsReadable(d, viewer, id)
Node(d, viewer, id) ==
  IF Shown(d, viewer, id)
  THEN <<d.rows[id].kind, d.rows[id].author, d.rows[id].content,
         d.rows[id].to, d.rows[id].cc, d.rows[id].aside>>
  ELSE NoAnswer

\* Mutant: the relation itself.
ObjectRelated(d, viewer, id) ==
  LET about == d.rows[id].about IN
  IF about \in StoredIds(d) THEN about ELSE NoResource
\* Activity.object: a resource whatever is known of it, and deleted or not.
ObjectOf(d, viewer, id) ==
  LET about == d.rows[id].about IN
  IF about \in StoredIds(d) /\ IsReadable(d, viewer, about) THEN about
  ELSE NoResource

StatedOr(addressed, fallback) ==
  IF addressed # NotStated THEN addressed
  ELSE IF fallback # NotStated THEN fallback ELSE {}
ClassifyMastodon(object, activity) ==
  LET to == StatedOr(object.to, activity.to)
      cc == StatedOr(object.cc, activity.cc)
  IN IF IsPublic(to) THEN "public"
     ELSE IF IsPublic(cc) THEN "unlisted"
     ELSE IF "followers" \in to THEN "private" ELSE "direct"
ClassifyMisskey(object) ==
  IF IsPublic(object.to) THEN "public"
  ELSE IF IsPublic(object.cc) THEN "home"
  ELSE IF "followers" \in object.to \union object.cc THEN "followers"
  ELSE "specified"

\* Activity.expectedClassifications
Classifications(d, viewer, id) ==
  LET about == ObjectOf(d, viewer, id) IN
  IF about \in RowsOf(d, "object") /\ IsVisible(d, about)
  THEN <<ClassifyMastodon(d.rows[about], d.rows[id]), ClassifyMisskey(d.rows[about])>>
  ELSE NoAnswer

\* The members of a set in an order.
OneOf(S) == CHOOSE x \in S : TRUE
Ordered(S, Before(_, _)) ==
  [i \in 1 .. Cardinality(S) |->
     OneOf({x \in S : Cardinality({y \in S : Before(y, x)}) = i - 1})]

Earlier(d, a, b) ==
  LET p == d.rows[a].published
      q == d.rows[b].published
  IN p < q \/ (p = q /\ a < b)

\* Object.activities
ActivitiesOf(d, viewer, id) ==
  Ordered({a \in RowsOf(d, "activity") :
             /\ d.rows[a].about = id /\ d.rows[a].author \notin d.deletedAuthors
             /\ IsReadable(d, viewer, a)},
          LAMBDA a, b : Earlier(d, a, b))

\* Actor.objects and its totalCount
ObjectsBy(d, viewer, author) ==
  Ordered({o \in RowsOf(d, "object") :
             d.rows[o].author = author /\ o \notin d.deleted /\ IsReadable(d, viewer, o)},
          LAMBDA a, b : Earlier(d, b, a))

\* ActivityDelivery.activity and Activity.deliveries, of the instances whose
\* deliveries the viewer may read.
ReadableDeliveries(d, viewer) ==
  {<<l, IF l.activity \in StoredIds(d) /\ IsReadable(d, viewer, l.activity)
        THEN l.activity ELSE NoResource>> :
     l \in {l \in d.links : viewer.admin \/ l.instance \in viewer.instances}}

-----------------------------------------------------------------------------
(* Collections, a page at a time                                            *)

\* Collection.items, in the default order of PostgreSQL: nulls are last.
CollectionItems(d, viewer) == {id \in DOMAIN d.positions : Shown(d, viewer, id)}
ItemBefore(d, a, b) ==
  LET p == d.positions[a]
      q == d.positions[b]
  IN \/ p # NullPosition /\ q = NullPosition
     \/ p # NullPosition /\ q # NullPosition /\ p < q
     \/ p = q /\ a < b
ItemsOf(d, viewer) ==
  Ordered(CollectionItems(d, viewer), LAMBDA a, b : ItemBefore(d, a, b))

\* Mutant: items without a position are not after one that has a position.
IsAfterPositioned(d, id, cursor) ==
  LET position == d.positions[id] IN
  IF cursor.at = NullPosition THEN position = NullPosition /\ id > cursor.id
  ELSE /\ position # NullPosition
       /\ position > cursor.at \/ (position = cursor.at /\ id > cursor.id)
\* collectionCursorPredicate(), whose comparisons with null do not hold.
IsAfter(d, id, cursor) ==
  LET position == d.positions[id] IN
  IF cursor.at = NullPosition THEN position = NullPosition /\ id > cursor.id
  ELSE \/ position = NullPosition
       \/ position > cursor.at
       \/ position = cursor.at /\ id > cursor.id
IsBefore(d, id, cursor) ==
  LET position == d.positions[id] IN
  IF cursor.at = NullPosition
  THEN position # NullPosition \/ id < cursor.id
  ELSE /\ position # NullPosition
       /\ position < cursor.at \/ (position = cursor.at /\ id < cursor.id)

\* servedActivity(): public Creates of objects that are not deleted.
PublicAddressing(row) == IsPublic(row.to) \/ IsPublic(row.cc)
ServedActivities(d) ==
  IF "local" \in d.deletedAuthors THEN {}
  ELSE {a \in RowsOf(d, "activity") :
          /\ d.rows[a].author = "local" /\ PublicAddressing(d.rows[a])
          /\ d.rows[a].about \in RowsOf(d, "object") \ d.deleted}

\* The outbox dispatcher's boundary, with the precision of the database.
IsOlder(d, id, cursor) ==
  \/ d.rows[id].published < cursor.at
  \/ d.rows[id].published = cursor.at /\ id < cursor.id

NoCursor == [at |-> NullPosition, id |-> NoResource]
Walks == {"forward", "backward", "outbox"}

ListedIn(d, over) ==
  CASE over = "none" -> {}
    [] over = "outbox" -> ServedActivities(d)
    [] OTHER -> CollectionItems(d, ViewerOf(d, "member"))

\* What comes first in a walk: the collection from its front or from its end,
\* the outbox from its newest activity.
Precedes(d, over, a, b) ==
  CASE over = "forward" -> ItemBefore(d, a, b)
    [] over = "backward" -> ItemBefore(d, b, a)
    [] over = "outbox" -> Earlier(d, b, a)
Beyond(d, over, id, cursor) ==
  CASE over = "forward" -> IsAfter(d, id, cursor)
    [] over = "backward" -> IsBefore(d, id, cursor)
    [] over = "outbox" -> IsOlder(d, id, cursor)
CursorOf(d, over, id) ==
  [at |-> IF over = "outbox" THEN d.rows[id].published ELSE d.positions[id],
   id |-> id]

NoWalk == [over |-> "none", cursor |-> NoCursor, seen |-> <<>>, steady |-> {},
           ended |-> FALSE]

StartWalk(over) ==
  /\ walk.over = "none" /\ DOMAIN db.positions # {}
  /\ walk' = [walk EXCEPT !.over = over, !.steady = ListedIn(db, over)]
  /\ UNCHANGED db

\* resolveCursorConnection(), and the outbox dispatcher: one row more than the
\* page tells whether there is another.
ReadPage ==
  LET over == walk.over
      found == Ordered({id \in ListedIn(db, over) :
                          walk.cursor = NoCursor \/ Beyond(db, over, id, walk.cursor)},
                       LAMBDA a, b : Precedes(db, over, a, b))
      page == SubSeq(found, 1, Min({PageSize, Len(found)}))
  IN /\ over # "none" /\ ~walk.ended
     /\ walk' = [walk EXCEPT
                   !.seen = @ \o page,
                   !.ended = Len(found) <= PageSize,
                   !.cursor = IF page = <<>> THEN @
                              ELSE CursorOf(db, over, page[Len(page)])]
     /\ UNCHANGED db

-----------------------------------------------------------------------------
(* What changes while others read                                           *)

\* What a walk must show is what it could have been shown all along.
Becomes(d) ==
  /\ db' = d
  /\ walk' = [walk EXCEPT !.steady = @ \cap ListedIn(d, walk.over)]

RowOf(kindOf, author, addressed, about, carrier, fetched, content, published) ==
  [kind |-> kindOf, author |-> author, to |-> addressed.to, cc |-> addressed.cc,
   aside |-> addressed.aside, about |-> about, carrier |-> carrier,
   fetched |-> fetched, content |-> content, published |-> published]

\* A row is stored once, over the IRI that something referred to before.
StoreAbsent(rows, id, row) ==
  [r \in DOMAIN rows \union {id} |->
     IF r = id /\ (id \notin DOMAIN rows \/ rows[id].kind = "unknown") THEN row
     ELSE rows[r]]

\* promoteResource(): what is stored stays the kind it is.
MayBecome(id, kindOf) ==
  id \in StoredIds(db) => db.rows[id].kind \in {"unknown", kindOf}

\* persistCreate() and decideCarried(): of an activity that is stored nothing is
\* written, else what is not stored yet is; and the delivery carried what it
\* brought as it is stored.
ReceiveCreate(create, instance) ==
  LET known == create.activity \in RowsOf(db, "activity")
      withActivity ==
        StoreAbsent(db.rows, create.activity,
                    RowOf("activity", "remote", create.addressed, create.object,
                          NoResource, FALSE, create.content, 0))
      withObject ==
        StoreAbsent(withActivity, create.object,
                    RowOf("object", "remote", create.objectAddressed,
                          NoResource, create.activity, create.fetched,
                          IF create.fetched THEN create.fetchedContent
                          ELSE create.content, 0))
      rows == IF known THEN db.rows ELSE withObject
      carriedActivity == rows[create.activity].content = create.content
      carriedObject ==
        /\ carriedActivity
        /\ \E id \in DOMAIN rows :
             /\ rows[id].kind = "object" /\ rows[id].carrier = create.activity
             /\ rows[id].fetched =>
                  create.fetched /\ create.fetchedContent = rows[id].content
  IN /\ \/ known
        \/ /\ MayBecome(create.activity, "activity") /\ MayBecome(create.object, "object")
           /\ create.activity # create.object
           /\ withObject[create.object].author = "remote"
     /\ Becomes([db EXCEPT
          !.rows = rows,
          !.links = @ \union
            {[activity |-> create.activity, instance |-> instance,
              carried |-> (IF carriedActivity THEN {"activity"} ELSE {})
                          \union (IF carriedObject THEN {"object"} ELSE {})]}])

\* addActorCollectionItem(): the newest item is the first.
FrontPosition(positions) ==
  LET given == {positions[id] : id \in DOMAIN positions} \ {NullPosition} IN
  IF given = {} THEN -1 ELSE Min(given) - 1

\* createObject: an object, and its Create in the outbox of its author.
PublishObject(post) ==
  LET object == Max(StoredIds(db) \union {NoResource}) + 1
      activity == object + 1
      rows == StoreAbsent(db.rows, object,
                          RowOf("object", "local", post, NoResource, NoResource,
                                FALSE, 1, post.published))
  IN /\ activity <= MaxResource /\ "local" \notin db.deletedAuthors
     /\ Becomes([db EXCEPT
          !.rows = StoreAbsent(rows, activity,
                     RowOf("activity", "local", post, object, NoResource, FALSE, 1,
                           post.published)),
          !.positions = [id \in DOMAIN @ \union {activity} |->
                           IF id \in DOMAIN @ THEN @[id] ELSE FrontPosition(@)]])

\* commitLocalDelete(): objects of local actors.
DeleteObject(id) ==
  /\ id \in RowsOf(db, "object") \ db.deleted /\ db.rows[id].author = "local"
  /\ Becomes([db EXCEPT !.deleted = @ \union {id}])

\* An actor is marked deleted, and memberships are accepted and ended, by hand.
DeleteAuthor(author) ==
  author \notin db.deletedAuthors /\ Becomes([db EXCEPT !.deletedAuthors = @ \union {author}])
AcceptMembership(instance) ==
  instance \notin db.accepted /\ Becomes([db EXCEPT !.accepted = @ \union {instance}])
EndMembership(instance) ==
  instance \in db.accepted /\ Becomes([db EXCEPT !.accepted = @ \ {instance}])

ReadingInit == db \in Databases /\ walk = NoWalk

ReadingNext ==
  \/ \E over \in Walks : StartWalk(over)
  \/ ReadPage
  \/ \E create \in Incoming, instance \in LocalInstances : ReceiveCreate(create, instance)
  \/ \E post \in Posts : PublishObject(post)
  \/ \E id \in StoredIds(db) : DeleteObject(id)
  \/ \E author \in Authors : DeleteAuthor(author)
  \/ \E instance \in Memberships : AcceptMembership(instance) \/ EndMembership(instance)

-----------------------------------------------------------------------------
\* The pages of a walk, read one at a time while items are added, deleted, hidden
\* and shown again, list them in their order, each once, and one that ended left
\* out nothing that could be read all along (collectionCursorPredicate,
\* resource.ts:342-378, and the outbox's boundary, collection.ts:43-46).
WalksAreComplete ==
  /\ \A i, j \in DOMAIN walk.seen :
       i < j => Precedes(db, walk.over, walk.seen[i], walk.seen[j])
  /\ walk.ended => walk.steady \subseteq {walk.seen[i] : i \in DOMAIN walk.seen}

\* What a database that is written as above holds: rows have a publication time
\* and items a position or none, a remote object names the activity that carried
\* it, if that is still there, and a delivery that carried an object carried its
\* activity.
DatabaseOK(d) ==
  /\ DOMAIN d = {"rows", "deleted", "deletedAuthors", "positions", "links", "accepted"}
  /\ StoredIds(d) \subseteq 1 .. MaxResource
  /\ \A id \in StoredIds(d) : d.rows[id].published \in Int
  /\ DOMAIN d.positions \subseteq 1 .. MaxResource
  /\ \A id \in DOMAIN d.positions : d.positions[id] \in Int \union {NullPosition}
  /\ \A id \in RowsOf(d, "object") :
       \/ d.rows[id].author = "local"
       \/ d.rows[id].carrier \in RowsOf(d, "activity") \union {NoResource}
  /\ \A l \in d.links : "object" \in l.carried => "activity" \in l.carried

ASSUME DatabasesAssumption ==
  /\ \A d \in Databases : DatabaseOK(d)
  /\ \A create \in Incoming :
       create.activity \in 1 .. MaxResource /\ create.object \in 1 .. MaxResource
  /\ \A post \in Posts : post.published \in Int

\* What a viewer is told of everything it can reach.
Answers(d, viewer) ==
  LET reached == {id \in StoredIds(d) : Shown(d, viewer, id)} IN
  [nodes |-> {<<id, Node(d, viewer, id)>> : id \in reached},
   activities |->
     {<<id, ObjectOf(d, viewer, id), Classifications(d, viewer, id)>> :
        id \in reached \cap RowsOf(d, "activity")},
   objects |->
     {<<id, ActivitiesOf(d, viewer, id)>> : id \in reached \cap RowsOf(d, "object")},
   authored |-> [author \in Authors \ d.deletedAuthors |-> ObjectsBy(d, viewer, author)],
   deliveries |-> ReadableDeliveries(d, viewer),
   items |-> ItemsOf(d, viewer)]

Without(d, ids) ==
  [d EXCEPT !.rows = [id \in StoredIds(d) \ ids |-> d.rows[id]],
            !.positions = [id \in DOMAIN @ \ ids |-> @[id]]]

\* A viewer is told exactly what it would be told if the resources it may not read
\* did not exist: no count, order, reference, classification or delivery tells of
\* one (readableResource, readable.ts:211-214: rows are filtered before paging).
HiddenTellsNothing ==
  \A account \in {"nobody", "member"} :
    LET viewer == ViewerOf(db, account) IN
    Answers(db, viewer)
      = Answers(Without(db, UnreadableResources(db, viewer)), viewer)
=============================================================================
