----------------------- MODULE LocalWritePreparation ------------------------
(***************************************************************************)
(* What a local write saves (federation/src/local-write).  A preview        *)
(* prepares a request to create resources, or to edit or delete the object, *)
(* with IRIs and a timestamp of its own, and signs a token for them; the    *)
(* commit prepares the request again from what is stored by then and saves  *)
(* it.  LocalWrites has the locks of a commit; here it is one step.         *)
(*                                                                         *)
(* A document is the sequence of documents from the root inwards, each      *)
(* embedded in the one before it, and what its innermost one refers to      *)
(* instead of embedding it.  IRIs and times are tuples, <<>> where absent;  *)
(* the i-th new resource of the n-th preview gets <<"new", n, i>>.          *)
(***************************************************************************)
EXTENDS Integers, Sequences, FiniteSets

CONSTANTS
  WriterAccounts, \* the accounts that may write as the actor
  WriteRequests,  \* the requests made
  Targets,        \* the states the object may be in at first
  MaxTokens       \* of each operation, how many previews where it is previewed

VARIABLES
  object, \* its revisions, its typed row and its addressing rows
  living, \* the other local actors of the instance that are not deleted
  known,  \* the IRIs registered with a known kind
  issued, \* the previews, numbered, with what they showed
  saved   \* what commits saved, in order

preparationVars == <<object, living, known, issued, saved>>

-----------------------------------------------------------------------------
(* IRIs and documents                                                      *)

Absent == <<>>
Actor == <<"actor">>
Colleague == <<"colleague">> \* another local actor of the instance
Neighbour == <<"neighbour">> \* a local actor of another instance
Object == <<"object">>
Mentioned == <<"mentioned">> \* an IRI registered because it was addressed
Remote == <<"remote">>
OnInstanceHost(iri) == iri \notin {Absent, Remote}

LocalActorIris == {Actor} \union living

Nesting == {"object", "target", "origin", "result", "instrument"}
NoReference == [property |-> "", iri |-> Absent]

KindOfNode(node) ==
  CASE node.type \in {"Create", "Offer", "Update", "Delete", "Question"} -> "activity"
    [] node.type = "Person" -> "actor"
    [] node.type = "Link" -> "link"
    [] OTHER -> "object"

\* Whether the validator reads a document without errors: Fedify's own context
\* it cannot.
Readable(nodes) ==
  nodes[1].valid /\ \A i \in DOMAIN nodes : "fedify" \notin nodes[i].context

\* What a document's root addresses and relates to.
IndexDocument(document) ==
  LET root == document.nodes[1]
      embedded == IF Len(document.nodes) = 1 THEN {} ELSE {document.nodes[2]}
      Relation(property, representation, iri) ==
        [property |-> property, representation |-> representation, target |-> iri]
  IN [addressing |-> {<<i, root.to[i]>> : i \in {j \in DOMAIN root.to : root.to[j] # Absent}},
      relations |->
        {Relation(p, "reference", root.fields[p]) :
           p \in {q \in {"actor", "attributedTo"} : root.fields[q] # Absent}}
        \union {Relation(n.property, IF KindOfNode(n) = "link" THEN "link" ELSE "embedded",
                         n.fields.id) : n \in embedded}
        \union (IF document.last = NoReference \/ embedded # {} THEN {}
                ELSE {Relation(document.last.property, "reference", document.last.iri)})]

Resource(iri, kind, generated, document) ==
  [iri |-> iri, kind |-> kind, generated |-> generated, document |-> document,
   index |-> IndexDocument(document)]

PrepareFails == [fails |-> TRUE, resources |-> <<>>, columns |-> <<>>]
Prepared(resources, columns) ==
  [fails |-> FALSE, resources |-> resources, columns |-> columns]

\* Requests and objects as the code holds them.  A stored object's addressing rows
\* list what its newest document addresses, if the document can be read.
IsSeq(s) == s \in Seq({s[i] : i \in DOMAIN s})
IsNode(n) ==
  n = [type |-> n.type, property |-> n.property, to |-> n.to, context |-> n.context,
       content |-> n.content, respelled |-> n.respelled, valid |-> n.valid,
       fields |-> [id |-> n.fields.id, actor |-> n.fields.actor,
                   attributedTo |-> n.fields.attributedTo,
                   published |-> n.fields.published, updated |-> n.fields.updated]]
IsDocument(nodes) ==
  nodes # <<>> /\ IsSeq(nodes) /\ \A i \in DOMAIN nodes : IsNode(nodes[i])
Descriptors == [at : Nat, kind : {"object", "activity"},
                representation : {"", "embedded", "reference"}]
Addressees(to) == SelectSeq(to, LAMBDA iri : iri # Absent)

IsRequest(q) ==
  /\ q = [operation |-> q.operation, document |-> q.document, resources |-> q.resources,
          publish |-> q.publish, expected |-> q.expected]
  /\ q.operation \in {"create", "edit", "delete"}
  /\ q.operation # "delete" => IsDocument(q.document)
  /\ q.resources \in Seq(Descriptors)
IsTarget(o) ==
  LET head == o.history[Len(o.history)]
      nodes == head.document.nodes
  IN /\ o = [history |-> o.history, columns |-> o.columns, addressing |-> o.addressing]
     /\ o.history # <<>> /\ IsSeq(o.history)
     /\ head = [kind |-> head.kind, local |-> head.local, document |-> head.document]
     /\ IsDocument(nodes)
     /\ o.addressing = Addressees(IF Readable(nodes) THEN nodes[1].to ELSE o.addressing)
     /\ o.columns # <<>> => o.columns = <<o.columns[1]>>

ASSUME WriteAssumption ==
  /\ \A q \in WriteRequests : IsRequest(q)
  /\ \A o \in Targets : IsTarget(o)

-----------------------------------------------------------------------------
(* Identity claims and the fields the server owns                          *)

AuthorField(kind) == IF kind = "activity" THEN "actor" ELSE "attributedTo"

\* Mutant: claims of a new resource are not looked at.
IdentityClaimsElsewhere(nodes, created) ==
  UNION {{[iri |-> nodes[i].fields[p],
           actor |-> p # "id" \/ nodes[i].property \in {"actor", "attributedTo"}] :
             p \in {"id", "actor", "attributedTo"}} :
           i \in DOMAIN nodes \ DOMAIN created}

\* The values a document gives as an actor or as an id, but those the server
\* owns in the new resources.
IdentityClaims(nodes, created) ==
  UNION {{[iri |-> nodes[i].fields[p],
           actor |-> p # "id" \/ nodes[i].property \in {"actor", "attributedTo"}] :
             p \in {"id", "actor", "attributedTo"} \
                   IF i \in DOMAIN created THEN {"id", AuthorField(created[i])} ELSE {}} :
           i \in DOMAIN nodes}

DeniedClaims(nodes, created, allocated) ==
  {c \in IdentityClaims(nodes, created) :
     /\ OnInstanceHost(c.iri)
     /\ IF c.actor THEN c.iri \notin LocalActorIris
        ELSE c.iri \notin known \union allocated}

Owned(i, property, value) == [at |-> i, property |-> property, value |-> value]

\* prepareDocument(): a server-owned value is added where there is none, and
\* any other one conflicts (DocumentPreparation has the cases).
FieldConflicts(nodes, owned) ==
  \E f \in owned :
    \/ nodes[f.at].fields[f.property] \notin {Absent, f.value}
    \/ f.at < Len(nodes) /\ nodes[f.at + 1].property = f.property

FillFields(nodes, owned) ==
  [i \in DOMAIN nodes |->
     [nodes[i] EXCEPT !.fields =
        [p \in DOMAIN @ |->
           IF \E f \in owned : f.at = i /\ f.property = p
           THEN (CHOOSE f \in owned : f.at = i /\ f.property = p).value
           ELSE @[p]]]]

-----------------------------------------------------------------------------
(* Creating: request.resources lists the documents to save                 *)

SavableAs(kind, node) ==
  IF kind = "activity" THEN KindOfNode(node) = "activity"
  ELSE KindOfNode(node) = "object" \/ node.type = "Question"

Listed(q) == {q.resources[k].at : k \in DOMAIN q.resources}
DescriptorOf(q, i) == q.resources[CHOOSE k \in DOMAIN q.resources : q.resources[k].at = i]

CheckPublication(q) ==
  q.publish => KindOfNode(q.document[1]) = "activity" /\ DescriptorOf(q, 1).kind = "activity"

CheckDescriptors(q) ==
  /\ Cardinality(Listed(q)) = Len(q.resources)
  /\ 1 \in Listed(q)
  /\ \A k \in DOMAIN q.resources :
       LET d == q.resources[k] IN
       /\ d.at \in DOMAIN q.document
       /\ SavableAs(d.kind, q.document[d.at])
       /\ IF d.at = 1 THEN d.representation = ""
          ELSE q.document[d.at].property \in Nesting /\ d.at - 1 \in Listed(q)
  /\ CheckPublication(q)

\* The part of a document from its i-th on, once those inside it that are to be
\* referred to were replaced, deepest first.
Inwards(nodes, i, referred, ids) ==
  LET below == {j \in referred : j > i}
      next == CHOOSE j \in below : \A k \in below : j <= k
  IN IF below = {} THEN [nodes |-> SubSeq(nodes, i, Len(nodes)), last |-> NoReference]
     ELSE [nodes |-> SubSeq(nodes, i, next - 1),
           last |-> [property |-> nodes[next].property, iri |-> ids[next]]]

\* A nested resource states the contexts it inherited.
EffectiveContext(nodes, i) ==
  (IF nodes[1].context = {} THEN {"as"} ELSE {})
    \union UNION {nodes[j].context : j \in 1 .. i}

ExtractNested(nodes, i, referred, ids) ==
  LET inwards == Inwards(nodes, i, referred, ids)
  IN [inwards EXCEPT !.nodes[1].context = EffectiveContext(nodes, i),
                     !.nodes[1].property = ""]

PrepareCreate(q, allocation) ==
  LET nodes == q.document
      created == [i \in Listed(q) |-> DescriptorOf(q, i).kind]
      ids == allocation.ids
      owned == UNION {{Owned(i, "id", ids[i]), Owned(i, AuthorField(created[i]), Actor),
                       Owned(i, "published", allocation.timestamp)} : i \in Listed(q)}
      filled == FillFields(nodes, owned)
      referred == {i \in Listed(q) : DescriptorOf(q, i).representation = "reference"}
      documents ==
        [i \in Listed(q) |-> IF i = 1 THEN Inwards(filled, 1, referred, ids)
                             ELSE ExtractNested(filled, i, referred, ids)]
  IN IF \/ ~Readable(nodes)
        \/ ~CheckDescriptors(q)
        \/ DOMAIN ids # Listed(q)
        \/ DeniedClaims(nodes, created, {ids[i] : i \in DOMAIN ids}) # {}
        \/ FieldConflicts(nodes, owned)
        \/ \E i \in Listed(q) : nodes[i].respelled \/ ~nodes[i].valid
     THEN PrepareFails
     ELSE LET deepest == Len(q.resources)
              At(k) == CHOOSE i \in Listed(q) :
                         Cardinality({j \in Listed(q) : j > i}) = k - 1
          IN Prepared([k \in 1 .. deepest |->
                         Resource(ids[At(k)], created[At(k)], FALSE, documents[At(k)])],
                      <<>>)

-----------------------------------------------------------------------------
(* Editing and deleting the object                                         *)

HeadRevision == object.history[Len(object.history)]
TypedContexts == {{"as"}, {"as", "sensitive"}}

\* The columns that hold a document of one Note or Article without loss, if
\* they do.
ProjectTypedObject(document, legacyContext) ==
  LET node == document.nodes[1] IN
  IF /\ Len(document.nodes) = 1 /\ node.type \in {"Note", "Article"}
     /\ legacyContext \/ node.context \in TypedContexts
     /\ node.content # "poll"
     /\ \A p \in {"attributedTo", "published", "updated"} : node.fields[p] # Absent
  THEN <<[type |-> node.type, content |-> node.content, by |-> node.fields.attributedTo,
          published |-> node.fields.published, updated |-> node.fields.updated]>>
  ELSE <<>>

AgreesWithRow(columns) == columns # <<>> /\ columns = object.columns /\ columns[1].by = Actor

\* A typed row must hold what the history says; an object without one must be
\* attributed to the actor alone.
IsOwnObject ==
  IF object.columns # <<>> THEN AgreesWithRow(ProjectTypedObject(HeadRevision.document, TRUE))
  ELSE /\ Readable(HeadRevision.document.nodes)
       /\ HeadRevision.document.nodes[1].fields.attributedTo = Actor

LoadTarget(q) ==
  /\ q.expected = Len(object.history)
  /\ HeadRevision.kind = "snapshot" /\ HeadRevision.local
  /\ IsOwnObject

\* What the loaded document got from the server may be submitted again.
RecognizeServerValues(nodes) ==
  LET current == HeadRevision.document.nodes[1]
      again == nodes[1].fields.updated = current.fields.updated
      legacy == /\ object.columns # <<>>
                /\ nodes[1].context = current.context
                /\ nodes[1].context \notin TypedContexts
  IN [nodes EXCEPT ![1].fields.updated = IF again THEN Absent ELSE @,
                   ![1].context = IF legacy THEN {"as", "sensitive"} ELSE @]

EffectivePublished ==
  IF HeadRevision.document.nodes[1].fields.published # Absent \/ object.columns = <<>>
  THEN HeadRevision.document.nodes[1].fields.published ELSE object.columns[1].published

\* The activity the server composes around a version or a reference.
Generated(type, allocation, context, to, embedded, reference) ==
  [nodes |->
     <<[type |-> type, property |-> "", context |-> context, to |-> to,
        content |-> "", respelled |-> FALSE, valid |-> TRUE,
        fields |-> [id |-> allocation.ids[1], actor |-> Actor, attributedTo |-> Absent,
                    published |-> allocation.timestamp, updated |-> Absent]]>> \o embedded,
   last |-> reference]

PrepareEdit(q, allocation) ==
  LET nodes == RecognizeServerValues(q.document)
      owned == {Owned(1, "id", Object), Owned(1, "attributedTo", Actor),
                Owned(1, "updated", allocation.timestamp)}
               \union (IF EffectivePublished = Absent THEN {}
                       ELSE {Owned(1, "published", EffectivePublished)})
      version == [nodes |-> FillFields(nodes, owned), last |-> NoReference]
      columns == IF object.columns = <<>> THEN <<>> ELSE ProjectTypedObject(version, FALSE)
      embedded == [version.nodes EXCEPT ![1].context = {}, ![1].property = "object"]
      update == Generated("Update", allocation, nodes[1].context, nodes[1].to,
                          embedded, NoReference)
  IN IF \/ ~LoadTarget(q)
        \/ ~Readable(nodes)
        \/ nodes[1].type # HeadRevision.document.nodes[1].type
        \/ EffectivePublished = Absent /\ nodes[1].fields.published # Absent
        \/ DeniedClaims(nodes, <<"object">>, {allocation.ids[1]}) # {}
        \/ FieldConflicts(nodes, owned)
        \/ nodes[1].respelled
        \/ object.columns # <<>> /\ columns = <<>>
     THEN PrepareFails
     ELSE Prepared(<<Resource(Object, "object", FALSE, version),
                     Resource(allocation.ids[1], "activity", TRUE, update)>>, columns)

\* A document the validator cannot read is described by its addressing rows.
PrepareDelete(q, allocation) ==
  LET current == HeadRevision.document.nodes
      readable == Readable(current)
      to == IF readable THEN current[1].to ELSE object.addressing
      context == IF readable THEN current[1].context ELSE {"as"}
      delete == Generated("Delete", allocation, context, to, <<>>,
                          [property |-> "object", iri |-> Object])
  IN IF ~LoadTarget(q) THEN PrepareFails
     ELSE Prepared(<<Resource(allocation.ids[1], "activity", TRUE, delete)>>, <<>>)

PrepareWrite(q, allocation) ==
  CASE q.operation = "create" -> PrepareCreate(q, allocation)
    [] q.operation = "edit" -> PrepareEdit(q, allocation)
    [] q.operation = "delete" -> PrepareDelete(q, allocation)

-----------------------------------------------------------------------------
(* Previews, tokens and commits                                            *)

\* The request as a token binds it.
Bindable(q) ==
  [q EXCEPT !.resources =
     [k \in DOMAIN q.resources |->
        [q.resources[k] EXCEPT !.representation = IF @ = "" THEN "embedded" ELSE @]]]

Allocate(q, n) ==
  [ids |-> [i \in IF q.operation = "create" THEN Listed(q) ELSE {1} |-> <<"new", n, i>>],
   timestamp |-> <<"time", n>>]

PreviewLocalWrite(a, q) ==
  LET n == Len(issued) + 1
      allocation == Allocate(q, n)
      prepared == PrepareWrite(q, allocation)
  IN /\ n <= MaxTokens[q.operation]
     /\ \A k \in DOMAIN issued : n <= MaxTokens[issued[k].request.operation]
     /\ ~prepared.fails
     /\ issued' = Append(issued,
          [account |-> a, request |-> Bindable(q), allocation |-> allocation,
           expired |-> FALSE, shown |-> prepared.resources])
     /\ UNCHANGED <<object, living, known, saved>>

Expire(n) ==
  /\ issued' = [issued EXCEPT ![n].expired = TRUE]
  /\ UNCHANGED <<object, living, known, saved>>

\* Mutant: a token holds for any request of the account.
ReadTokenOfAny(a, q, n) == ~issued[n].expired /\ issued[n].account = a

ReadToken(a, q, n) ==
  /\ ~issued[n].expired
  /\ issued[n].account = a
  /\ issued[n].request = Bindable(q)

\* The new version or the whiteout, and the row and addressing that follow it.
WriteVersion(q, prepared) ==
  CASE q.operation = "create" -> object
    [] q.operation = "edit" ->
         LET version == prepared.resources[1].document IN
         [history |-> Append(object.history,
                        [kind |-> "snapshot", local |-> TRUE, document |-> version]),
          columns |-> prepared.columns,
          addressing |-> Addressees(version.nodes[1].to)]
    [] q.operation = "delete" ->
         [object EXCEPT !.history = Append(@, [HeadRevision EXCEPT !.kind = "whiteout"])]

CommitLocalWrite(a, q, n) ==
  LET prepared == PrepareWrite(q, issued[n].allocation)
      resources == prepared.resources
      created == {resources[k].iri : k \in DOMAIN resources} \ {Object}
  IN /\ ReadToken(a, q, n)
     /\ ~prepared.fails
     /\ created \intersect known = {}
     /\ object' = WriteVersion(q, prepared)
     /\ known' = known \union created
     /\ saved' = Append(saved,
          [token |-> n, account |-> a, resources |-> resources, living |-> living,
           before |-> object])
     /\ UNCHANGED <<living, issued>>

-----------------------------------------------------------------------------
(* What others do meanwhile                                                *)

DeleteColleague ==
  /\ living # {}
  /\ living' = {}
  /\ UNCHANGED <<object, known, issued, saved>>

\* What a mentioned IRI names is stored, as by an inbox.
PromoteMentioned ==
  /\ Mentioned \notin known
  /\ known' = known \union {Mentioned}
  /\ UNCHANGED <<object, living, issued, saved>>

\* The typed row is rewritten without the history.
RewriteColumns ==
  /\ object.columns # <<>> /\ object.columns[1].content # "foreign"
  /\ object' = [object EXCEPT !.columns[1].content = "foreign"]
  /\ UNCHANGED <<living, known, issued, saved>>

PreparationInit ==
  /\ object \in Targets
  /\ living = {Colleague}
  /\ known = {Actor, Colleague, Neighbour, Object}
  /\ issued = <<>>
  /\ saved = <<>>

PreparationNext ==
  \/ \E a \in WriterAccounts, q \in WriteRequests :
       \/ PreviewLocalWrite(a, q)
       \/ \E n \in DOMAIN issued : CommitLocalWrite(a, q, n)
  \/ \E n \in DOMAIN issued : Expire(n)
  \/ DeleteColleague \/ PromoteMentioned \/ RewriteColumns

PreparationSpec == PreparationInit /\ [][PreparationNext]_preparationVars

-----------------------------------------------------------------------------
(* Properties                                                              *)

PreparationTypeOK ==
  /\ object.history # <<>>
  /\ living \subseteq {Colleague}
  /\ DOMAIN issued \subseteq 1 .. 2
  /\ \A k \in DOMAIN saved : saved[k].token \in DOMAIN issued

\* Whatever is stored, deleted or rewritten between preview and commit, a token
\* saves at most once, and then exactly what its preview showed, to the account
\* that asked: "a token that commits exactly them" (previewLocalWrite()).
PreviewIsSaved ==
  \A k \in DOMAIN saved :
    /\ saved[k].resources = issued[saved[k].token].shown
    /\ saved[k].account = issued[saved[k].token].account
    /\ \A j \in 1 .. k - 1 : saved[j].token # saved[k].token

\* What a document says of a resource that was saved with it: the saved
\* document without its context, or its IRI.
Carries(document, i, child) ==
  \/ /\ Len(document.nodes) > i
     /\ document.nodes[i + 1].fields = child.document.nodes[1].fields
     /\ SubSeq(document.nodes, i + 2, Len(document.nodes)) = Tail(child.document.nodes)
     /\ document.last = child.document.last
  \/ /\ Len(document.nodes) = i
     /\ document.last.iri = child.iri

\* No saved document makes a claim on the instance that is not its own: every
\* new resource has its own IRI and the actor as its author, actors it names are
\* local and were not deleted, ids it embeds were registered, and a parent
\* carries the child that was saved with it.
CreatedIsOwned(s) ==
  \A k \in DOMAIN s.resources :
    LET r == s.resources[k]
        root == r.document.nodes[1]
    IN /\ root.fields.id = r.iri
       /\ root.fields[AuthorField(r.kind)] = Actor
       /\ \A i \in DOMAIN r.document.nodes :
            LET node == r.document.nodes[i] IN
            /\ \A p \in {"actor", "attributedTo"} :
                 OnInstanceHost(node.fields[p]) =>
                   node.fields[p] \in {Actor} \union s.living
            /\ OnInstanceHost(node.fields.id) => node.fields.id \in known
       /\ k > 1 => Carries(r.document, 1, s.resources[k - 1])

\* An edit or deletion leaves the object's identity, type, author and time of
\* publication alone, and its activity carries or names the object and is
\* addressed as the version it is about.
ChangeIsFaithful(s) ==
  LET old == s.before.history[Len(s.before.history)].document.nodes[1]
      activity == s.resources[Len(s.resources)]
      root == activity.document.nodes[1]
  IN /\ root.fields.id = activity.iri /\ root.fields.actor = Actor
     /\ IF issued[s.token].request.operation = "delete"
        THEN /\ activity.document.last.iri = Object
             /\ Addressees(root.to) = s.before.addressing
        ELSE LET version == s.resources[1].document.nodes[1] IN
             /\ version.type = old.type
             /\ version.fields.id = Object /\ version.fields.attributedTo = Actor
             /\ version.fields.published = old.fields.published
             /\ Carries(activity.document, 1, s.resources[1])
             /\ Addressees(root.to) = Addressees(version.to)

SavedIsOwned ==
  \A k \in DOMAIN saved :
    IF issued[saved[k].token].request.operation = "create" THEN CreatedIsOwned(saved[k])
    ELSE ChangeIsFaithful(saved[k])
=============================================================================
