---------------------------- MODULE MCComponents -----------------------------
(***************************************************************************)
(* The components that share no state with each other or with the delivery, *)
(* resource and server modules, checked together: each behaviour is one of  *)
(* one component, named by part, while the others rest in an initial state. *)
(***************************************************************************)
EXTENDS LockOrder, ActorKeys, LoginSessions, DatabasePreparation, PgliteStores,
        MailTransport, DocumentContexts, DocumentPreparation, LocalWritePreparation,
        ReadableResources, AccountLimits, DeliveryVerification, TLC

VARIABLE part

CONSTANTS host1, host2, alice, bob

-----------------------------------------------------------------------------
(* Three transactions over three IRIs that overlap in pairs: receptions from *)
(* two hosts, and commits of two actors, one of them published.             *)

Reception(host, iris) ==
  [form |-> "inbox", of |-> host, outboxed |-> FALSE, named |-> iris,
   promoted |-> iris]
CommitAs(name, outboxed, iris) ==
  [form |-> "commit", of |-> name, outboxed |-> outboxed, named |-> iris,
   promoted |-> {1, 3}]
WritesInOrder ==
  <<Reception(host1, {1, 2}), Reception(host2, {2, 3}),
    CommitAs(alice, TRUE, {1, 2, 3}), CommitAs(bob, FALSE, {1, 3})>>
MCWrites == Range(WritesInOrder)

\* Transactions are interchangeable, so that which of them writes what need not
\* be told apart; one of the hosts is new.
LockRepresentatives ==
  /\ \E f \in [Writers -> DOMAIN WritesInOrder] :
       /\ \A v, w \in Writers : v < w => f[v] <= f[w]
       /\ plan = [w \in Writers |-> WritesInOrder[f[w]]]
  /\ host1 \notin instances

RestingWrites == [w \in Writers |-> Reception(host1, {1, 2})]

\* Two callers of one process, one of another.
MCHome == [k1 |-> "p1", k2 |-> "p1", k3 |-> "p2"]

\* A release, its successor, and a fork of it.
MCManifest == [old |-> <<1>>, new |-> <<1, 2>>, fork |-> <<1, 3>>]
MCPolicy == [old |-> "inspect", new |-> "apply", fork |-> "apply"]

-----------------------------------------------------------------------------
(* Mail settings: what the three sources may give                           *)

Gives(rank, value) == {[rank |-> rank, value |-> value]}
NothingGiven == [f \in MailFields |-> {}]
Often(ranks, value) == {{}} \union {Gives(r, value) : r \in ranks}
SmtpGivens ==
  {[NothingGiven EXCEPT !["smtpUrl"] = url, !["smtpHost"] = host,
      !["password"] = password, !["passwordFile"] = file, !["token"] = token,
      !["user"] = user, !["tls"] = tls, !["authMethod"] = method] :
     url \in {{}, Gives(1, "login"), Gives(2, "login"), Gives(3, "secure")},
     host \in Often({1}, "host"),
     password \in Often({3}, "x"), file \in Often({2}, "x"),
     token \in Often({1, 3}, "x"), user \in Often({1}, "user"),
     tls \in {{}, Gives(1, "opportunistic"), Gives(3, "direct")},
     method \in Often({2}, "plain")}
OtherGivens ==
  {[NothingGiven EXCEPT !["mailTransport"] = transport, !["smtpUrl"] = url,
      !["jmapSessionUrl"] = session, !["password"] = password,
      !["passwordFile"] = file, !["token"] = token, !["tokenFile"] = tokenFile,
      !["user"] = Gives(1, "user"), !["authMethod"] = method] :
     transport \in
       {{}, Gives(2, "api"), Gives(2, "ses"), Gives(2, "jmap"), Gives(2, "logtape"),
        Gives(1, "smtp") \union Gives(3, "other")},
     url \in Often({1}, "login"), session \in Often({1}, "url"),
     password \in Often({1, 3}, "x"), file \in Often({1}, "x"),
     token \in Often({1, 3}, "x"), tokenFile \in Often({3}, "x"),
     method \in Often({2}, "session")}
MCGivens == SmtpGivens \union OtherGivens

-----------------------------------------------------------------------------
(* Contexts of three terms that use each other                              *)

Definition(form, id, type, container, prefix) ==
  [form |-> form, id |-> id, type |-> type, container |-> container,
   prefix |-> prefix]
Plain(id) == Definition("string", id, <<>>, "", "")
MCStandardTerms ==
  [id |-> [iri |-> <<"@id">>, type |-> <<>>, container |-> "", prefix |-> FALSE],
   a |-> [iri |-> <<"as", "a">>, type |-> <<"@id">>, container |-> "",
          prefix |-> FALSE]]
MCContexts ==
  {[a |-> a, b |-> b, c |-> c] :
     a \in {Plain(<<"b">>), Definition("object", <<"as", "a">>, <<"@id">>, "", ""),
            Definition("object", <<"b", "a">>, <<"@id">>, "", "")},
     b \in {Plain(<<"http", "//ns#">>), Plain(<<"@id">>), Plain(<<"c", "as">>),
            Definition("object", <<"http", "//ns#">>, <<>>, "", ""),
            Definition("object", <<"as", "b">>, <<>>, "", "true")},
     c \in {Plain(<<"b">>), Plain(<<"b", "c">>), Plain(<<"/relative">>),
            Definition("object", <<"http", "c">>, <<"a", "x">>, "@list", ""),
            Definition("object", <<"id">>, <<>>, "", "true"),
            Definition("object", <<"b", "<>">>, <<"@id">>, "@language", "")}}

-----------------------------------------------------------------------------
(* Documents: notes and links with aliased fields, activities that embed    *)

MCSources == {"id", "@id", "attributedTo", "as:attributedTo", "published",
              "actor", "object", "ex:note", "odd"}
MCPropertyOf ==
  [s \in MCSources |->
     CASE s = "@id" -> [name |-> "id", compatible |-> TRUE]
       [] s = "as:attributedTo" -> [name |-> "attributedTo", compatible |-> TRUE]
       [] s = "ex:note" -> [name |-> "", compatible |-> FALSE]
       [] s = "odd" -> [name |-> "published", compatible |-> FALSE]
       [] OTHER -> [name |-> s, compatible |-> TRUE]]
Scalar(entry) == [list |-> FALSE, entries |-> <<entry>>]
List(entries) == [list |-> TRUE, entries |-> entries]
NodeOf(type, fields) ==
  [type |-> type,
   fields |-> [s \in MCSources |-> IF s \in DOMAIN fields THEN fields[s] ELSE Missing]]
Notes ==
  {[child |-> NodeOf("Note", <<>>),
    root |-> NodeOf(type, [id |-> id, attributedTo |-> author, published |-> date]
                          @@ ("@id" :> alias) @@ ("as:attributedTo" :> second)
                          @@ ("ex:note" :> Scalar("theirs")))] :
     type \in {"Note", "Link"}, id \in {Null, Mine}, alias \in {Missing, Null, Mine},
     author \in {Missing, Null, Mine, Scalar("theirs"), List(<<>>), List(<<"null", "mine">>)},
     second \in {Missing, Mine}, date \in {List(<<"mine", "mine">>), List(<<>>)}}
Embedding ==
  {[root |-> NodeOf(type, [actor |-> by, object |-> about]),
    child |-> NodeOf(inner, [id |-> id, attributedTo |-> author] @@ ("odd" :> odd))] :
     type \in {"Create", "Arrive", "Odd"},
     by \in {Missing, Mine, Scalar("malformed")},
     about \in {Scalar("embedded"), List(<<"null", "embedded">>), Null},
     inner \in {"Note", "Person", "Odd"}, id \in {Missing, Null, Mine},
     author \in {Missing, Mine}, odd \in {Missing}}
EmbeddingActors ==
  {[root |-> NodeOf("Create", [actor |-> Scalar("embedded"), object |-> Scalar("theirs")]),
    child |-> NodeOf(inner, [id |-> Mine])] : inner \in {"Note", "Person"}}
MCDocuments == Notes \union Embedding \union EmbeddingActors
FieldOf(node, source) == [node |-> node, source |-> source]
MCOwnership ==
  {{}, {FieldOf("root", "id"), FieldOf("root", "attributedTo")},
   {FieldOf("root", "actor"), FieldOf("child", "id"), FieldOf("child", "attributedTo")}}

-----------------------------------------------------------------------------
(* Local writes: notes, activities that embed them, and edits of the object *)

LocalNode(type, property, id, by, to, ctx, content) ==
  [type |-> type, property |-> property, to |-> to, context |-> ctx,
   content |-> content, respelled |-> FALSE, valid |-> TRUE,
   fields |-> [id |-> id, actor |-> IF type \in {"Create", "Offer"} THEN by ELSE Absent,
               attributedTo |-> IF type \in {"Create", "Offer"} THEN Absent ELSE by,
               published |-> Absent, updated |-> Absent]]
Descriptor(i, kindOf, representation) ==
  [at |-> i, kind |-> kindOf, representation |-> representation]
CreateOf(nodes, descriptors, publish) ==
  [operation |-> "create", document |-> nodes, resources |-> descriptors,
   publish |-> publish, expected |-> 0]
Root(kindOf) == Descriptor(1, kindOf, "")
\* The ID and the author a document claims, if any.
Identities == {<<Absent, Absent>>, <<Mentioned, Absent>>, <<Absent, Colleague>>}
Creates ==
  {CreateOf(<<[LocalNode(type, "", who[1], who[2], <<Mentioned, Absent>>, {}, "text")
               EXCEPT !.respelled = (who[1] = Mentioned)]>>, <<Root(kindOf)>>,
            type = "Question") :
     type \in {"Note", "Question", "Person"}, who \in Identities, kindOf \in {"object", "activity"}}
  \union
  {CreateOf(<<[LocalNode("Create", "", Absent, Absent, <<Remote>>, {}, "")
               EXCEPT !.fields.attributedTo = claimed],
             LocalNode(type, "object", who[1], who[2], <<>>, {"ext"}, "text")>>,
            <<Root("activity")>> \o inner, TRUE) :
     claimed \in {Absent, Colleague},
     type \in {"Note", "Person"}, who \in Identities,
     inner \in {<<>>} \union {<<Descriptor(2, "object", r)>> :
                              r \in {"", "embedded", "reference"}}}
  \union
  {CreateOf(<<LocalNode("Create", "", Absent, Absent, <<>>, {"as"}, ""),
             LocalNode("Offer", "object", Absent, Absent, <<Colleague>>, {}, ""),
             LocalNode(type, property, id, Absent, <<>>, {"ext"}, "text")>>,
            <<Descriptor(3, "object", third), Root("activity"),
              Descriptor(2, "activity", second)>>, TRUE) :
     type \in {"Note", "Person"}, property \in {"object", "actor"},
     id \in {Absent, Colleague}, second \in {"", "reference"},
     third \in {"embedded", "reference"}}
  \union
  {CreateOf(<<LocalNode("Create", "", Absent, Absent, <<>>, {}, ""),
             LocalNode("Note", "object", Absent, Absent, <<>>, {}, "text"),
             LocalNode("Person", "attributedTo", id, Absent, <<>>, {}, "")>>,
            <<Root("activity")>>, FALSE) : id \in {Actor, Colleague, Neighbour, Remote}}

Posted == <<"time", 0>>
ObjectNode(ctx, id, by, published, updated, to, content) ==
  [LocalNode("Note", "", id, by, to, ctx, content)
   EXCEPT !.fields.published = published, !.fields.updated = updated]
Changes ==
  {[operation |-> "edit", document |-> <<ObjectNode(ctx, id, Actor, time,
      time, IF content = "poll" THEN <<Colleague>> ELSE <<Absent, Remote>>,
      content)>>, resources |-> <<>>, publish |-> FALSE, expected |-> 1] :
     ctx \in {{"fedify"}, {"as"}}, id \in {Object, Remote},
     time \in {Absent, Posted},
     content \in {"text2", "poll"}}
  \union
  {[operation |-> "delete", document |-> <<>>, resources |-> <<>>,
    publish |-> FALSE, expected |-> expected] : expected \in 1 .. 2}
TargetOf(node, typedRow) ==
  LET whole == [nodes |-> <<node>>, last |-> NoReference] IN
  [history |-> <<[kind |-> "snapshot", local |-> TRUE, document |-> whole]>>,
   columns |-> IF typedRow THEN ProjectTypedObject(whole, TRUE) ELSE <<>>,
   addressing |-> Addressees(node.to)]
MCTargets ==
  {TargetOf(ObjectNode(ctx, Object, Actor, Posted, Posted, <<Colleague>>, "text"), TRUE) :
     ctx \in {{"as"}, {"fedify"}}}
  \union
  {TargetOf(ObjectNode({"as"}, Object, Actor, published, Absent, <<Absent, Remote>>,
                       "poll"), FALSE) : published \in {Absent, Posted}}
  \union
  {TargetOf(ObjectNode({"as"}, Object, Colleague, Posted, Absent, <<>>, "poll"), FALSE)}
MCWriteRequests == Creates \union Changes
MCMaxTokens == [create |-> 1, edit |-> 2, delete |-> 2]

-----------------------------------------------------------------------------
(* Readers: a Create two remote deliveries bring differently, and an outbox *)
(* of public and private Creates with equal times and missing positions     *)

Addressed(to, cc, aside) == [to |-> to, cc |-> cc, aside |-> aside]
Aimed == Addressed({"public"}, {}, FALSE)
Unlisted == Addressed({"followers"}, {"public"}, FALSE)
Private == Addressed({"followers"}, NotStated, FALSE)
Aside == Addressed(NotStated, {}, TRUE)

Delivered(activity, addressed, objectAddressed, content, fetched, fetchedContent) ==
  [activity |-> activity, object |-> 1, addressed |-> addressed,
   objectAddressed |-> objectAddressed, content |-> content, fetched |-> fetched,
   fetchedContent |-> fetchedContent]
MCIncoming ==
  {Delivered(2, Private, Private, content, FALSE, 1) : content \in 1 .. 2}
  \union
  {Delivered(3, Private, Private, 1, TRUE, 1), Delivered(3, Aside, Private, 1, TRUE, 2),
   Delivered(3, Private, Aimed, 1, TRUE, 1)}

LocalRow(kindOf, addressed, about, published) ==
  RowOf(kindOf, "local", addressed, about, NoResource, FALSE, 1, published)
NothingStored ==
  [rows |-> <<>>, deleted |-> {}, deletedAuthors |-> {}, positions |-> <<>>,
   links |-> {}, accepted |-> {}]
\* A local object, and the IRI of one that another server may deliver.
Undelivered ==
  [rows |-> [id \in {1, 8} |->
               IF id = 8 THEN LocalRow("object", Unlisted, 0, 1)
               ELSE RowOf("unknown", "nobody", Private, 0, 0, FALSE, 0, 0)], deleted |-> {}, deletedAuthors |-> {},
   positions |-> [id \in {} |-> NullPosition], links |-> {}, accepted |-> {"i1"}]
\* Objects 1 to 3, and activities 4 to 7 in one collection.
OutboxOf(positions, times) ==
  [rows |->
     [id \in 1 .. 7 |->
        CASE id = 1 -> LocalRow("object", Aimed, 0, 1)
          [] id = 2 -> LocalRow("object", Unlisted, 0, 2)
          [] id = 3 -> RowOf("object", "remote", Private, 0, 7, FALSE, 1, 1)
          [] id = 4 -> LocalRow("activity", Aimed, 1, times[1])
          [] id = 5 -> LocalRow("activity", Unlisted, 2, times[2])
          [] id = 6 -> LocalRow("activity", Unlisted, 1, times[3])
          [] id = 7 -> RowOf("activity", "remote", Private, 3, 0, FALSE, 1, 1)],
   deleted |-> {}, deletedAuthors |-> {}, positions |-> [id \in 4 .. 7 |-> positions[id - 3]],
   links |-> {[activity |-> 7, instance |-> "i1", carried |-> {"activity"}]},
   accepted |-> {"i1"}]
MCDatabases ==
  {Undelivered, OutboxOf(<<-1, NullPosition, NullPosition, -1>>, <<2, 1, 1>>)}
MCPosts ==
  {[to |-> a.to, cc |-> a.cc, aside |-> a.aside, published |-> time] :
     a \in {Unlisted}, time \in {2}}

-----------------------------------------------------------------------------
(* Accounts: a member of an instance with room for two actors, and a host   *)
(* that is free for an instance                                             *)

Ask(what, slug, size) == [op |-> what, account |-> "a1", slug |-> slug, size |-> size]
MCAsks == {Ask("actors", "s1", size) : size \in 0 .. 2}
  \union {Ask("actors", "s2", 1), Ask("instance", "s2", 0)}
MCWorlds ==
  {[hosts |-> [s1 |-> "local", s2 |-> "free"],
    members |-> [s1 |-> {"a1"}, s2 |-> {}],
    accepted |-> [s1 |-> {"a1"}, s2 |-> {}],
    actors |-> [s1 |-> {}, s2 |-> {}]]}

-----------------------------------------------------------------------------
(* Verifications: one or two attempts on an activity, or on what it embeds, *)
(* and another delivery by the same key or one rotated under its IRI, which *)
(* may have a version from an earlier delivery                              *)

Material(name) == [iri |-> "key", material |-> name]
Check(status, reason, key, declared) ==
  [status |-> status, reason |-> reason,
   key |-> IF status = "verified" THEN key ELSE NoKey, tried |-> key, declared |-> declared]
Valid == Check("verified", "none", Material("old"), "key")
ValidUnnamed == Check("verified", "none", [iri |-> NoIri, material |-> "old"], NoIri)
Wrong == Check("rejected", "invalidSignature", Material("new"), "key")
Unfetched == Check("rejected", "keyFetchError", NoKey, "key")
Attempt(mechanism, root, status, reason, checks) ==
  [mechanism |-> mechanism, root |-> root, status |-> status, reason |-> reason,
   checks |-> checks]
AttemptsOn(mechanism, root) ==
  {Attempt(mechanism, root, "verified", "none", <<Wrong, Valid>>),
   Attempt(mechanism, root, "rejected", "noSignature", <<>>),
   Attempt(mechanism, root, "rejected", "signatureVerificationFailed", <<Valid, Unfetched>>),
   Attempt(mechanism, root, "rejected", "signatureVerificationFailed", <<Valid, Wrong>>),
   Attempt(mechanism, root, "rejected", "uncoveredAttribution", <<Valid>>),
   Attempt(mechanism, root, "rejected", "proofPolicy", <<>>),
   Attempt(mechanism, root, "error", "none", <<>>)}
ReportOf(tries, authentication, ok, refusal) ==
  [attempts |-> tries, authentication |-> authentication, header |-> "key",
   outcome |-> [accepted |-> ok, refusal |-> refusal, reason |-> "authentication",
                disposition |-> IF ok THEN "processed" ELSE "rejected"]]
Refused(tries) == ReportOf(tries, "rejected", FALSE, "none")
\* Fedify authenticates by an attempt on the activity, if there was one.
Authenticated(tries) ==
  {ReportOf(tries, "verified", ok, "none") : ok \in BOOLEAN}
HttpTried == {a \in AttemptsOn("http", TRUE) :
                a.status = "verified" \/ a.reason \in {"noSignature", "uncoveredAttribution"}}
Tried == {<<a>> : a \in AttemptsOn("http", TRUE)}
  \union {<<a, b>> : a \in AttemptsOn("objectIntegrity", FALSE), b \in HttpTried}
  \union {<<a, b>> : a \in AttemptsOn("objectIntegrity", TRUE), b \in HttpTried}
Proved(tries) ==
  LET verified == SelectSeq(tries, LAMBDA a : a.status = "verified") IN
  verified # <<>> /\ (Last(tries).reason = "noSignature" \/ Last(verified).root)
AnyReports ==
  {NoReport} \union {Refused(tries) : tries \in Tried}
  \union (UNION {Authenticated(tries) : tries \in {t \in Tried : Proved(t)}})
  \union {ReportOf(<<Attempt("http", TRUE, "verified", "none", <<check>>)>>, "rejected",
                   FALSE, "actorKeyMismatch") : check \in {Valid, ValidUnnamed}}
  \union {ReportOf(<<>>, "notDetermined", FALSE, "none")}
SignedBy(material) ==
  ReportOf(<<Attempt("http", TRUE, "verified", "none",
                     <<Check("verified", "none", Material(material), "key")>>)>>,
           "verified", TRUE, "none")
MCStoredVersions == {{}, {<<"key", "older">>}}
MCReportsOf == [d1 |-> AnyReports, d2 |-> {SignedBy("old"), SignedBy("odd")}]

-----------------------------------------------------------------------------
Parts == {"locks", "keys", "login", "preparation", "stores", "mail", "contexts", "documents", "writes", "readers", "limits",
          "verification", "transport"}

\* A component that rests is in one of its initial states, or has no input.
Init ==
  /\ part \in Parts
  /\ IF part = "locks" THEN LockInit /\ LockRepresentatives
     ELSE /\ plan = RestingWrites
          /\ phase = [w \in Writers |-> "instance"]
          /\ done = [w \in Writers |-> {}]
          /\ held = [w \in Writers |-> {}]
          /\ registered = {} /\ instances = {}
  /\ KeyInit
  /\ part # "keys" => keys = NoKeys /\ ~broken
  /\ PrepInit
  /\ part # "preparation" => kind = "pglite" /\ history = <<>> /\ ~tables
  /\ IF part = "mail" THEN MailInit
     ELSE given = <<>> /\ mail = Undecided
  /\ IF part = "contexts" THEN ContextInit
     ELSE /\ context = <<>>
          /\ order = <<>>
          /\ terms = <<>>
          /\ pending = {}
          /\ visited = 0 /\ resolved = FALSE /\ refused = {} /\ reading = TRUE
  /\ IF part = "documents" THEN DocumentInit
     ELSE /\ document = <<>>
          /\ owned = {} /\ denied = FALSE /\ operation = "validate"
          /\ result = [status |-> "none", document |-> <<>>]
  /\ PreparationInit
  /\ part # "writes" => object = CHOOSE first \in Targets : TRUE
  /\ IF part = "readers" THEN ReadingInit ELSE db = NothingStored /\ walk = NoWalk
  /\ AccountInit
  /\ VerificationInit
  /\ part # "verification" => keyIris = {}
  /\ TransportInit
  /\ LoginInit /\ StoreInit

Next ==
  /\ UNCHANGED part
  /\ IF part = "locks" THEN LockNext ELSE UNCHANGED lockVars
  /\ IF part = "keys" THEN KeyNext ELSE UNCHANGED keyVars
  /\ IF part = "login" THEN LoginNext ELSE UNCHANGED loginVars
  /\ IF part = "preparation" THEN PrepNext ELSE UNCHANGED prepVars
  /\ IF part = "stores" THEN StoreNext ELSE UNCHANGED storeVars
  /\ IF part = "mail" THEN MailNext ELSE UNCHANGED mailVars
  /\ IF part = "contexts" THEN ContextNext ELSE UNCHANGED contextVars
  /\ IF part = "documents" THEN DocumentNext ELSE UNCHANGED documentVars
  /\ IF part = "writes" THEN PreparationNext ELSE UNCHANGED preparationVars
  /\ IF part = "readers" THEN ReadingNext ELSE UNCHANGED readVars
  /\ IF part = "limits" THEN AccountNext ELSE UNCHANGED accountVars
  /\ IF part = "verification" THEN VerificationNext ELSE UNCHANGED verificationVars
  /\ IF part = "transport" THEN TransportNext ELSE UNCHANGED transportVars

vars == <<part, lockVars, keyVars, loginVars, prepVars, storeVars, mailVars, contextVars, documentVars, preparationVars, readVars,
          accountVars, verificationVars, transportVars>>

\* The fairness of the database preparation and of the sends, and of nothing else.
Spec == /\ Init /\ [][Next]_vars
        /\ \/ part = "preparation" /\ PrepFairness
           \/ part = "transport" /\ TransportFairness
           \/ part \notin {"preparation", "transport"}

-----------------------------------------------------------------------------
\* Every program that opens the database and every send is answered, and so is a
\* close (see PreparationEnds and SendsEnd).
EveryCallEnds == /\ part = "preparation" => PreparationEnds
                 /\ part = "transport" => SendsEnd
=============================================================================
