------------------------ MODULE DocumentPreparation -------------------------
(***************************************************************************)
(* Checking a document somebody wants to publish (models/src/document.ts):  *)
(* validateDocument() reports what is wrong with it and proposes to omit    *)
(* empty lists and absent identifiers; prepareDocument() also holds it to   *)
(* the values the server owns, and proposes those it lacks.                 *)
(*                                                                         *)
(* A document is its root and, where a value of the root is embedded, the   *)
(* child; each has a type and, under every source key, a value: a list or   *)
(* not, with entries "null", "mine" (what the server owns), "theirs",       *)
(* "malformed" and "embedded".  A path is a node, a key and the place in    *)
(* the list, 0 for the whole value.  What a key means in the document's     *)
(* context is PropertyOf, which DocumentContexts stands behind.             *)
(***************************************************************************)
EXTENDS Integers, Sequences, FiniteSets

CONSTANTS
  Sources,       \* source keys
  PropertyOf,    \* the name of each ("" for an extension) and its coercion
  Documents,     \* the documents submitted
  Ownership,     \* sets of fields the server owns: a node and a source key
  MaxDiagnostics \* how many findings are reported

VARIABLES
  document, \* the document submitted
  owned,    \* the fields the server owns
  denied,   \* whether an authority outcome denies
  operation, \* which operation is asked for
  result    \* its answer

documentVars == <<document, owned, denied, operation, result>>

-----------------------------------------------------------------------------
(* Documents                                                               *)

Activities == {"Create", "Arrive"}
Actors == {"Person"}
SupportedTypes == {"Note", "Link"} \union Activities \union Actors

Missing == [list |-> FALSE, entries |-> <<>>]
Null == [list |-> FALSE, entries |-> <<"null">>]
Mine == [list |-> FALSE, entries |-> <<"mine">>]
IsEmptyList(v) == v.list /\ v.entries = <<>>

Path(n, s, i) == [node |-> n, source |-> s, index |-> i]
Valued(v) == {i \in DOMAIN v.entries : v.entries[i] # "null"}
Supplies(d, n, s) ==
  {Path(n, s, IF d[n].fields[s].list THEN i ELSE 0) : i \in Valued(d[n].fields[s])}
Given(d, n) == {s \in Sources : d[n].fields[s] # Missing}
NameOf(s) == PropertyOf[s].name

\* The kind of check a property gets in a type.
KindOf(type, name) ==
  CASE name = "id" -> "id"
    [] name \in {"published", "attributedTo"} /\ type = "Link" -> "inapplicable"
    [] name = "published" /\ type # "Link" -> "datetime"
    [] name = "attributedTo" /\ type # "Link" -> "reference"
    [] name = "object" /\ type = "Arrive" -> "intransitive"
    [] name \in {"actor", "object"} /\ type = "Create" -> "reference"
    [] name = "actor" /\ type = "Arrive" -> "reference"
    [] OTHER -> "unsupported"

IsFunctional(name) == name \in {"id", "published"}

\* Documents as JSON gives them: a value that is no list is one entry, or is not
\* there.  Of the fields the server owns checkServerOwnedField() accepts none twice
\* in a node, under whatever keys.
Entries == {"null", "mine", "theirs", "malformed", "embedded"}
Values == {v \in [list : BOOLEAN, entries : Seq(Entries)] : v.list \/ Len(v.entries) < 2}
DocumentNodes == [type : STRING, fields : [Sources -> Values]]

ASSUME DocumentAssumption ==
  /\ IsFiniteSet(Sources)
  /\ PropertyOf \in [Sources -> [name : STRING, compatible : BOOLEAN]]
  /\ Documents \subseteq [root : DocumentNodes, child : DocumentNodes]
  /\ \A fields \in Ownership :
       /\ fields \subseteq [node : {"root", "child"}, source : Sources]
       /\ \A f, g \in fields :
            f.node = g.node /\ NameOf(f.source) = NameOf(g.source) => f = g
  /\ MaxDiagnostics \in Nat

-----------------------------------------------------------------------------
(* checkDocumentValue()                                                    *)

\* The node of a value's embedded document is visited when its own node is,
\* and the value is one of a reference.
Embeds(d, s) ==
  /\ "embedded" \in {d.root.fields[s].entries[i] : i \in DOMAIN d.root.fields[s].entries}
  /\ PropertyOf[s].compatible
  /\ KindOf(d.root.type, NameOf(s)) = "reference"
Visited(d) ==
  {n \in {"root", "child"} :
     /\ d.root.type \in SupportedTypes
     /\ n = "child" => /\ d.child.type \in SupportedTypes
                       /\ \E s \in Given(d, "root") : Embeds(d, s)}

\* findMultipleAliases()
MultipleAliases(d, n) ==
  {s \in Given(d, n) :
     /\ IsFunctional(NameOf(s))
     /\ Cardinality(Valued(d[n].fields[s])) = 1
     /\ \E t \in Given(d, n) \ {s} :
          NameOf(t) = NameOf(s) /\ Valued(d[n].fields[t]) # {}}

\* proposePropertyOmission()
IsOmitted(d, n, s) ==
  LET v == d[n].fields[s]
      k == KindOf(d[n].type, NameOf(s))
  IN /\ s \in Given(d, n)
     /\ NameOf(s) # "" /\ PropertyOf[s].compatible
     /\ k \notin {"inapplicable", "unsupported"}
     /\ IsEmptyList(v) \/ (k = "id" /\ Valued(v) = {})

Report(reason, path) == [reason |-> reason, path |-> path]

\* What is found at one entry of a value that is checked.
EntryReason(d, n, s, i) ==
  LET e == d[n].fields[s].entries[i]
      k == KindOf(d[n].type, NameOf(s))
  IN IF e = "null" THEN ""
     ELSE CASE k = "intransitive" -> "property_not_applicable"
            [] k = "id" /\ (d[n].fields[s].list \/ e = "embedded") -> "invalid_value_shape"
            [] k = "datetime" /\ e = "embedded" -> "invalid_value_shape"
            [] k = "datetime" /\ e = "malformed" -> "invalid_datetime"
            [] k = "id" /\ e = "malformed" /\ ~d[n].fields[s].list -> "invalid_iri"
            [] k = "reference" /\ e = "malformed" -> "invalid_iri"
            [] k = "reference" /\ e = "embedded" ->
                 CASE d.child.type \notin SupportedTypes -> "unsupported_type"
                   [] /\ d.child.type \in SupportedTypes \ Actors
                      /\ NameOf(s) \in {"actor", "attributedTo"} -> "unsupported_value_form"
                   [] OTHER -> ""
            [] OTHER -> ""

HasMany(d, n, s) ==
  \/ s \in MultipleAliases(d, n)
  \/ IsFunctional(NameOf(s)) /\ Cardinality(Valued(d[n].fields[s])) > 1

\* What is found of one source field.
FieldReports(d, n, s) ==
  LET v  == d[n].fields[s]
      k  == KindOf(d[n].type, NameOf(s))
      At(i) == Path(n, s, IF v.list THEN i ELSE 0)
      One(reason) == {Report(reason, Path(n, s, 0))}
  IN CASE NameOf(s) = "" -> One("extension_property_unchecked")
       [] NameOf(s) # "" /\ ~PropertyOf[s].compatible -> One("unsupported_value_form")
       [] IsOmitted(d, n, s) ->
            One(IF IsEmptyList(v) THEN "empty_property_list" ELSE "absent_identifier")
       [] OTHER ->
            CASE v = Null -> {}
              [] v # Null /\ k = "inapplicable" -> One("property_not_applicable")
              [] v # Null /\ k = "unsupported" -> One("unsupported_property")
              [] OTHER ->
                   (IF HasMany(d, n, s) THEN One("invalid_multiplicity") ELSE {})
                   \union {Report(EntryReason(d, n, s, i), At(i)) :
                             i \in {j \in DOMAIN v.entries : EntryReason(d, n, s, j) # ""}}

\* All that is found, and the omissions proposed.
Fields(d) == {f \in Visited(d) \X Sources : f[2] \in Given(d, f[1])}
Reports(d) ==
  (UNION {FieldReports(d, f[1], f[2]) : f \in Fields(d)})
  \union {Report("unsupported_type", Path("root", "type", 0)) :
            t \in {d.root.type} \ SupportedTypes}
Omissions(d) ==
  [p \in {Path(f[1], f[2], 0) : f \in {g \in Fields(d) : IsOmitted(d, g[1], g[2])}}
     |-> Missing]

Warnings == {"extension_property_unchecked", "empty_property_list", "absent_identifier"}

\* createReporter(): complete and without an error; a finding too many is one.
Accepts(reports) ==
  /\ Cardinality(reports) <= MaxDiagnostics
  /\ \A r \in reports : r.reason \in Warnings

\* createPreview()
CreatePreview(d, changes) ==
  [n \in {"root", "child"} |->
     [d[n] EXCEPT !.fields =
        [s \in Sources |-> IF Path(n, s, 0) \in DOMAIN changes
                           THEN changes[Path(n, s, 0)] ELSE d[n].fields[s]]]]

-----------------------------------------------------------------------------
(* validateDocument() and prepareDocument()                                *)

Answered(status, d) == result' = [status |-> status, document |-> d]

\* A preview is checked as any document; what is found in it is reported with
\* what was found before.
AnswerChecked(reports, changes) ==
  LET preview == CreatePreview(document, changes)
  IN IF Accepts(reports) /\ Accepts(reports \union Reports(preview))
     THEN Answered("accepted", preview)
     ELSE Answered("refused", document)

ValidateDocument ==
  /\ operation = "validate"
  /\ result.status = "none"
  /\ AnswerChecked(Reports(document), Omissions(document))
  /\ UNCHANGED <<document, owned, denied, operation>>

\* checkServerOwnedFields(): the node must have been visited; where the check
\* could not reach it, nothing is asked of the field.
IsReached(f) == f.node \in Visited(document)
IsBlocked(f) ==
  \/ document.root.type \notin SupportedTypes
  \/ /\ f.node = "child"
     /\ document.child.type \notin SupportedTypes
     /\ \E s \in Given(document, "root") : Embeds(document, s)
OwnsInVain == \E f \in owned : ~IsReached(f) /\ ~IsBlocked(f)

\* proposeServerField(): what the document supplies under any key of the same
\* meaning must be the server's value, once; when it supplies nothing, the
\* value is proposed, under the key asked for or, if only another is there,
\* under that one.
Aliases(f) == {s \in Given(document, f.node) : NameOf(s) = NameOf(f.source)}
SuppliedUnderSource(f) ==
  Supplies(document, f.node, f.source)
Supplied(f) ==
  UNION {Supplies(document, f.node, s) : s \in Aliases(f)}

EntryAt(d, p) ==
  d[p.node].fields[p.source].entries[IF p.index = 0 THEN 1 ELSE p.index]
Conflicts(f) ==
  IF \E p \in Supplied(f) : Supplied(f) = {p} /\ EntryAt(document, p) = "mine" THEN {}
  ELSE {Report("server_owned_field_conflict", p) : p \in Supplied(f)}

ProposalKey(f) ==
  IF f.source \in Aliases(f) \/ Aliases(f) = {} THEN f.source
  ELSE CHOOSE s \in Aliases(f) : TRUE
Proposals ==
  LET lacking == {f \in owned : IsReached(f) /\ Supplied(f) = {}}
      keys == {Path(f.node, ProposalKey(f), 0) : f \in lacking}
      omissions == Omissions(document)
  IN [p \in keys \union DOMAIN omissions |-> IF p \in keys THEN Mine ELSE Missing]

Denials == IF denied THEN {Report("unauthorized_local_identity", Path("root", "", 0))}
           ELSE {}

PrepareDocument ==
  /\ operation = "prepare"
  /\ result.status = "none"
  /\ \/ OwnsInVain /\ Answered("thrown", document)
     \/ /\ ~OwnsInVain
        /\ ~Accepts(Reports(document) \union Denials)
        /\ Answered("refused", document)
     \/ /\ ~OwnsInVain
        /\ Accepts(Reports(document) \union Denials)
        /\ AnswerChecked(
             Reports(document) \union (UNION {Conflicts(f) : f \in owned}),
             Proposals)
  /\ UNCHANGED <<document, owned, denied, operation>>

DocumentInit ==
  /\ document \in Documents
  /\ owned \in Ownership
  /\ denied \in BOOLEAN
  /\ operation \in {"validate", "prepare"}
  /\ operation = "validate" => owned = {} /\ ~denied \* it takes no options
  /\ result = [status |-> "none", document |-> document]

DocumentNext == ValidateDocument \/ PrepareDocument

DocumentSpec == DocumentInit /\ [][DocumentNext]_documentVars

-----------------------------------------------------------------------------
(* Properties                                                              *)

\* The values describeDocument() finds a document to supply for a property:
\* every key of that meaning counts.
Described(d, n, name) ==
  UNION {Supplies(d, n, s) : s \in {t \in Given(d, n) : NameOf(t) = name}}

\* The document a preparation ends with, a preview or the one submitted, is the
\* one that is published: nothing more is found in it or changed, every field
\* the server owns has the server's value, and no other under any key of the
\* same meaning, what the author wrote is kept, and a denied operation has none.
PreviewIsFinal ==
  result.status = "accepted" =>
    LET final == result.document
    IN /\ Accepts(Reports(final)) /\ Omissions(final) = <<>>
       /\ \A n \in Visited(document) : \A s \in Sources :
            Valued(document[n].fields[s]) # {} =>
              final[n].fields[s] = document[n].fields[s]
       /\ operation = "prepare" =>
            /\ ~denied
            /\ \A f \in owned : \E p \in Described(final, f.node, NameOf(f.source)) :
                 /\ Described(final, f.node, NameOf(f.source)) = {p}
                 /\ EntryAt(final, p) = "mine"
=============================================================================
