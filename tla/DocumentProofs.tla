--------------------------- MODULE DocumentProofs ----------------------------
(***************************************************************************)
(* Proofs about DocumentPreparation, for any documents and any fields the   *)
(* server owns, and about LocalWritePreparation, for any requests, stored   *)
(* objects and previews.                                                   *)
(***************************************************************************)
EXTENDS DocumentPreparation, LocalWritePreparation, FiniteSetTheorems,
        SequenceTheorems, WellFoundedInduction, TLAPS

-----------------------------------------------------------------------------
(***************************************************************************)
(* DocumentPreparation.  A preview rewrites only values that supply nothing *)
(* and leaves out or fills whatever is to be omitted (Rewrites), so what is *)
(* visited, supplied and reported of it follows from the document.          *)
(***************************************************************************)
Places == {"root", "child"}
Document == [root : DocumentNodes, child : DocumentNodes]

LEMMA NodeType ==
  ASSUME NEW d \in Document, NEW n \in Places, NEW s \in Sources
  PROVE  /\ d[n] \in DocumentNodes
         /\ d[n].type \in STRING
         /\ d[n].fields \in [Sources -> Values]
         /\ d[n].fields[s] \in Values
         /\ d.root = d["root"] /\ d.child = d["child"]
<1>1. d[n] \in DocumentNodes /\ d.root = d["root"] /\ d.child = d["child"]
  BY DEF Document, Places
<1> QED
  BY <1>1 DEF DocumentNodes

LEMMA NodeIs ==
  ASSUME NEW d \in Document, NEW n \in Places
  PROVE  d[n] \in DocumentNodes
BY DEF Document, Places

LEMMA ValueType ==
  ASSUME NEW v \in Values
  PROVE  /\ v.list \in BOOLEAN
         /\ v.entries \in Seq(Entries)
         /\ Len(v.entries) \in Nat
         /\ DOMAIN v.entries = 1 .. Len(v.entries)
         /\ ~v.list => Len(v.entries) < 2
         /\ Valued(v) \subseteq 1 .. Len(v.entries)
BY DEF Values, Valued

LEMMA MissingIs == Missing \in Values /\ Valued(Missing) = {} /\ DOMAIN Missing.entries = {}
<1>1. <<>> \in Seq(Entries) /\ Len(<<>>) = 0
  BY EmptySeq
<1>2. DOMAIN <<>> = {}
  OBVIOUS
<1> QED
  BY <1>1, <1>2 DEF Missing, Values, Valued

LEMMA MineIs ==
  /\ Mine \in Values /\ ~IsEmptyList(Mine) /\ Valued(Mine) = {1}
  /\ DOMAIN Mine.entries = {1} /\ Mine.entries[1] = "mine" /\ ~Mine.list
  /\ Mine # Missing /\ Mine # Null
<1>0. <<"mine">> \in Seq(Entries) /\ Len(<<"mine">>) = 1 /\ <<"mine">>[1] = "mine"
  BY DEF Entries
<1>1. <<"mine">> \in Seq(Entries) /\ Len(<<"mine">>) = 1 /\ <<"mine">>[1] = "mine"
      /\ DOMAIN <<"mine">> = {1}
  BY <1>0, LenProperties
<1>2. Mine = [list |-> FALSE, entries |-> <<"mine">>]
  BY DEF Mine
<1>3. Mine \in Values
  BY <1>1, <1>2 DEF Values
<1>7. Valued(Mine) = {1}
  <2>1. Mine.entries = <<"mine">>
    BY <1>2
  <2> QED
    BY <1>1, <2>1 DEF Valued
<1>4. ~IsEmptyList(Mine) /\ ~Mine.list /\ Mine.entries[1] = "mine" /\ DOMAIN Mine.entries = {1}
  BY <1>1, <1>2 DEF IsEmptyList
<1>5. Len(<<"mine">>) # Len(<<>>) /\ <<"null">>[1] = "null"
  OBVIOUS
<1>6. Mine # Missing /\ Mine # Null
  BY <1>1, <1>2, <1>5 DEF Missing, Null
<1> QED
  BY <1>3, <1>4, <1>6, <1>7

LEMMA PathsDiffer ==
  ASSUME NEW n, NEW s, NEW i, NEW m, NEW t, NEW j, Path(n, s, i) = Path(m, t, j)
  PROVE  n = m /\ s = t /\ i = j
<1>1. /\ Path(n, s, i).node = n /\ Path(n, s, i).source = s /\ Path(n, s, i).index = i
      /\ Path(m, t, j).node = m /\ Path(m, t, j).source = t /\ Path(m, t, j).index = j
  BY DEF Path
<1> QED
  BY <1>1

\* A document e that differs from d only in values that supply nothing, each left
\* out or filled with the server's value, as every one is that is to be omitted.
Rewrites(d, e) ==
  /\ e \in Document
  /\ \A n \in Places : e[n].type = d[n].type
  /\ \A n \in Places, s \in Sources :
       \/ e[n].fields[s] = d[n].fields[s] /\ ~(n \in Visited(d) /\ IsOmitted(d, n, s))
       \/ e[n].fields[s] \in {Missing, Mine} /\ Valued(d[n].fields[s]) = {}

LEMMA RewritesVisit ==
  ASSUME NEW d \in Document, NEW e, Rewrites(d, e)
  PROVE  Visited(e) \subseteq Visited(d)
<1>1. e \in Document /\ e.root.type = d.root.type /\ e.child.type = d.child.type
  BY DEF Rewrites, Document, Places
<1>2. ASSUME NEW s \in Given(e, "root"), Embeds(e, s)
      PROVE  s \in Given(d, "root") /\ Embeds(d, s)
  <2>1. s \in Sources
    BY DEF Given
  <2>2. "root" \in Places
    BY DEF Places
  <2>3. /\ e.root.fields[s] = e["root"].fields[s] /\ d.root.fields[s] = d["root"].fields[s]
        /\ e["root"].fields[s] \in Values
    BY <1>1, <2>1, <2>2, NodeType
  <2>4. PICK i \in DOMAIN e["root"].fields[s].entries :
          e["root"].fields[s].entries[i] = "embedded"
    BY <1>2, <2>3 DEF Embeds
  <2>5. e["root"].fields[s] \notin {Missing, Mine}
    BY <2>4, MissingIs, MineIs
  <2>6. e["root"].fields[s] = d["root"].fields[s]
    BY <2>1, <2>2, <2>5 DEF Rewrites
  <2> QED
    BY <1>1, <1>2, <2>3, <2>6 DEF Embeds, Given
<1> QED
  BY <1>1, <1>2 DEF Visited

LEMMA RewritesOmit ==
  ASSUME NEW d \in Document, NEW e, Rewrites(d, e)
  PROVE  Omissions(e) = <<>>
<1>1. e \in Document /\ \A n \in Places : e[n].type = d[n].type
  BY DEF Rewrites
<1>2. ASSUME NEW n \in Visited(e), NEW s \in Sources, IsOmitted(e, n, s)
      PROVE  FALSE
  <2>1. n \in Visited(d) /\ n \in Places
    BY RewritesVisit DEF Visited, Places
  <2>2. e[n].fields[s] \in Values /\ e[n].fields[s] # Missing
    BY <1>1, <1>2, <2>1, NodeType DEF IsOmitted, Given
  <2>3. e[n].fields[s] # Mine
    BY <1>2, MineIs DEF IsOmitted
  <2>4. e[n].fields[s] = d[n].fields[s] /\ ~IsOmitted(d, n, s)
    BY <2>1, <2>2, <2>3 DEF Rewrites
  <2> QED
    BY <1>1, <1>2, <2>1, <2>4 DEF IsOmitted, Given
<1>3. {g \in Fields(e) : IsOmitted(e, g[1], g[2])} = {}
  BY <1>2 DEF Fields
<1>4. Omissions(e) = [p \in {} |-> Missing]
  BY <1>3 DEF Omissions
<1> QED
  BY <1>4

\* What a rewritten document supplies is what the original supplies, and the
\* server's value in the places that were filled.
LEMMA RewritesSupply ==
  ASSUME NEW d \in Document, NEW e, Rewrites(d, e), NEW n \in Places, NEW s \in Sources
  PROVE  /\ e[n].fields[s] = d[n].fields[s] => Supplies(e, n, s) = Supplies(d, n, s)
         /\ e[n].fields[s] = Missing => Supplies(e, n, s) = {} /\ Supplies(d, n, s) = {}
         /\ e[n].fields[s] = Mine /\ d[n].fields[s] # Mine =>
              Supplies(e, n, s) = {Path(n, s, 0)} /\ Supplies(d, n, s) = {}
         /\ Valued(d[n].fields[s]) # {} => e[n].fields[s] = d[n].fields[s]
<1>1. e[n].fields[s] = d[n].fields[s] => Supplies(e, n, s) = Supplies(d, n, s)
  BY DEF Supplies
<1>2. Valued(d[n].fields[s]) # {} => e[n].fields[s] = d[n].fields[s]
  BY DEF Rewrites
<1>3. Valued(d[n].fields[s]) = {} => Supplies(d, n, s) = {}
  BY DEF Supplies
<1>4. e[n].fields[s] = Missing => Supplies(e, n, s) = {}
  BY MissingIs DEF Supplies
<1>5. e[n].fields[s] = Mine => Supplies(e, n, s) = {Path(n, s, 0)}
  BY MineIs DEF Supplies
<1>6. e[n].fields[s] \in {Missing, Mine} /\ e[n].fields[s] # d[n].fields[s]
        => Valued(d[n].fields[s]) = {}
  BY DEF Rewrites
<1>7. d[n].fields[s] = Missing => Supplies(d, n, s) = {}
  BY MissingIs DEF Supplies
<1> QED
  BY <1>1, <1>2, <1>3, <1>4, <1>5, <1>6, <1>7

-----------------------------------------------------------------------------
(* Reports are finite, so that fewer of them are accepted when more are.     *)

LEMMA FiniteImage ==
  ASSUME NEW S, IsFiniteSet(S), NEW F, DOMAIN F = S, F = [x \in S |-> F[x]]
  PROVE  IsFiniteSet({F[x] : x \in S})
<1> DEFINE T == {F[x] : x \in S}
<1>1. F \in Surjection(S, T)
  BY DEF Surjection
<1> QED
  BY <1>1, FS_Surjection

\* What is found in a value that is checked entry by entry.
PlaceOf(v, i) == IF v.list THEN i ELSE 0
EntryReports(d, n, s) ==
  {Report(EntryReason(d, n, s, i), Path(n, s, PlaceOf(d[n].fields[s], i))) :
     i \in {j \in DOMAIN d[n].fields[s].entries : EntryReason(d, n, s, j) # ""}}

LEMMA EntryReportsFinite ==
  ASSUME NEW d \in Document, NEW n \in Places, NEW s \in Sources
  PROVE  IsFiniteSet(EntryReports(d, n, s))
<1> DEFINE S == {j \in DOMAIN d[n].fields[s].entries : EntryReason(d, n, s, j) # ""}
           F == [i \in S |-> Report(EntryReason(d, n, s, i),
                                    Path(n, s, PlaceOf(d[n].fields[s], i)))]
<1>1. d[n].fields[s] \in Values
  BY NodeType
<1>2. S \subseteq 1 .. Len(d[n].fields[s].entries) /\ Len(d[n].fields[s].entries) \in Nat
  BY <1>1, ValueType
<1>3. IsFiniteSet(S)
  <2> DEFINE all == 1 .. Len(d[n].fields[s].entries)
  <2>2. IsFiniteSet(all)
    <3>1. \A k \in Nat : IsFiniteSet(1 .. k)
      BY FS_Interval
    <3> QED
      BY <1>2, <3>1
  <2>1. IsFiniteSet(all) /\ S \in SUBSET all
    BY <1>2, <2>2
  <2> HIDE DEF all, S
  <2> QED
    BY <2>1, FS_Subset
<1>4. EntryReports(d, n, s) = {F[x] : x \in S}
  BY DEF EntryReports
<1>5. F = [x \in S |-> F[x]] /\ DOMAIN F = S
  OBVIOUS
<1> HIDE DEF S, F
<1> QED
  BY <1>3, <1>4, <1>5, FiniteImage

LEMMA FieldReportsAre ==
  ASSUME NEW d \in Document, NEW n \in Places, NEW s \in Sources
  PROVE  \/ FieldReports(d, n, s) = {}
         \/ \E reason : FieldReports(d, n, s) = {Report(reason, Path(n, s, 0))}
         \/ FieldReports(d, n, s) = EntryReports(d, n, s)
         \/ FieldReports(d, n, s) = {Report("invalid_multiplicity", Path(n, s, 0))}
                                      \union EntryReports(d, n, s)
<1> DEFINE v == d[n].fields[s]
           k == KindOf(d[n].type, NameOf(s))
           alone == {{Report(reason, Path(n, s, 0))} : reason \in
                       {"extension_property_unchecked", "unsupported_value_form",
                        "empty_property_list", "absent_identifier",
                        "property_not_applicable", "unsupported_property"}}
           rest == (IF HasMany(d, n, s) THEN {Report("invalid_multiplicity", Path(n, s, 0))}
                    ELSE {}) \union EntryReports(d, n, s)
<1>1. FieldReports(d, n, s) =
        CASE NameOf(s) = "" -> {Report("extension_property_unchecked", Path(n, s, 0))}
          [] NameOf(s) # "" /\ ~PropertyOf[s].compatible ->
               {Report("unsupported_value_form", Path(n, s, 0))}
          [] IsOmitted(d, n, s) ->
               {Report(IF IsEmptyList(v) THEN "empty_property_list" ELSE "absent_identifier",
                       Path(n, s, 0))}
          [] OTHER ->
               CASE v = Null -> {}
                 [] v # Null /\ k = "inapplicable" ->
                      {Report("property_not_applicable", Path(n, s, 0))}
                 [] v # Null /\ k = "unsupported" ->
                      {Report("unsupported_property", Path(n, s, 0))}
                 [] OTHER -> rest
  BY DEF FieldReports, EntryReports, PlaceOf
<1> HIDE DEF v, k
<1>2. FieldReports(d, n, s) \in alone \union {{}, rest}
  BY <1>1
<1> QED
  BY <1>2

LEMMA CheckedReports ==
  ASSUME NEW d \in Document, NEW n \in Places, NEW s \in Sources,
         NameOf(s) # "", PropertyOf[s].compatible, ~IsOmitted(d, n, s),
         d[n].fields[s] # Null,
         KindOf(d[n].type, NameOf(s)) \notin {"inapplicable", "unsupported"}
  PROVE  EntryReports(d, n, s) \subseteq FieldReports(d, n, s)
<1>1. FieldReports(d, n, s) =
        (IF HasMany(d, n, s) THEN {Report("invalid_multiplicity", Path(n, s, 0))} ELSE {})
          \union EntryReports(d, n, s)
  BY DEF FieldReports, EntryReports, PlaceOf
<1> QED
  BY <1>1

LEMMA ReportsFinite ==
  ASSUME NEW d \in Document
  PROVE  IsFiniteSet(Reports(d))
<1> DEFINE F == [f \in Fields(d) |-> FieldReports(d, f[1], f[2])]
           R == {F[f] : f \in Fields(d)}
           T == {Report("unsupported_type", Path("root", "type", 0)) :
                   t \in {d.root.type} \ SupportedTypes}
<1>1. IsFiniteSet(Fields(d))
  <2>1. IsFiniteSet(Places)
    <3>1. IsFiniteSet({"root"}) /\ IsFiniteSet({"child"})
      BY FS_Singleton
    <3>2. Places = {"root"} \union {"child"}
      BY DEF Places
    <3> QED
      BY <3>1, <3>2, FS_Union
  <2>2. IsFiniteSet(Places \X Sources)
    BY <2>1, FS_Product, DocumentAssumption
  <2>3. Fields(d) \subseteq Places \X Sources
    BY DEF Fields, Visited, Places
  <2> QED
    BY <2>2, <2>3, FS_Subset, Zenon
<1>2. IsFiniteSet(R)
  <2>1. F = [f \in Fields(d) |-> F[f]] /\ DOMAIN F = Fields(d)
    OBVIOUS
  <2> HIDE DEF F
  <2> QED
    BY <1>1, <2>1, FiniteImage
<1>3. \A U \in R : IsFiniteSet(U)
  <2> SUFFICES ASSUME NEW f \in Fields(d)
               PROVE  IsFiniteSet(FieldReports(d, f[1], f[2]))
    OBVIOUS
  <2>1. f[1] \in Places /\ f[2] \in Sources
    BY DEF Fields, Visited, Places
  <2>2. IsFiniteSet(EntryReports(d, f[1], f[2]))
    BY <2>1, EntryReportsFinite
  <2>3. \A x : IsFiniteSet({x})
    BY FS_Singleton
  <2>4. IsFiniteSet({Report("invalid_multiplicity", Path(f[1], f[2], 0))}
                      \union EntryReports(d, f[1], f[2]))
    BY <2>2, <2>3, FS_Union
  <2>5. IsFiniteSet({})
    BY FS_EmptySet
  <2> QED
    BY <2>1, <2>2, <2>3, <2>4, <2>5, FieldReportsAre
<1>4. IsFiniteSet(UNION R)
  BY <1>2, <1>3, FS_UNION
<1>5. T \in SUBSET {Report("unsupported_type", Path("root", "type", 0))}
  OBVIOUS
<1>6. IsFiniteSet(T)
  <2>1. IsFiniteSet({Report("unsupported_type", Path("root", "type", 0))})
    BY FS_Singleton
  <2> HIDE DEF T
  <2> QED
    BY <1>5, <2>1, FS_Subset
<1>7. Reports(d) = (UNION R) \union T
  BY DEF Reports
<1> HIDE DEF T, R
<1>8. IsFiniteSet((UNION R) \union T)
  BY <1>4, <1>6, FS_Union
<1> QED
  BY <1>7, <1>8

LEMMA SuppliesFinite ==
  ASSUME NEW d \in Document, NEW n \in Places, NEW s \in Sources
  PROVE  IsFiniteSet(Supplies(d, n, s))
<1> DEFINE S == Valued(d[n].fields[s])
           F == [i \in S |-> Path(n, s, IF d[n].fields[s].list THEN i ELSE 0)]
           all == 1 .. Len(d[n].fields[s].entries)
<1>1. S \in SUBSET all /\ Len(d[n].fields[s].entries) \in Nat
  BY NodeType, ValueType
<1>2. \A k \in Nat : IsFiniteSet(1 .. k)
  BY FS_Interval
<1>3. IsFiniteSet(all)
  BY <1>1, <1>2
<1>4. IsFiniteSet(S)
  <2> HIDE DEF all, S
  <2> QED
    BY <1>1, <1>3, FS_Subset
<1>5. Supplies(d, n, s) = {F[i] : i \in S}
  BY DEF Supplies
<1>6. F = [i \in S |-> F[i]] /\ DOMAIN F = S
  OBVIOUS
<1> HIDE DEF S, F
<1> QED
  BY <1>4, <1>5, <1>6, FiniteImage

LEMMA OwnedType ==
  ASSUME owned \in Ownership
  PROVE  /\ IsFiniteSet(owned)
         /\ owned \subseteq [node : Places, source : Sources]
         /\ \A f, g \in owned :
              f.node = g.node /\ NameOf(f.source) = NameOf(g.source) => f = g
<1> DEFINE S == Places \X Sources
           F == [x \in S |-> [node |-> x[1], source |-> x[2]]]
           all == {F[x] : x \in S}
<1>1. IsFiniteSet(Places)
  <2>1. IsFiniteSet({"root"}) /\ IsFiniteSet({"child"})
    BY FS_Singleton
  <2>2. Places = {"root"} \union {"child"}
    BY DEF Places
  <2> QED
    BY <2>1, <2>2, FS_Union
<1>2. IsFiniteSet(S)
  BY <1>1, FS_Product, DocumentAssumption
<1>3. IsFiniteSet(all)
  <2>1. F = [x \in S |-> F[x]] /\ DOMAIN F = S
    OBVIOUS
  <2> HIDE DEF S, F
  <2> QED
    BY <1>2, <2>1, FiniteImage
<1>4. owned \subseteq [node : Places, source : Sources]
  BY DocumentAssumption DEF Places
<1>5. owned \in SUBSET all
  <2> SUFFICES ASSUME NEW f \in owned PROVE f \in all
    OBVIOUS
  <2>1. f.node \in Places /\ f.source \in Sources /\ f = [node |-> f.node, source |-> f.source]
    BY <1>4
  <2>2. <<f.node, f.source>> \in S
    BY <2>1
  <2>3. F[<<f.node, f.source>>] = f
    BY <2>1, <2>2
  <2> QED
    BY <2>2, <2>3
<1>6. IsFiniteSet(owned)
  <2> HIDE DEF all
  <2> QED
    BY <1>3, <1>5, FS_Subset
<1> QED
  BY <1>4, <1>6, DocumentAssumption

LEMMA ConflictsFinite ==
  ASSUME document \in Document, owned \in Ownership
  PROVE  IsFiniteSet(UNION {Conflicts(f) : f \in owned})
<1>1. ASSUME NEW f \in owned PROVE IsFiniteSet(Conflicts(f))
  <2> DEFINE A == Aliases(f)
             F == [s \in A |-> Supplies(document, f.node, s)]
             C == {Report("server_owned_field_conflict", p) : p \in Supplied(f)}
             G == [p \in Supplied(f) |-> Report("server_owned_field_conflict", p)]
  <2>1. A \in SUBSET Sources /\ f.node \in Places
    BY OwnedType DEF Aliases, Given
  <2>2. IsFiniteSet(A)
    <3> HIDE DEF A
    <3> QED
      BY <2>1, FS_Subset, DocumentAssumption
  <2>3. IsFiniteSet({F[s] : s \in A})
    <3>1. F = [s \in A |-> F[s]] /\ DOMAIN F = A
      OBVIOUS
    <3> HIDE DEF A, F
    <3> QED
      BY <2>2, <3>1, FiniteImage
  <2>4. \A U \in {F[s] : s \in A} : IsFiniteSet(U)
    BY <2>1, SuppliesFinite
  <2>5. Supplied(f) = UNION {F[s] : s \in A}
    BY DEF Supplied
  <2>6. IsFiniteSet(Supplied(f))
    <3> HIDE DEF A, F
    <3> QED
      BY <2>3, <2>4, <2>5, FS_UNION
  <2>7. IsFiniteSet(C)
    <3>1. G = [p \in Supplied(f) |-> G[p]] /\ DOMAIN G = Supplied(f)
      OBVIOUS
    <3>2. C = {G[p] : p \in Supplied(f)}
      OBVIOUS
    <3> HIDE DEF G, C
    <3> QED
      BY <2>6, <3>1, <3>2, FiniteImage
  <2>8. IsFiniteSet({})
    BY FS_EmptySet
  <2> QED
    BY <2>7, <2>8 DEF Conflicts
<1> DEFINE H == [f \in owned |-> Conflicts(f)]
           R == {H[f] : f \in owned}
<1>2. IsFiniteSet(R)
  <2>1. H = [f \in owned |-> H[f]] /\ DOMAIN H = owned
    OBVIOUS
  <2> HIDE DEF H
  <2> QED
    BY <2>1, OwnedType, FiniteImage
<1>3. \A U \in R : IsFiniteSet(U)
  BY <1>1
<1>4. IsFiniteSet(UNION R)
  <2> HIDE DEF R
  <2> QED
    BY <1>2, <1>3, FS_UNION
<1> QED
  BY <1>4

\* Of what is accepted, any part is.
LEMMA AcceptsLess ==
  ASSUME NEW A, IsFiniteSet(A), NEW B \in SUBSET A, Accepts(A)
  PROVE  Accepts(B)
<1>1. Cardinality(B) <= Cardinality(A) /\ IsFiniteSet(B)
  BY FS_Subset
<1>2. Cardinality(A) \in Nat /\ Cardinality(B) \in Nat
  BY <1>1, FS_CardinalityType
<1> QED
  BY <1>1, <1>2, DocumentAssumption DEF Accepts

-----------------------------------------------------------------------------
(* What is refused: a field whose node the check could not reach.           *)

LEMMA UnsupportedRefuses ==
  ASSUME NEW d \in Document, Accepts(Reports(d))
  PROVE  /\ d.root.type \in SupportedTypes
         /\ \A s \in Given(d, "root") : Embeds(d, s) => d.child.type \in SupportedTypes
<1>1. ASSUME NEW r \in Reports(d) PROVE r.reason # "unsupported_type"
  BY DEF Accepts, Warnings
<1>2. d.root.type \in SupportedTypes
  <2>1. Report("unsupported_type", Path("root", "type", 0)).reason = "unsupported_type"
    BY DEF Report
  <2>2. d.root.type \notin SupportedTypes =>
          Report("unsupported_type", Path("root", "type", 0)) \in Reports(d)
    BY DEF Reports
  <2> QED
    BY <1>1, <2>1, <2>2
<1>3. ASSUME NEW s \in Given(d, "root"), Embeds(d, s), d.child.type \notin SupportedTypes
      PROVE  FALSE
  <2> DEFINE v == d["root"].fields[s]
             k == KindOf(d["root"].type, NameOf(s))
  <2>1. s \in Sources /\ "root" \in Places
    BY DEF Given, Places
  <2>2. d.root.fields[s] = v /\ v \in Values /\ d.root.type = d["root"].type
    BY <2>1, NodeType
  <2>3. PICK i \in DOMAIN v.entries : v.entries[i] = "embedded"
    BY <1>3, <2>2 DEF Embeds
  <2>4. k = "reference" /\ PropertyOf[s].compatible
    BY <1>3, <2>2 DEF Embeds
  <2>5. NameOf(s) # ""
    BY <2>4 DEF KindOf
  <2>6. ~IsEmptyList(v) /\ v # Null
    BY <2>3 DEF IsEmptyList, Null
  <2>7. ~IsOmitted(d, "root", s)
    BY <2>4, <2>6 DEF IsOmitted
  <2>8. EntryReason(d, "root", s, i) = "unsupported_type"
    BY <1>3, <2>3, <2>4 DEF EntryReason
  <2> HIDE DEF v, k
  <2>9. EntryReports(d, "root", s) \subseteq FieldReports(d, "root", s)
    BY <2>1, <2>4, <2>5, <2>6, <2>7, CheckedReports DEF v, k
  <2>10. \E r \in EntryReports(d, "root", s) : r.reason = "unsupported_type"
    <3>1. i \in {j \in DOMAIN d["root"].fields[s].entries : EntryReason(d, "root", s, j) # ""}
      BY <2>3, <2>8 DEF v
    <3>2. Report(EntryReason(d, "root", s, i), Path("root", s, PlaceOf(d["root"].fields[s], i)))
            \in EntryReports(d, "root", s)
      BY <3>1 DEF EntryReports
    <3>3. \A path : Report("unsupported_type", path).reason = "unsupported_type"
      BY DEF Report
    <3> QED
      BY <2>8, <3>2, <3>3
  <2>11. <<"root", s>> \in Fields(d)
    BY <1>2, <2>1 DEF Fields, Visited
  <2>12. FieldReports(d, "root", s) \subseteq Reports(d)
    <3>1. FieldReports(d, "root", s) \in {FieldReports(d, f[1], f[2]) : f \in Fields(d)}
      BY <2>11
    <3> QED
      BY <3>1 DEF Reports
  <2> QED
    BY <1>1, <2>9, <2>10, <2>12
<1> QED
  BY <1>2, <1>3

-----------------------------------------------------------------------------
(* The previews of the two operations rewrite the document.                 *)

\* What a preview may change of d: values that supply nothing.
MayChange(d, changes) ==
  \A p \in DOMAIN changes :
    /\ changes[p] \in {Missing, Mine}
    /\ \E n \in Places, s \in Sources :
         p = Path(n, s, 0) /\ Valued(d[n].fields[s]) = {}

LEMMA PreviewIs ==
  ASSUME NEW d \in Document, NEW changes, NEW n \in Places, NEW s \in Sources
  PROVE  /\ CreatePreview(d, changes)[n].type = d[n].type
         /\ CreatePreview(d, changes)[n].fields[s] =
              IF Path(n, s, 0) \in DOMAIN changes THEN changes[Path(n, s, 0)]
              ELSE d[n].fields[s]
<1> DEFINE fields == [t \in Sources |-> IF Path(n, t, 0) \in DOMAIN changes
                                        THEN changes[Path(n, t, 0)] ELSE d[n].fields[t]]
<1>1. CreatePreview(d, changes)[n] = [d[n] EXCEPT !.fields = fields]
  BY DEF CreatePreview, Places
<1>2. d[n] \in DocumentNodes
  BY NodeType
<1>3. /\ [d[n] EXCEPT !.fields = fields].type = d[n].type
      /\ [d[n] EXCEPT !.fields = fields].fields = fields
  <2> HIDE DEF fields
  <2> QED
    BY <1>2 DEF DocumentNodes
<1> QED
  BY <1>1, <1>3

LEMMA PreviewType ==
  ASSUME NEW d \in Document, NEW changes, MayChange(d, changes)
  PROVE  CreatePreview(d, changes) \in Document
<1> DEFINE e == CreatePreview(d, changes)
<1>1. ASSUME NEW n \in Places PROVE e[n] \in DocumentNodes
  <2> DEFINE fields == [t \in Sources |-> IF Path(n, t, 0) \in DOMAIN changes
                                          THEN changes[Path(n, t, 0)] ELSE d[n].fields[t]]
  <2>1. e[n] = [d[n] EXCEPT !.fields = fields]
    BY DEF CreatePreview, Places
  <2>2. \A s \in Sources : d[n].fields[s] \in Values
    BY NodeType
  <2>3. \A p \in DOMAIN changes : changes[p] \in Values
    BY MissingIs, MineIs DEF MayChange
  <2>4. fields \in [Sources -> Values]
    BY <2>2, <2>3
  <2>5. d[n] \in DocumentNodes
    BY NodeIs
  <2> HIDE DEF fields
  <2> QED
    BY <2>1, <2>4, <2>5 DEF DocumentNodes
<1>2. e = [n \in {"root", "child"} |-> e[n]]
  BY DEF CreatePreview
<1> HIDE DEF e
<1>3. e["root"] \in DocumentNodes /\ e["child"] \in DocumentNodes
  BY <1>1 DEF Places
<1>4. e = [root |-> e["root"], child |-> e["child"]]
  BY <1>2
<1>5. e \in Document
  BY <1>3, <1>4 DEF Document
<1> QED
  BY <1>5 DEF e

LEMMA PreviewRewrites ==
  ASSUME NEW d \in Document, NEW changes, MayChange(d, changes),
         \A n \in Visited(d), s \in Sources :
           IsOmitted(d, n, s) => Path(n, s, 0) \in DOMAIN changes
  PROVE  Rewrites(d, CreatePreview(d, changes))
<1> DEFINE e == CreatePreview(d, changes)
<1>1. e \in Document
  BY PreviewType
<1>2. \A n \in Places : e[n].type = d[n].type
  <2>1. CASE Sources = {}
    BY DEF CreatePreview, Places, Document, DocumentNodes
  <2>2. CASE Sources # {}
    BY <2>2, PreviewIs
  <2> QED
    BY <2>1, <2>2
<1>3. ASSUME NEW n \in Places, NEW s \in Sources
      PROVE  \/ e[n].fields[s] = d[n].fields[s] /\ ~(n \in Visited(d) /\ IsOmitted(d, n, s))
             \/ e[n].fields[s] \in {Missing, Mine} /\ Valued(d[n].fields[s]) = {}
  <2>1. CASE Path(n, s, 0) \in DOMAIN changes
    <3>1. e[n].fields[s] = changes[Path(n, s, 0)]
      BY <2>1, PreviewIs
    <3>2. PICK m \in Places, t \in Sources :
            Path(n, s, 0) = Path(m, t, 0) /\ Valued(d[m].fields[t]) = {}
      BY <2>1 DEF MayChange
    <3>3. n = m /\ s = t
      BY <3>2, PathsDiffer
    <3> QED
      BY <2>1, <3>1, <3>2, <3>3 DEF MayChange
  <2>2. CASE Path(n, s, 0) \notin DOMAIN changes
    BY <2>2, PreviewIs
  <2> QED
    BY <2>1, <2>2
<1> QED
  BY <1>1, <1>2, <1>3 DEF Rewrites

\* Whatever is omitted supplies nothing.
LEMMA OmittedSupplyNothing ==
  ASSUME NEW d \in Document, NEW n \in Places, NEW s \in Sources, IsOmitted(d, n, s)
  PROVE  Valued(d[n].fields[s]) = {}
<1>1. IsEmptyList(d[n].fields[s]) => DOMAIN d[n].fields[s].entries = {}
  BY DEF IsEmptyList
<1> QED
  BY <1>1 DEF IsOmitted, Valued

LEMMA OmissionsAre ==
  ASSUME NEW d \in Document
  PROVE  /\ MayChange(d, Omissions(d))
         /\ \A n \in Visited(d), s \in Sources :
              IsOmitted(d, n, s) => Path(n, s, 0) \in DOMAIN Omissions(d)
         /\ \A p \in DOMAIN Omissions(d) : Omissions(d)[p] = Missing
<1> DEFINE G == {g \in Fields(d) : IsOmitted(d, g[1], g[2])}
           O == {Path(f[1], f[2], 0) : f \in G}
<1>1. DOMAIN Omissions(d) = O /\ \A p \in O : Omissions(d)[p] = Missing
  BY DEF Omissions
<1>2. ASSUME NEW p \in O
      PROVE  \E n \in Places, s \in Sources : p = Path(n, s, 0) /\ Valued(d[n].fields[s]) = {}
  <2>1. PICK f \in G : p = Path(f[1], f[2], 0)
    OBVIOUS
  <2>2. f[1] \in Places /\ f[2] \in Sources /\ IsOmitted(d, f[1], f[2])
    BY DEF Fields, Visited, Places
  <2> QED
    BY <2>1, <2>2, OmittedSupplyNothing
<1>3. ASSUME NEW n \in Visited(d), NEW s \in Sources, IsOmitted(d, n, s)
      PROVE  Path(n, s, 0) \in O
  <2>1. <<n, s>> \in G
    BY <1>3 DEF Fields, IsOmitted
  <2> QED
    BY <2>1
<1> HIDE DEF O, G
<1> QED
  BY <1>1, <1>2, <1>3 DEF MayChange

LEMMA AliasesMean ==
  ASSUME NEW f \in owned, f.source \in Sources
  PROVE  /\ ProposalKey(f) \in Sources
         /\ NameOf(ProposalKey(f)) = NameOf(f.source)
         /\ Supplied(f) = {} => document[f.node].fields[ProposalKey(f)] = Missing
                                \/ ProposalKey(f) \in Aliases(f)
<1>1. \A s \in Aliases(f) : s \in Sources /\ NameOf(s) = NameOf(f.source)
  BY DEF Aliases, Given
<1>2. CASE f.source \in Aliases(f) \/ Aliases(f) = {}
  <2>1. ProposalKey(f) = f.source
    BY <1>2 DEF ProposalKey
  <2> QED
    BY <1>2, <2>1 DEF Aliases, Given
<1>3. CASE f.source \notin Aliases(f) /\ Aliases(f) # {}
  <2>1. ProposalKey(f) = CHOOSE s \in Aliases(f) : TRUE
    BY <1>3 DEF ProposalKey
  <2>2. ProposalKey(f) \in Aliases(f)
    BY <1>3, <2>1
  <2> QED
    BY <1>1, <2>2
<1> QED
  BY <1>2, <1>3

Lacking == {f \in owned : IsReached(f) /\ Supplied(f) = {}}
ProposalKeys == {Path(f.node, ProposalKey(f), 0) : f \in Lacking}

LEMMA ProposalsAre ==
  ASSUME document \in Document, owned \in Ownership
  PROVE  /\ DOMAIN Proposals = ProposalKeys \union DOMAIN Omissions(document)
         /\ \A p \in ProposalKeys : Proposals[p] = Mine
         /\ \A p \in DOMAIN Omissions(document) \ ProposalKeys : Proposals[p] = Missing
         /\ MayChange(document, Proposals)
<1>1. /\ DOMAIN Proposals = ProposalKeys \union DOMAIN Omissions(document)
      /\ \A p \in ProposalKeys : Proposals[p] = Mine
      /\ \A p \in DOMAIN Omissions(document) \ ProposalKeys : Proposals[p] = Missing
  BY DEF Proposals, ProposalKeys, Lacking
<1>2. ASSUME NEW p \in ProposalKeys
      PROVE  \E n \in Places, s \in Sources :
               p = Path(n, s, 0) /\ Valued(document[n].fields[s]) = {}
  <2>1. PICK f \in Lacking : p = Path(f.node, ProposalKey(f), 0)
    BY DEF ProposalKeys
  <2>2. f \in owned /\ f.node \in Places /\ f.source \in Sources /\ Supplied(f) = {}
    BY OwnedType DEF Lacking
  <2>3. ProposalKey(f) \in Sources
    BY <2>2, AliasesMean
  <2>4. CASE document[f.node].fields[ProposalKey(f)] = Missing
    BY <2>1, <2>2, <2>3, <2>4, MissingIs
  <2>5. CASE ProposalKey(f) \in Aliases(f)
    <3>1. Supplies(document, f.node, ProposalKey(f)) \subseteq Supplied(f)
      BY <2>5 DEF Supplied
    <3>2. Supplies(document, f.node, ProposalKey(f)) = {}
      BY <2>2, <3>1
    <3>3. Valued(document[f.node].fields[ProposalKey(f)]) = {}
      BY <3>2 DEF Supplies
    <3> QED
      BY <2>1, <2>2, <2>3, <3>3
  <2> QED
    BY <2>2, <2>4, <2>5, AliasesMean
<1>3. \A p \in DOMAIN Proposals :
        /\ Proposals[p] \in {Missing, Mine}
        /\ \E n \in Places, s \in Sources :
             p = Path(n, s, 0) /\ Valued(document[n].fields[s]) = {}
  BY <1>1, <1>2, OmissionsAre DEF MayChange
<1> QED
  BY <1>1, <1>3 DEF MayChange

LEMMA DescribedIs ==
  ASSUME NEW d, NEW n, NEW name
  PROVE  \A x : x \in Described(d, n, name) <=>
                  \E s \in Sources : NameOf(s) = name /\ x \in Supplies(d, n, s)
<1>1. ASSUME NEW s \in Sources, s \notin Given(d, n) PROVE Supplies(d, n, s) = {}
  BY <1>1, MissingIs DEF Given, Supplies
<1>2. Given(d, n) \subseteq Sources
  BY DEF Given
<1> QED
  BY <1>1, <1>2 DEF Described

\* Of a field the server owns and the preparation reached, the preview describes
\* the server's value and no other, under all keys of its meaning.
LEMMA OwnedOnce ==
  ASSUME document \in Document, owned \in Ownership, NEW f \in owned, IsReached(f),
         Conflicts(f) = {}
  PROVE  LET e == CreatePreview(document, Proposals)
         IN \E p \in Described(e, f.node, NameOf(f.source)) :
              /\ Described(e, f.node, NameOf(f.source)) = {p}
              /\ EntryAt(e, p) = "mine"
<1> DEFINE e == CreatePreview(document, Proposals)
           n == f.node
           name == NameOf(f.source)
<1>1. n \in Places /\ f.source \in Sources
  BY OwnedType
<1>2. Rewrites(document, e)
  BY ProposalsAre, OmissionsAre, PreviewRewrites
<1>3. \A s \in Sources :
        e[n].fields[s] = IF Path(n, s, 0) \in DOMAIN Proposals THEN Proposals[Path(n, s, 0)]
                         ELSE document[n].fields[s]
  BY <1>1, PreviewIs
<1> HIDE DEF e
<1>4. ASSUME NEW s \in Sources, NameOf(s) = name, Path(n, s, 0) \in ProposalKeys
      PROVE  f \in Lacking /\ s = ProposalKey(f)
  <2>1. PICK g \in Lacking : Path(n, s, 0) = Path(g.node, ProposalKey(g), 0)
    BY <1>4 DEF ProposalKeys
  <2>2. g \in owned /\ g.source \in Sources /\ g.node = n /\ ProposalKey(g) = s
    BY <2>1, PathsDiffer, OwnedType DEF Lacking
  <2>3. NameOf(g.source) = name
    BY <1>4, <2>2, AliasesMean
  <2>4. g = f
    BY <2>2, <2>3, OwnedType
  <2> QED
    BY <2>2, <2>4
<1>5. ASSUME NEW s \in Sources, NameOf(s) = name, Path(n, s, 0) \notin ProposalKeys
      PROVE  Supplies(e, n, s) = Supplies(document, n, s)
  <2>1. e[n].fields[s] = document[n].fields[s] \/ e[n].fields[s] = Missing
    <3>1. CASE Path(n, s, 0) \in DOMAIN Proposals
      <4>1. e[n].fields[s] = Proposals[Path(n, s, 0)]
        BY <1>3, <3>1
      <4>2. Path(n, s, 0) \in DOMAIN Omissions(document) \ ProposalKeys
        BY <1>5, <3>1, ProposalsAre
      <4> QED
        BY <4>1, <4>2, ProposalsAre
    <3>2. CASE Path(n, s, 0) \notin DOMAIN Proposals
      BY <1>3, <3>2
    <3> QED
      BY <3>1, <3>2
  <2>2. /\ e[n].fields[s] = document[n].fields[s] => Supplies(e, n, s) = Supplies(document, n, s)
        /\ e[n].fields[s] = Missing => Supplies(e, n, s) = {} /\ Supplies(document, n, s) = {}
    <3> HIDE DEF n, name
    <3> QED
      BY <1>1, <1>2, RewritesSupply
  <2> QED
    BY <2>1, <2>2
<1>6. Supplied(f) = Described(document, n, name)
  BY DEF Supplied, Aliases, Described
<1>7. CASE Supplied(f) # {}
  <2>1. PICK p \in Supplied(f) : Supplied(f) = {p} /\ EntryAt(document, p) = "mine"
    <3>1. {Report("server_owned_field_conflict", q) : q \in Supplied(f)} # {}
      BY <1>7
    <3> QED
      BY <3>1 DEF Conflicts
  <2>2. \A s \in Sources : NameOf(s) = name => Supplies(e, n, s) = Supplies(document, n, s)
    BY <1>4, <1>5, <1>7 DEF Lacking
  <2>3. Described(e, n, name) = Described(document, n, name)
    <3>1. \A x : x \in Described(e, n, name) <=> x \in Described(document, n, name)
      BY <2>2, DescribedIs
    <3> QED
      BY <3>1
  <2>4. PICK s \in Sources : NameOf(s) = name /\ p \in Supplies(document, n, s)
    <3>1. p \in Described(document, n, name)
      BY <1>6, <2>1
    <3> HIDE DEF n, name
    <3> QED
      BY <3>1, DescribedIs
  <2>5. p.node = n /\ p.source = s /\ Valued(document[n].fields[s]) # {}
    BY <2>4 DEF Supplies, Path
  <2>6. e[n].fields[s] = document[n].fields[s]
    BY <1>1, <1>2, <2>5, RewritesSupply
  <2>7. EntryAt(e, p) = EntryAt(document, p)
    BY <2>5, <2>6 DEF EntryAt
  <2>8. \E x \in Described(e, n, name) : Described(e, n, name) = {x} /\ EntryAt(e, x) = "mine"
    BY <1>6, <2>1, <2>3, <2>7
  <2> QED
    BY <2>8 DEF e
<1>8. CASE Supplied(f) = {}
  <2> DEFINE key == ProposalKey(f)
             p == Path(n, key, 0)
  <2>1. f \in Lacking /\ key \in Sources /\ NameOf(key) = name
    BY <1>1, <1>8, AliasesMean DEF Lacking
  <2>2. p \in ProposalKeys
    BY <2>1 DEF ProposalKeys
  <2>3. e[n].fields[key] = Mine
    BY <1>3, <2>1, <2>2, ProposalsAre
  <2>4. \A s \in Sources : NameOf(s) = name => Supplies(document, n, s) = {}
    <3>1. Described(document, n, name) = {}
      BY <1>6, <1>8
    <3> HIDE DEF n, name
    <3> QED
      BY <3>1, DescribedIs
  <2>5. Valued(document[n].fields[key]) = {}
    BY <2>1, <2>4 DEF Supplies
  <2>6. document[n].fields[key] # Mine
    BY <2>5, MineIs
  <2>7. Supplies(e, n, key) = {p}
    BY <1>1, <1>2, <2>1, <2>3, <2>6, RewritesSupply
  <2>8. \A s \in Sources \ {key} : NameOf(s) = name => Supplies(e, n, s) = {}
    BY <1>4, <1>5, <2>4
  <2>9. Described(e, n, name) = {p}
    BY <2>1, <2>7, <2>8, DescribedIs
  <2>10. EntryAt(e, p) = "mine"
    <3>1. p.node = n /\ p.source = key /\ p.index = 0
      BY DEF Path
    <3>2. EntryAt(e, p) = e[n].fields[key].entries[1]
      BY <3>1 DEF EntryAt
    <3> QED
      BY <2>3, <3>2, MineIs
  <2> HIDE DEF p
  <2>11. \E x \in Described(e, n, name) : Described(e, n, name) = {x} /\ EntryAt(e, x) = "mine"
    BY <2>9, <2>10
  <2> QED
    BY <2>11 DEF e
<1> QED
  BY <1>7, <1>8

-----------------------------------------------------------------------------
(* What a preparation accepts is final.                                     *)

\* What both operations establish of the preview e they accept.
Sound(e) ==
  /\ Accepts(Reports(e)) /\ Omissions(e) = <<>>
  /\ \A n \in Visited(document) : \A s \in Sources :
       Valued(document[n].fields[s]) # {} => e[n].fields[s] = document[n].fields[s]
OwnsOnly(e) ==
  \A f \in owned : \E p \in Described(e, f.node, NameOf(f.source)) :
    /\ Described(e, f.node, NameOf(f.source)) = {p}
    /\ EntryAt(e, p) = "mine"

LEMMA RewritesSound ==
  ASSUME document \in Document, NEW e, Rewrites(document, e),
         NEW R, IsFiniteSet(R), Accepts(R \union Reports(e))
  PROVE  Sound(e)
<1>1. e \in Document
  BY DEF Rewrites
<1>2. IsFiniteSet(R \union Reports(e))
  BY <1>1, ReportsFinite, FS_Union
<1>3. Accepts(Reports(e))
  <2>1. Reports(e) \in SUBSET (R \union Reports(e))
    OBVIOUS
  <2> QED
    BY <1>2, <2>1, AcceptsLess
<1>4. Omissions(e) = <<>>
  BY RewritesOmit
<1>5. Visited(document) \subseteq Places
  BY DEF Visited, Places
<1>6. \A n \in Visited(document), s \in Sources :
        Valued(document[n].fields[s]) # {} => e[n].fields[s] = document[n].fields[s]
  BY <1>5, RewritesSupply
<1> QED
  BY <1>3, <1>4, <1>6 DEF Sound

LEMMA ValidatedSound ==
  ASSUME document \in Document, ValidateDocument, result'.status = "accepted"
  PROVE  Sound(result'.document)
<1> DEFINE e == CreatePreview(document, Omissions(document))
<1>1. Accepts(Reports(document) \union Reports(e)) /\ result'.document = e
  BY DEF ValidateDocument, AnswerChecked, Answered
<1>2. Rewrites(document, e)
  BY OmissionsAre, PreviewRewrites
<1>3. IsFiniteSet(Reports(document))
  BY ReportsFinite
<1> HIDE DEF e
<1> QED
  BY <1>1, <1>2, <1>3, RewritesSound

LEMMA PreparedSound ==
  ASSUME document \in Document, owned \in Ownership,
         PrepareDocument, result'.status = "accepted"
  PROVE  Sound(result'.document) /\ ~denied /\ OwnsOnly(result'.document)
<1> DEFINE e == CreatePreview(document, Proposals)
           C == UNION {Conflicts(f) : f \in owned}
           R == Reports(document) \union C
<1>1. /\ ~OwnsInVain /\ Accepts(Reports(document) \union Denials)
      /\ Accepts(R) /\ Accepts(R \union Reports(e)) /\ result'.document = e
  BY DEF PrepareDocument, AnswerChecked, Answered
<1>2. Rewrites(document, e)
  BY ProposalsAre, OmissionsAre, PreviewRewrites
<1>3. IsFiniteSet(R)
  <2>1. IsFiniteSet(Reports(document)) /\ IsFiniteSet(C)
    BY ReportsFinite, ConflictsFinite
  <2> HIDE DEF C
  <2> QED
    BY <2>1, FS_Union
<1>4. Sound(e)
  <2> HIDE DEF e, R
  <2> QED
    BY <1>1, <1>2, <1>3, RewritesSound
<1>5. ~denied
  <2>1. denied => Report("unauthorized_local_identity", Path("root", "", 0)) \in Denials
    BY DEF Denials
  <2>2. Report("unauthorized_local_identity", Path("root", "", 0)).reason
          = "unauthorized_local_identity"
    BY DEF Report
  <2>3. \A r \in Denials : r.reason \in Warnings
    BY <1>1 DEF Accepts
  <2> QED
    BY <2>1, <2>2, <2>3 DEF Warnings
<1>6. ASSUME NEW f \in owned PROVE IsReached(f)
  <2>1. Accepts(Reports(document))
    <3>1. Reports(document) \in SUBSET R
      OBVIOUS
    <3> HIDE DEF R
    <3> QED
      BY <1>1, <1>3, <3>1, AcceptsLess
  <2>2. ~IsBlocked(f)
    BY <2>1, UnsupportedRefuses DEF IsBlocked
  <2> QED
    BY <1>1, <2>2 DEF OwnsInVain
<1>7. ASSUME NEW f \in owned PROVE Conflicts(f) = {}
  <2>1. Conflicts(f) \subseteq R
    OBVIOUS
  <2>2. \A r \in Conflicts(f) : r.reason \in Warnings
    <3> HIDE DEF R
    <3> QED
      BY <1>1, <2>1 DEF Accepts
  <2>3. \A r \in Conflicts(f) : r.reason = "server_owned_field_conflict"
    BY DEF Conflicts, Report
  <2> QED
    BY <2>2, <2>3 DEF Warnings
<1>8. OwnsOnly(e)
  BY <1>6, <1>7, OwnedOnce DEF OwnsOnly
<1> HIDE DEF e
<1> QED
  BY <1>1, <1>4, <1>5, <1>8

DocumentInv ==
  /\ document \in Document /\ owned \in Ownership
  /\ operation \in {"validate", "prepare"}
  /\ result.status = "accepted" => /\ Sound(result.document)
                                   /\ operation = "prepare" =>
                                        ~denied /\ OwnsOnly(result.document)

LEMMA DocumentInvariant == DocumentSpec => []DocumentInv
<1>1. DocumentInit => DocumentInv
  BY DocumentAssumption DEF DocumentInit, DocumentInv, Document
<1>2. DocumentInv /\ [DocumentNext]_documentVars => DocumentInv'
  <2> SUFFICES ASSUME DocumentInv, [DocumentNext]_documentVars PROVE DocumentInv'
    OBVIOUS
  <2>1. CASE ValidateDocument
    <3>1. UNCHANGED <<document, owned, denied, operation>> /\ operation = "validate"
      BY <2>1 DEF ValidateDocument
    <3>2. result'.status = "accepted" => Sound(result'.document)
      BY <2>1, ValidatedSound DEF DocumentInv
    <3>3. result'.status = "accepted" => Sound(result.document)'
      BY <3>1, <3>2 DEF Sound
    <3> QED
      BY <3>1, <3>3 DEF DocumentInv
  <2>2. CASE PrepareDocument
    <3>1. UNCHANGED <<document, owned, denied, operation>>
      BY <2>2 DEF PrepareDocument
    <3>2. result'.status = "accepted" =>
            Sound(result'.document) /\ ~denied /\ OwnsOnly(result'.document)
      BY <2>2, PreparedSound DEF DocumentInv
    <3>3. result'.status = "accepted" =>
            Sound(result.document)' /\ ~denied' /\ OwnsOnly(result.document)'
      BY <3>1, <3>2 DEF Sound, OwnsOnly
    <3> QED
      BY <3>1, <3>3 DEF DocumentInv
  <2>3. CASE UNCHANGED documentVars
    BY <2>3 DEF documentVars, DocumentInv, Sound, OwnsOnly
  <2> QED
    BY <2>1, <2>2, <2>3 DEF DocumentNext
<1> QED
  BY <1>1, <1>2, PTL DEF DocumentSpec

\* The document a validation or a preparation ends with is the one that can be
\* published: checking it finds nothing more and omits nothing more, what the author
\* wrote is kept, every field the server owns has the server's value and no other
\* under any key of its meaning, and a denied operation has none (validateDocument()
\* and prepareDocument() in models/src/document.ts).
THEOREM PreviewsAreFinal == DocumentSpec => []PreviewIsFinal
<1>1. DocumentInv => PreviewIsFinal
  BY DEF DocumentInv, PreviewIsFinal, Sound, OwnsOnly
<1> QED
  BY <1>1, DocumentInvariant, PTL

-----------------------------------------------------------------------------
(***************************************************************************)
(* LocalWritePreparation.  What a request saves does not depend on what     *)
(* others do between a preview and a commit: Shown is a function of the     *)
(* bound request, its allocation and, for a change, the object at the       *)
(* expected length of its history.                                         *)
(***************************************************************************)

\* Sequences of any elements.
LEMMA SeqIs ==
  ASSUME NEW s, IsSeq(s)
  PROVE  Len(s) \in Nat /\ DOMAIN s = 1 .. Len(s)
BY LenProperties DEF IsSeq

LEMMA SeqAppend ==
  ASSUME NEW s, IsSeq(s), NEW e
  PROVE  /\ IsSeq(Append(s, e)) /\ Append(s, e) # <<>>
         /\ Len(Append(s, e)) = Len(s) + 1
         /\ DOMAIN Append(s, e) = 1 .. Len(s) + 1
         /\ \A i \in DOMAIN s : Append(s, e)[i] = s[i]
         /\ Append(s, e)[Len(s) + 1] = e
<1> DEFINE S == {s[i] : i \in DOMAIN s} \union {e}
           t == Append(s, e)
           T == {t[i] : i \in DOMAIN t}
<1>1. s \in Seq(S)
  <2>1. s \in Seq({s[i] : i \in DOMAIN s})
    BY DEF IsSeq
  <2> QED
    BY <2>1, SeqMonotonic
<1>2. /\ t \in Seq(S) /\ t # <<>> /\ Len(t) = Len(s) + 1
      /\ \A i \in 1 .. Len(s) : t[i] = s[i]
      /\ t[Len(s) + 1] = e
  <2> e \in S
    OBVIOUS
  <2> HIDE DEF S
  <2> QED
    BY <1>1, AppendProperties
<1>3. DOMAIN t = 1 .. Len(t)
  <2> HIDE DEF S, t
  <2> QED
    BY <1>2, LenProperties
<1>4. \A i \in DOMAIN t : t[i] \in T
  <2> HIDE DEF t
  <2> QED
    OBVIOUS
<1>5. t \in Seq(T)
  <2>1. Len(t) \in Nat /\ t \in [1 .. Len(t) -> S]
    <3> HIDE DEF S, t
    <3> QED
      BY <1>2, LenProperties
  <2>2. t \in [1 .. Len(t) -> T]
    <3> HIDE DEF S, T, t
    <3> QED
      BY <1>3, <1>4, <2>1
  <2> HIDE DEF t, T
  <2> QED
    BY <2>1, <2>2
<1>6. IsSeq(t)
  BY <1>5 DEF IsSeq
<1> QED
  BY <1>2, <1>3, <1>6, SeqIs

LEMMA SeqUpdate ==
  ASSUME NEW s, IsSeq(s), NEW i \in DOMAIN s, NEW e
  PROVE  /\ IsSeq([s EXCEPT ![i] = e]) /\ DOMAIN [s EXCEPT ![i] = e] = DOMAIN s
         /\ Len([s EXCEPT ![i] = e]) = Len(s)
         /\ [s EXCEPT ![i] = e] # <<>>
<1> DEFINE t == [s EXCEPT ![i] = e]
           T == {t[j] : j \in DOMAIN t}
<1>1. Len(s) \in Nat /\ DOMAIN s = 1 .. Len(s) /\ DOMAIN t = DOMAIN s
  BY SeqIs
<1>2. t = [j \in 1 .. Len(s) |-> t[j]] /\ \A j \in 1 .. Len(s) : t[j] \in T
  BY <1>1
<1>3. t \in [1 .. Len(s) -> T]
  <2> HIDE DEF T, t
  <2> QED
    BY <1>2
<1>4. t \in Seq(T) /\ Len(t) = Len(s) /\ t # <<>>
  <2> HIDE DEF t, T
  <2> QED
    BY <1>1, <1>3
<1> QED
  BY <1>1, <1>4 DEF IsSeq

\* The resources of a create.
NewFields(listed, kinds, allocation) ==
  UNION {{Owned(i, "id", allocation.ids[i]), Owned(i, AuthorField(kinds[i]), Actor),
          Owned(i, "published", allocation.timestamp)} : i \in listed}
FromInside(listed, k) ==
  CHOOSE i \in listed : Cardinality({j \in listed : j > i}) = k - 1
NewDocument(filled, i, referred, ids) ==
  IF i = 1 THEN Inwards(filled, 1, referred, ids) ELSE ExtractNested(filled, i, referred, ids)
Kinds(q) == [i \in Listed(q) |-> DescriptorOf(q, i).kind]
Referred(q) == {i \in Listed(q) : DescriptorOf(q, i).representation = "reference"}
NewResources(nodes, listed, kinds, referred, count, allocation) ==
  [k \in 1 .. count |->
     Resource(allocation.ids[FromInside(listed, k)], kinds[FromInside(listed, k)], FALSE,
              [i \in listed |-> NewDocument(FillFields(nodes, NewFields(listed, kinds, allocation)),
                                            i, referred, allocation.ids)][FromInside(listed, k)])]
Created(q, allocation) ==
  NewResources(q.document, Listed(q), Kinds(q), Referred(q), Len(q.resources), allocation)

LEMMA CreateIs ==
  ASSUME NEW q, NEW allocation, ~PrepareCreate(q, allocation).fails
  PROVE  /\ PrepareCreate(q, allocation).resources = Created(q, allocation)
         /\ CheckDescriptors(q) /\ Readable(q.document)
         /\ DOMAIN allocation.ids = Listed(q)
         /\ DeniedClaims(q.document, Kinds(q),
                         {allocation.ids[i] : i \in DOMAIN allocation.ids}) = {}
         /\ ~FieldConflicts(q.document, NewFields(Listed(q), Kinds(q), allocation))
BY DEF PrepareCreate, Prepared, PrepareFails, Created, NewResources, NewDocument, NewFields,
       FromInside, Kinds, Referred

LEMMA BindableIs ==
  ASSUME NEW q, IsRequest(q)
  PROVE  LET b == Bindable(q) IN
         /\ b.operation = q.operation /\ b.document = q.document /\ b.expected = q.expected
         /\ DOMAIN b.resources = DOMAIN q.resources /\ Len(b.resources) = Len(q.resources)
         /\ \A k \in DOMAIN q.resources :
              /\ b.resources[k].at = q.resources[k].at
              /\ b.resources[k].kind = q.resources[k].kind
              /\ (b.resources[k].representation = "reference")
                   <=> (q.resources[k].representation = "reference")
<1> DEFINE r == [k \in DOMAIN q.resources |->
                   [q.resources[k] EXCEPT !.representation =
                      IF q.resources[k].representation = "" THEN "embedded"
                      ELSE q.resources[k].representation]]
           b == Bindable(q)
<1>1. b = [q EXCEPT !.resources = r]
  BY DEF Bindable
<1>2. b = [operation |-> q.operation, document |-> q.document, resources |-> r,
           publish |-> q.publish, expected |-> q.expected]
  <2> HIDE DEF r, b
  <2> QED
    BY <1>1 DEF IsRequest
<1>3. q.resources \in Seq(Descriptors) /\ DOMAIN q.resources = 1 .. Len(q.resources)
      /\ Len(q.resources) \in Nat
  BY LenProperties DEF IsRequest
<1>4. Len(r) = Len(q.resources) /\ DOMAIN r = DOMAIN q.resources
  BY <1>3
<1>5. ASSUME NEW k \in DOMAIN q.resources
      PROVE  /\ r[k].at = q.resources[k].at /\ r[k].kind = q.resources[k].kind
             /\ (r[k].representation = "reference") <=> (q.resources[k].representation = "reference")
  <2>1. q.resources[k] \in Descriptors
    BY <1>3
  <2> QED
    BY <2>1 DEF Descriptors
<1> HIDE DEF r, b
<1> QED
  BY <1>2, <1>4, <1>5 DEF b

LEMMA CreatedBound ==
  ASSUME NEW q, IsRequest(q), NEW allocation
  PROVE  Created(Bindable(q), allocation) = Created(q, allocation)
         /\ Listed(Bindable(q)) = Listed(q)
<1> DEFINE b == Bindable(q)
<1>1. Listed(b) = Listed(q)
  BY BindableIs DEF Listed
<1>2. ASSUME NEW i \in Listed(q)
      PROVE  /\ DescriptorOf(b, i).kind = DescriptorOf(q, i).kind
             /\ (DescriptorOf(b, i).representation = "reference")
                  <=> (DescriptorOf(q, i).representation = "reference")
  <2> DEFINE k == CHOOSE j \in DOMAIN q.resources : q.resources[j].at = i
             m == CHOOSE j \in DOMAIN b.resources : b.resources[j].at = i
  <2>1. k \in DOMAIN q.resources
    BY DEF Listed
  <2>2. DOMAIN b.resources = DOMAIN q.resources
        /\ \A j \in DOMAIN q.resources : b.resources[j].at = q.resources[j].at
    BY BindableIs
  <2>3. m = k
    <3> HIDE DEF b
    <3> QED
      BY <2>2
  <2>4. DescriptorOf(b, i) = b.resources[m] /\ DescriptorOf(q, i) = q.resources[k]
    BY DEF DescriptorOf
  <2> HIDE DEF k, m
  <2> QED
    BY <2>1, <2>3, <2>4, BindableIs
<1>3. Kinds(b) = Kinds(q) /\ Referred(b) = Referred(q)
  BY <1>1, <1>2 DEF Kinds, Referred
<1>4. b.document = q.document /\ Len(b.resources) = Len(q.resources)
  BY BindableIs
<1> QED
  BY <1>1, <1>3, <1>4 DEF Created

\* The resources of an edit and of a deletion.
HeadNode == HeadRevision.document.nodes[1]
Recognized(nodes, current, typed) ==
  LET again == nodes[1].fields.updated = current.fields.updated
      legacy == /\ typed /\ nodes[1].context = current.context
                /\ nodes[1].context \notin TypedContexts
  IN [nodes EXCEPT ![1].fields.updated = IF again THEN Absent ELSE @,
                   ![1].context = IF legacy THEN {"as", "sensitive"} ELSE @]
EditFields(allocation, published) ==
  {Owned(1, "id", Object), Owned(1, "attributedTo", Actor),
   Owned(1, "updated", allocation.timestamp)}
  \union (IF published = Absent THEN {} ELSE {Owned(1, "published", published)})
Version(nodes, allocation, current) ==
  [nodes |-> FillFields(nodes, EditFields(allocation, current.fields.published)),
   last |-> NoReference]
EmbeddedVersion(nodes) == [nodes EXCEPT ![1].context = {}, ![1].property = "object"]
EditResources(nodes, allocation, version) ==
  <<Resource(Object, "object", FALSE, version),
    Resource(allocation.ids[1], "activity", TRUE,
             Generated("Update", allocation, nodes[1].context, nodes[1].to,
                       EmbeddedVersion(version.nodes), NoReference))>>
Edited(nodes, allocation, current, typed) ==
  EditResources(Recognized(nodes, current, typed), allocation,
                Version(Recognized(nodes, current, typed), allocation, current))
Deleted(allocation, nodes, addressing) ==
  <<Resource(allocation.ids[1], "activity", TRUE,
      Generated("Delete", allocation, IF Readable(nodes) THEN nodes[1].context ELSE {"as"},
                IF Readable(nodes) THEN nodes[1].to ELSE addressing, <<>>,
                [property |-> "object", iri |-> Object]))>>

LEMMA PublishedIs ==
  ASSUME NEW q, LoadTarget(q)
  PROVE  EffectivePublished = HeadNode.fields.published
<1>1. object.columns # <<>> => HeadNode.fields.published # Absent
  <2> SUFFICES ASSUME object.columns # <<>> PROVE HeadNode.fields.published # Absent
    OBVIOUS
  <2>1. ProjectTypedObject(HeadRevision.document, TRUE) # <<>>
    BY DEF LoadTarget, IsOwnObject, AgreesWithRow
  <2>2. HeadRevision.document.nodes[1].fields["published"] # Absent
    BY <2>1 DEF ProjectTypedObject
  <2> QED
    BY <2>2 DEF HeadNode
<1> QED
  BY <1>1 DEF EffectivePublished, HeadNode

LEMMA EditIs ==
  ASSUME NEW q, NEW allocation, ~PrepareEdit(q, allocation).fails
  PROVE  LET nodes == Recognized(q.document, HeadNode, object.columns # <<>>)
             version == Version(nodes, allocation, HeadNode)
         IN /\ PrepareEdit(q, allocation).resources =
                 Edited(q.document, allocation, HeadNode, object.columns # <<>>)
            /\ PrepareEdit(q, allocation).columns =
                 IF object.columns = <<>> THEN <<>> ELSE ProjectTypedObject(version, FALSE)
            /\ object.columns # <<>> => PrepareEdit(q, allocation).columns # <<>>
            /\ LoadTarget(q) /\ Readable(nodes) /\ nodes[1].type = HeadNode.type
            /\ HeadNode.fields.published = Absent => nodes[1].fields.published = Absent
<1> DEFINE nodes == RecognizeServerValues(q.document)
           version == [nodes |-> FillFields(nodes, EditFields(allocation, EffectivePublished)),
                       last |-> NoReference]
           columns == IF object.columns = <<>> THEN <<>> ELSE ProjectTypedObject(version, FALSE)
<1>1. /\ PrepareEdit(q, allocation).resources = EditResources(nodes, allocation, version)
      /\ PrepareEdit(q, allocation).columns = columns
      /\ LoadTarget(q) /\ Readable(nodes)
      /\ nodes[1].type = HeadNode.type
      /\ EffectivePublished = Absent => nodes[1].fields.published = Absent
      /\ object.columns # <<>> => columns # <<>>
  BY DEF PrepareEdit, Prepared, PrepareFails, EditResources, EditFields, EmbeddedVersion, HeadNode
<1>2. EffectivePublished = HeadNode.fields.published
  BY <1>1, PublishedIs
<1>3. nodes = Recognized(q.document, HeadNode, object.columns # <<>>)
  BY DEF RecognizeServerValues, Recognized, HeadNode
<1>4. version = Version(nodes, allocation, HeadNode)
  BY <1>2 DEF Version
<1> HIDE DEF nodes, version
<1> QED
  BY <1>1, <1>2, <1>3, <1>4 DEF Edited

LEMMA DeleteIs ==
  ASSUME NEW q, NEW allocation, ~PrepareDelete(q, allocation).fails
  PROVE  /\ PrepareDelete(q, allocation).resources =
              Deleted(allocation, HeadRevision.document.nodes, object.addressing)
         /\ LoadTarget(q)
BY DEF PrepareDelete, Prepared, PrepareFails, Deleted

\* What a bound request saves with an allocation when the object is o.
Newest(o) == o.history[Len(o.history)]
Shown(o, b, allocation) ==
  IF b.operation = "create" THEN Created(b, allocation)
  ELSE IF b.operation = "edit"
       THEN Edited(b.document, allocation, Newest(o).document.nodes[1], o.columns # <<>>)
       ELSE Deleted(allocation, Newest(o).document.nodes, o.addressing)

LEMMA PreparedIs ==
  ASSUME NEW q, IsRequest(q), NEW allocation, ~PrepareWrite(q, allocation).fails
  PROVE  /\ PrepareWrite(q, allocation).resources = Shown(object, Bindable(q), allocation)
         /\ Bindable(q).operation \in {"create", "edit", "delete"}
         /\ Bindable(q).operation # "create" => Bindable(q).expected = Len(object.history)
<1>1. Bindable(q).operation = q.operation /\ Bindable(q).document = q.document
      /\ Bindable(q).expected = q.expected
  BY BindableIs
<1>2. CASE q.operation = "create"
  <2>1. PrepareWrite(q, allocation) = PrepareCreate(q, allocation)
    BY <1>2 DEF PrepareWrite
  <2> QED
    BY <1>1, <1>2, <2>1, CreateIs, CreatedBound DEF Shown
<1>3. CASE q.operation = "edit"
  <2>1. PrepareWrite(q, allocation) = PrepareEdit(q, allocation)
    BY <1>3 DEF PrepareWrite
  <2> QED
    BY <1>1, <1>3, <2>1, EditIs DEF Shown, LoadTarget, HeadNode, HeadRevision, Newest
<1>4. CASE q.operation = "delete"
  <2>1. PrepareWrite(q, allocation) = PrepareDelete(q, allocation)
    BY <1>4 DEF PrepareWrite
  <2> QED
    BY <1>1, <1>4, <2>1, DeleteIs DEF Shown, LoadTarget, HeadNode, HeadRevision, Newest
<1> QED
  BY <1>2, <1>3, <1>4 DEF IsRequest

\* The documents a create lists are the outermost ones, and it saves them from the
\* inside out.
LEMMA GreatestIs ==
  ASSUME NEW n \in Nat, NEW S \in SUBSET (1 .. n), S # {}
  PROVE  \E m \in S : \A i \in S : i <= m
<1> DEFINE T == {n - i : i \in S}
<1>1. T \subseteq Nat /\ T # {}
  <2>1. \A i \in S : n - i \in Nat
    <3>1. \A i \in 1 .. n : n - i \in Nat
      OBVIOUS
    <3> QED
      BY <3>1
  <2> QED
    BY <2>1
<1>2. PICK x \in T : \A y \in T : ~ (<<y, x>> \in OpToRel(<, Nat))
  <2> HIDE DEF T
  <2> QED
    BY <1>1, NatLessThanWellFounded, WFMin
<1>3. \A y \in T : ~(y < x)
  BY <1>1, <1>2 DEF OpToRel
<1>4. PICK m \in S : x = n - m
  OBVIOUS
<1>5. ASSUME NEW i \in S PROVE i <= m
  <2>1. n - i \in T
    OBVIOUS
  <2> QED
    BY <1>3, <1>4, <2>1
<1> QED
  BY <1>5

LEMMA ListedIs ==
  ASSUME NEW q, IsRequest(q), q.operation # "delete", CheckDescriptors(q)
  PROVE  /\ Len(q.resources) \in Nat \ {0}
         /\ Listed(q) = 1 .. Len(q.resources)
         /\ Len(q.resources) <= Len(q.document)
         /\ \A k \in 1 .. Len(q.resources) :
              FromInside(Listed(q), k) = Len(q.resources) - k + 1
<1> DEFINE n == Len(q.document)
           S == Listed(q)
           count == Len(q.resources)
<1>1. n \in Nat /\ DOMAIN q.document = 1 .. n
  BY SeqIs DEF IsRequest, IsDocument
<1>2. S \in SUBSET (1 .. n) /\ 1 \in S
  BY <1>1 DEF CheckDescriptors, Listed
<1>3. \A i \in S : i # 1 => i - 1 \in S
  <2> SUFFICES ASSUME NEW k \in DOMAIN q.resources, q.resources[k].at # 1
               PROVE  q.resources[k].at - 1 \in S
    BY DEF Listed
  <2> QED
    BY DEF CheckDescriptors
<1>4. PICK m \in S : \A i \in S : i <= m
  <2> HIDE DEF n, S
  <2> QED
    BY <1>1, <1>2, GreatestIs
<1>5. m \in 1 .. n
  BY <1>2, <1>4
<1>6. S = 1 .. m
  <2> DEFINE T == (1 .. m) \ S
  <2>1. CASE T # {}
    <3> HIDE DEF S
    <3>1. T \in SUBSET (1 .. m) /\ m \in Nat
      BY <1>1, <1>5
    <3>2. PICK j \in T : \A i \in T : i <= j
      <4> HIDE DEF T
      <4> QED
        BY <2>1, <3>1, GreatestIs
    <3>3. j \in 1 .. m /\ j \notin S /\ j # m
      BY <1>4, <3>2
    <3>4. j + 1 \in S
      BY <1>5, <3>2, <3>3
    <3>5. (j + 1) - 1 \in S
      BY <1>3, <3>3, <3>4
    <3> QED
      BY <3>3, <3>5
  <2>2. CASE T = {}
    <3>1. 1 .. m \subseteq S
      BY <2>2
    <3>2. \A i \in S : i \in 1 .. n /\ i <= m
      BY <1>2, <1>4
    <3>3. \A i \in S : i \in 1 .. m
      <4> HIDE DEF S, n
      <4> QED
        BY <1>1, <1>5, <3>2
    <3> HIDE DEF S
    <3> QED
      BY <3>1, <3>3
  <2> QED
    BY <2>1, <2>2
<1>7. count = m
  <2>1. Cardinality(S) = count
    BY DEF CheckDescriptors
  <2>2. Cardinality(1 .. m) = m
    BY <1>1, <1>5, FS_Interval
  <2> HIDE DEF S, count
  <2> QED
    BY <1>6, <2>1, <2>2
<1>8. ASSUME NEW k \in 1 .. m PROVE FromInside(1 .. m, k) = m - k + 1
  <2>1. ASSUME NEW i \in 1 .. m
        PROVE  Cardinality({j \in 1 .. m : j > i}) = k - 1 <=> i = m - k + 1
    <3> DEFINE a == i + 1
    <3>0. m \in Nat /\ i \in Nat /\ i <= m /\ a \in Int /\ k \in Nat
      <4> HIDE DEF n
      <4> QED
        BY <1>1, <1>5
    <3>1. {j \in 1 .. m : j > i} = a .. m
      BY <3>0
    <3>2. Cardinality(a .. m) = IF a > m THEN 0 ELSE m - a + 1
      <4> HIDE DEF a
      <4> QED
        BY <3>0, FS_Interval
    <3>4. (IF a > m THEN 0 ELSE m - a + 1) = m - i
      BY <3>0
    <3>3. Cardinality({j \in 1 .. m : j > i}) = m - i
      <4> HIDE DEF a
      <4> QED
        BY <3>1, <3>2, <3>4
    <3> HIDE DEF a
    <3> QED
      BY <3>0, <3>3
  <2>2. m - k + 1 \in 1 .. m
    <3> HIDE DEF n
    <3> QED
      BY <1>1, <1>5
  <2> QED
    BY <2>1, <2>2 DEF FromInside
<1> HIDE DEF n, S, count
<1> QED
  BY <1>1, <1>5, <1>6, <1>7, <1>8 DEF n, S, count

LEMMA CreatedIs ==
  ASSUME NEW q, IsRequest(q), q.operation # "delete", CheckDescriptors(q), NEW allocation
  PROVE  LET count == Len(q.resources)
             created == Created(q, allocation)
         IN /\ DOMAIN created = 1 .. count /\ Len(created) = count /\ count \in Nat \ {0}
            /\ \A k \in 1 .. count : created[k].iri = allocation.ids[count - k + 1]
            /\ \A k \in 1 .. count :
                 created[k] =
                   Resource(allocation.ids[count - k + 1], Kinds(q)[count - k + 1], FALSE,
                            NewDocument(FillFields(q.document, NewFields(Listed(q), Kinds(q),
                                                                         allocation)),
                                        count - k + 1, Referred(q), allocation.ids))
<1> DEFINE count == Len(q.resources)
           created == Created(q, allocation)
           filled == FillFields(q.document, NewFields(Listed(q), Kinds(q), allocation))
           documents == [i \in Listed(q) |->
                           NewDocument(filled, i, Referred(q), allocation.ids)]
           At(k) == FromInside(Listed(q), k)
<1>1. created = [k \in 1 .. count |->
                   Resource(allocation.ids[At(k)], Kinds(q)[At(k)], FALSE, documents[At(k)])]
  BY DEF Created, NewResources
<1>2. count \in Nat \ {0} /\ Listed(q) = 1 .. count
      /\ \A k \in 1 .. count : At(k) = count - k + 1
  BY ListedIs
<1> HIDE DEF At, count, filled, created
<1>3. ASSUME NEW k \in 1 .. count
      PROVE  created[k] = Resource(allocation.ids[count - k + 1], Kinds(q)[count - k + 1], FALSE,
                                   NewDocument(filled, count - k + 1, Referred(q),
                                               allocation.ids))
  <2>1. At(k) = count - k + 1 /\ count - k + 1 \in Listed(q)
    BY <1>2
  <2>2. documents[count - k + 1] = NewDocument(filled, count - k + 1, Referred(q),
                                               allocation.ids)
    BY <2>1
  <2> HIDE DEF documents
  <2> QED
    BY <1>1, <2>1, <2>2
<1>4. DOMAIN created = 1 .. count /\ Len(created) = count
  BY <1>1, <1>2
<1>5. ASSUME NEW k \in 1 .. count PROVE created[k].iri = allocation.ids[count - k + 1]
  <2> DEFINE whole == NewDocument(filled, count - k + 1, Referred(q), allocation.ids)
  <2>1. created[k] = Resource(allocation.ids[count - k + 1], Kinds(q)[count - k + 1], FALSE,
                              whole)
    BY <1>3
  <2> HIDE DEF whole
  <2> QED
    BY <2>1 DEF Resource
<1> QED
  BY <1>2, <1>3, <1>4, <1>5 DEF count, created, filled

\* Every prepared write creates a resource under an IRI of its own.
SavedIris(resources) == {resources[k].iri : k \in DOMAIN resources}

LEMMA CreatesIris ==
  ASSUME NEW q, IsRequest(q), NEW n, NEW r, ~PrepareWrite(q, Allocate(r, n)).fails,
         r.operation = q.operation
  PROVE  \E iri \in SavedIris(PrepareWrite(q, Allocate(r, n)).resources) : iri # Object
<1> DEFINE allocation == Allocate(r, n)
           resources == PrepareWrite(q, allocation).resources
<1>1. \A i \in DOMAIN allocation.ids : allocation.ids[i] # Object
  BY DEF Allocate, Object
<1>2. CASE q.operation = "create"
  <2> HIDE DEF allocation
  <2>1. PrepareWrite(q, allocation) = PrepareCreate(q, allocation)
        /\ ~PrepareCreate(q, allocation).fails
    BY <1>2 DEF PrepareWrite, allocation
  <2>2. /\ resources = Created(q, allocation) /\ CheckDescriptors(q)
        /\ DOMAIN allocation.ids = Listed(q)
    BY <2>1, CreateIs
  <2>3. /\ DOMAIN resources = 1 .. Len(q.resources) /\ Len(q.resources) \in Nat \ {0}
        /\ resources[1].iri = allocation.ids[Len(q.resources)]
        /\ Len(q.resources) \in Listed(q)
    <3>1. Len(q.resources) \in Nat \ {0} /\ 1 \in 1 .. Len(q.resources)
          /\ Len(q.resources) \in Listed(q) /\ Len(q.resources) - 1 + 1 = Len(q.resources)
      BY <1>2, <2>2, ListedIs
    <3>3. /\ DOMAIN Created(q, allocation) = 1 .. Len(q.resources)
          /\ Created(q, allocation)[1].iri = allocation.ids[Len(q.resources) - 1 + 1]
      <4>1. DOMAIN Created(q, allocation) = 1 .. Len(q.resources)
        BY <1>2, <2>2, CreatedIs
      <4>3. \A k \in 1 .. Len(q.resources) :
              Created(q, allocation)[k].iri = allocation.ids[Len(q.resources) - k + 1]
        BY <1>2, <2>2, CreatedIs
      <4> QED
        BY <3>1, <4>1, <4>3
    <3> HIDE DEF resources
    <3> QED
      BY <2>2, <3>1, <3>3
  <2>4. resources[1].iri \in SavedIris(resources) /\ resources[1].iri # Object
    <3> HIDE DEF resources
    <3> QED
      BY <1>1, <2>2, <2>3 DEF SavedIris, allocation
  <2> QED
    BY <2>4 DEF allocation
<1>3. CASE q.operation \in {"edit", "delete"}
  <2>1. DOMAIN allocation.ids = {1}
    BY <1>3 DEF Allocate
  <2>2. \E k \in DOMAIN resources : resources[k].iri = allocation.ids[1]
    <3> HIDE DEF allocation
    <3>1. CASE q.operation = "edit"
      <4>1. PrepareWrite(q, allocation) = PrepareEdit(q, allocation)
            /\ ~PrepareEdit(q, allocation).fails
        BY <3>1 DEF PrepareWrite, allocation
      <4>2. resources = Edited(q.document, allocation, HeadNode, object.columns # <<>>)
        BY <4>1, EditIs
      <4>3. 2 \in DOMAIN resources /\ resources[2].iri = allocation.ids[1]
        BY <4>2 DEF Edited, EditResources, Resource
      <4> QED
        BY <4>3
    <3>2. CASE q.operation = "delete"
      <4>1. PrepareWrite(q, allocation) = PrepareDelete(q, allocation)
            /\ ~PrepareDelete(q, allocation).fails
        BY <3>2 DEF PrepareWrite, allocation
      <4>2. resources = Deleted(allocation, HeadRevision.document.nodes, object.addressing)
        BY <4>1, DeleteIs
      <4>3. 1 \in DOMAIN resources /\ resources[1].iri = allocation.ids[1]
        BY <4>2 DEF Deleted, Resource
      <4> QED
        BY <4>3
    <3> QED
      BY <1>3, <3>1, <3>2
  <2> QED
    BY <1>1, <2>1, <2>2 DEF SavedIris
<1> QED
  BY <1>2, <1>3 DEF IsRequest

\* What the server's values leave of a document.
LEMMA NodeWith ==
  ASSUME NEW n, IsNode(n), NEW F, DOMAIN F = DOMAIN n.fields,
         F = [p \in DOMAIN F |-> F[p]]
  PROVE  LET m == [n EXCEPT !.fields = F] IN
         /\ IsNode(m) /\ m.fields = F
         /\ m.type = n.type /\ m.property = n.property /\ m.to = n.to
         /\ m.context = n.context /\ m.content = n.content
         /\ m.respelled = n.respelled /\ m.valid = n.valid
<1> DEFINE m == [n EXCEPT !.fields = F]
<1>1. m = [type |-> n.type, property |-> n.property, to |-> n.to, context |-> n.context,
           content |-> n.content, respelled |-> n.respelled, valid |-> n.valid, fields |-> F]
  BY DEF IsNode
<1>2. DOMAIN F = {"id", "actor", "attributedTo", "published", "updated"}
  BY DEF IsNode
<1>3. F = [id |-> F.id, actor |-> F.actor, attributedTo |-> F.attributedTo,
           published |-> F.published, updated |-> F.updated]
  BY <1>2
<1> HIDE DEF m
<1>4. IsNode(m)
  BY <1>1, <1>3 DEF IsNode
<1> QED
  BY <1>1, <1>4 DEF m

OwnedValue(owned_, i, p, value) ==
  IF \E f \in owned_ : f.at = i /\ f.property = p
  THEN (CHOOSE f \in owned_ : f.at = i /\ f.property = p).value ELSE value

LEMMA FillFieldsIs ==
  ASSUME NEW nodes, IsDocument(nodes), NEW own
  PROVE  LET filled == FillFields(nodes, own) IN
         /\ IsDocument(filled)
         /\ DOMAIN filled = DOMAIN nodes /\ Len(filled) = Len(nodes)
         /\ \A i \in DOMAIN nodes :
              /\ filled[i].type = nodes[i].type /\ filled[i].property = nodes[i].property
              /\ filled[i].to = nodes[i].to /\ filled[i].context = nodes[i].context
              /\ filled[i].valid = nodes[i].valid
              /\ \A p \in DOMAIN nodes[i].fields :
                   filled[i].fields[p] = OwnedValue(own, i, p, nodes[i].fields[p])
<1> DEFINE filled == FillFields(nodes, own)
           F(i) == [p \in DOMAIN nodes[i].fields |-> OwnedValue(own, i, p, nodes[i].fields[p])]
<1>1. filled = [i \in DOMAIN nodes |-> [nodes[i] EXCEPT !.fields = F(i)]]
  BY DEF FillFields, OwnedValue
<1>2. Len(nodes) \in Nat /\ DOMAIN nodes = 1 .. Len(nodes) /\ nodes # <<>>
  BY SeqIs DEF IsDocument
<1>3. ASSUME NEW i \in DOMAIN nodes
      PROVE  /\ IsNode(filled[i]) /\ filled[i].fields = F(i)
             /\ filled[i].type = nodes[i].type /\ filled[i].property = nodes[i].property
             /\ filled[i].to = nodes[i].to /\ filled[i].context = nodes[i].context
             /\ filled[i].valid = nodes[i].valid
  <2> DEFINE G == F(i)
  <2>1. IsNode(nodes[i]) /\ DOMAIN G = DOMAIN nodes[i].fields /\ G = [p \in DOMAIN G |-> G[p]]
    BY DEF IsDocument
  <2>2. filled[i] = [nodes[i] EXCEPT !.fields = G]
    BY <1>1
  <2> HIDE DEF G, filled
  <2>3. /\ IsNode(filled[i]) /\ filled[i].fields = G
        /\ filled[i].type = nodes[i].type /\ filled[i].property = nodes[i].property
        /\ filled[i].to = nodes[i].to /\ filled[i].context = nodes[i].context
        /\ filled[i].valid = nodes[i].valid
    BY <2>1, <2>2, NodeWith
  <2> QED
    BY <2>3 DEF G
<1>4. Len(filled) = Len(nodes) /\ DOMAIN filled = DOMAIN nodes
  BY <1>1, <1>2
<1>5. IsSeq(filled) /\ filled # <<>>
  <2> DEFINE T == {filled[i] : i \in DOMAIN filled}
  <2>1. filled = [i \in 1 .. Len(nodes) |-> filled[i]]
    BY <1>1, <1>2
  <2>2. \A i \in 1 .. Len(nodes) : filled[i] \in T
    BY <1>2, <1>4
  <2> HIDE DEF filled, T, F
  <2>3. filled \in [1 .. Len(nodes) -> T]
    BY <2>1, <2>2
  <2>4. filled \in Seq(T)
    BY <1>2, <2>3
  <2>5. filled # <<>>
    <3>1. Len(nodes) # 0
      BY <1>2, EmptySeq DEF IsDocument, IsSeq
    <3> QED
      BY <1>2, <1>4, <3>1
  <2> QED
    BY <2>4, <2>5 DEF IsSeq, T
<1>6. IsDocument(filled)
  <2> HIDE DEF filled
  <2> QED
    BY <1>3, <1>4, <1>5 DEF IsDocument
<1>7. \A i \in DOMAIN nodes : \A p \in DOMAIN nodes[i].fields :
        filled[i].fields[p] = OwnedValue(own, i, p, nodes[i].fields[p])
  BY <1>3
<1> HIDE DEF filled, F
<1> QED
  BY <1>3, <1>4, <1>6, <1>7 DEF filled

LEMMA RecognizedIs ==
  ASSUME NEW nodes, IsDocument(nodes), NEW current, NEW typed \in BOOLEAN
  PROVE  LET e == Recognized(nodes, current, typed) IN
         /\ IsDocument(e) /\ DOMAIN e = DOMAIN nodes /\ Len(e) = Len(nodes)
         /\ \A i \in DOMAIN nodes \ {1} : e[i] = nodes[i]
         /\ 1 \in DOMAIN nodes /\ e[1].valid = nodes[1].valid
<1> DEFINE e == Recognized(nodes, current, typed)
           n == nodes[1]
           updated == IF n.fields.updated = current.fields.updated THEN Absent
                      ELSE n.fields.updated
           context == IF /\ typed /\ n.context = current.context
                         /\ n.context \notin TypedContexts
                      THEN {"as", "sensitive"} ELSE n.context
           m == [type |-> n.type, property |-> n.property, to |-> n.to, context |-> context,
                 content |-> n.content, respelled |-> n.respelled, valid |-> n.valid,
                 fields |-> [id |-> n.fields.id, actor |-> n.fields.actor,
                             attributedTo |-> n.fields.attributedTo,
                             published |-> n.fields.published, updated |-> updated]]
<1>1. 1 \in DOMAIN nodes
  <2>1. Len(nodes) \in Nat \ {0}
    BY EmptySeq DEF IsDocument, IsSeq
  <2> QED
    BY <2>1, SeqIs DEF IsDocument
<1>2. IsNode(n)
  BY <1>1 DEF IsDocument
<1>3. [n EXCEPT !.fields.updated = updated, !.context = context] = m
  <2> DEFINE f == [n.fields EXCEPT !.updated = updated]
             g == [id |-> n.fields.id, actor |-> n.fields.actor,
                   attributedTo |-> n.fields.attributedTo,
                   published |-> n.fields.published, updated |-> updated]
  <2> HIDE DEF updated, context
  <2>1. f = g
    <3>1. n.fields = [id |-> n.fields.id, actor |-> n.fields.actor,
                      attributedTo |-> n.fields.attributedTo,
                      published |-> n.fields.published, updated |-> n.fields.updated]
      BY <1>2 DEF IsNode
    <3> DEFINE h == n.fields
    <3> HIDE DEF h
    <3>2. [h EXCEPT !.updated = updated] = [id |-> h.id, actor |-> h.actor,
             attributedTo |-> h.attributedTo, published |-> h.published, updated |-> updated]
      BY <3>1 DEF h
    <3> QED
      BY <3>2 DEF h
  <2>2. [n EXCEPT !.fields.updated = updated, !.context = context]
          = [n EXCEPT !.fields = f, !.context = context]
    OBVIOUS
  <2>3. n = [type |-> n.type, property |-> n.property, to |-> n.to, context |-> n.context,
             content |-> n.content, respelled |-> n.respelled, valid |-> n.valid,
             fields |-> n.fields]
    BY <1>2 DEF IsNode
  <2>4. [n EXCEPT !.fields = g, !.context = context] = m
    <3> HIDE DEF g
    <3> DEFINE l == [n EXCEPT !.fields = g]
    <3>1. l = [type |-> n.type, property |-> n.property, to |-> n.to, context |-> n.context,
               content |-> n.content, respelled |-> n.respelled, valid |-> n.valid,
               fields |-> g]
      BY <2>3
    <3>2. [n EXCEPT !.fields = g, !.context = context] = [l EXCEPT !.context = context]
      OBVIOUS
    <3> HIDE DEF l
    <3>3. [l EXCEPT !.context = context] =
            [type |-> n.type, property |-> n.property, to |-> n.to, context |-> context,
             content |-> n.content, respelled |-> n.respelled, valid |-> n.valid, fields |-> g]
      BY <3>1
    <3> QED
      BY <3>2, <3>3 DEF g
  <2> QED
    BY <2>1, <2>2, <2>4
<1>4. e = [nodes EXCEPT ![1] = m]
  <2>1. e = [nodes EXCEPT ![1] = [n EXCEPT !.fields.updated = updated, !.context = context]]
    BY <1>1 DEF Recognized
  <2> HIDE DEF e, m, updated, context
  <2> QED
    BY <1>3, <2>1
<1> HIDE DEF e
<1>5. IsNode(m) /\ m.valid = n.valid
  BY DEF IsNode
<1> HIDE DEF m
<1>6. IsSeq(e) /\ DOMAIN e = DOMAIN nodes /\ Len(e) = Len(nodes) /\ e # <<>>
  BY <1>1, <1>4, SeqUpdate DEF IsDocument
<1>7. e[1] = m /\ \A i \in DOMAIN nodes \ {1} : e[i] = nodes[i]
  BY <1>1, <1>4
<1>8. IsDocument(e)
  BY <1>1, <1>5, <1>6, <1>7 DEF IsDocument
<1> QED
  BY <1>1, <1>5, <1>6, <1>7, <1>8 DEF e

\* The object after a commit and after its row was rewritten.
LEMMA ProjectedIs ==
  ASSUME NEW document_, NEW legacy
  PROVE  LET columns == ProjectTypedObject(document_, legacy)
         IN columns # <<>> => columns = <<columns[1]>>
BY DEF ProjectTypedObject

LEMMA TargetIs ==
  ASSUME NEW o, IsTarget(o)
  PROVE  /\ Len(o.history) \in Nat \ {0} /\ DOMAIN o.history = 1 .. Len(o.history)
         /\ IsDocument(Newest(o).document.nodes)
<1>1. IsSeq(o.history) /\ o.history # <<>> /\ IsDocument(Newest(o).document.nodes)
  BY DEF IsTarget, Newest
<1> QED
  BY <1>1, SeqIs, EmptySeq DEF IsSeq

LEMMA EditedTarget ==
  ASSUME IsTarget(object), NEW q, IsRequest(q), q.operation = "edit", NEW allocation,
         ~PrepareEdit(q, allocation).fails
  PROVE  LET o == WriteVersion(q, PrepareEdit(q, allocation))
         IN /\ IsTarget(o) /\ Len(o.history) = Len(object.history) + 1
            /\ o.columns = <<>> <=> object.columns = <<>>
<1> DEFINE prepared == PrepareEdit(q, allocation)
           nodes == Recognized(q.document, HeadNode, object.columns # <<>>)
           version == Version(nodes, allocation, HeadNode)
           revision == [kind |-> "snapshot", local |-> TRUE, document |-> version]
           o == WriteVersion(q, prepared)
<1>1. /\ prepared.resources = EditResources(nodes, allocation, version)
      /\ prepared.columns = IF object.columns = <<>> THEN <<>>
                            ELSE ProjectTypedObject(version, FALSE)
      /\ object.columns # <<>> => prepared.columns # <<>>
      /\ Readable(nodes)
  BY EditIs DEF Edited
<1>2. o = [history |-> Append(object.history,
                         [kind |-> "snapshot", local |-> TRUE,
                          document |-> prepared.resources[1].document]),
           columns |-> prepared.columns,
           addressing |-> Addressees(prepared.resources[1].document.nodes[1].to)]
  BY DEF WriteVersion
<1>3. prepared.resources[1].document = version
  <2> HIDE DEF prepared, version, nodes
  <2> QED
    BY <1>1 DEF EditResources, Resource
<1>4. IsDocument(nodes) /\ IsDocument(version.nodes) /\ Readable(version.nodes)
  <2>1. IsDocument(q.document)
    BY DEF IsRequest
  <2>2. IsDocument(nodes)
    BY <2>1, RecognizedIs
  <2> DEFINE own == EditFields(allocation, HeadNode.fields.published)
  <2>3. version.nodes = FillFields(nodes, own)
    BY DEF Version
  <2> HIDE DEF nodes, version, own
  <2>4. /\ IsDocument(version.nodes) /\ DOMAIN version.nodes = DOMAIN nodes
        /\ \A i \in DOMAIN nodes : /\ version.nodes[i].context = nodes[i].context
                                   /\ version.nodes[i].valid = nodes[i].valid
    BY <2>2, <2>3, FillFieldsIs
  <2>5. 1 \in DOMAIN nodes
    BY <2>2, SeqIs, EmptySeq DEF IsDocument, IsSeq
  <2>6. Readable(version.nodes)
    BY <1>1, <2>4, <2>5 DEF Readable
  <2> QED
    BY <2>2, <2>4, <2>6
<1>5. /\ o.history = Append(object.history, revision) /\ o.columns = prepared.columns
      /\ o.addressing = Addressees(version.nodes[1].to)
      /\ o = [history |-> o.history, columns |-> o.columns, addressing |-> o.addressing]
  <2> HIDE DEF o, prepared, version
  <2> QED
    BY <1>2, <1>3
<1>6. IsSeq(object.history) /\ Len(object.history) \in Nat
  BY SeqIs DEF IsTarget
<1>7. /\ IsSeq(o.history) /\ o.history # <<>> /\ Len(o.history) = Len(object.history) + 1
      /\ o.history[Len(o.history)] = revision
  <2> DEFINE h == Append(object.history, revision)
  <2> HIDE DEF o, prepared, version, revision
  <2>1. /\ IsSeq(h) /\ h # <<>> /\ Len(h) = Len(object.history) + 1
        /\ h[Len(object.history) + 1] = revision
    BY <1>6, SeqAppend
  <2>2. o.history = h
    BY <1>5
  <2> HIDE DEF h
  <2> QED
    BY <2>1, <2>2
<1>8. revision = [kind |-> revision.kind, local |-> revision.local,
                  document |-> revision.document]
      /\ revision.document = version
  OBVIOUS
<1>9. prepared.columns # <<>> => prepared.columns = <<prepared.columns[1]>>
  <2> HIDE DEF prepared, version
  <2> QED
    BY <1>1, ProjectedIs
<1> HIDE DEF o, prepared, version, revision, nodes
<1>10. IsTarget(o)
  BY <1>4, <1>5, <1>7, <1>8, <1>9 DEF IsTarget
<1>11. o.columns = <<>> <=> object.columns = <<>>
  BY <1>1, <1>5
<1> QED
  BY <1>7, <1>10, <1>11 DEF o, prepared

LEMMA DeletedTarget ==
  ASSUME IsTarget(object), NEW q, q.operation = "delete", NEW prepared
  PROVE  LET o == WriteVersion(q, prepared)
         IN /\ IsTarget(o) /\ Len(o.history) = Len(object.history) + 1
            /\ o.columns = object.columns
<1> DEFINE whiteout == [HeadRevision EXCEPT !.kind = "whiteout"]
           o == WriteVersion(q, prepared)
<1>1. o = [object EXCEPT !.history = Append(object.history, whiteout)]
  BY DEF WriteVersion
<1>2. whiteout = [kind |-> "whiteout", local |-> HeadRevision.local,
                  document |-> HeadRevision.document]
  BY DEF IsTarget, HeadRevision
<1>3. o = [history |-> Append(object.history, whiteout), columns |-> object.columns,
           addressing |-> object.addressing]
  <2> HIDE DEF whiteout, o
  <2> QED
    BY <1>1 DEF IsTarget
<1> HIDE DEF whiteout, o
<1>4. /\ IsSeq(o.history) /\ o.history # <<>> /\ Len(o.history) = Len(object.history) + 1
      /\ o.history[Len(o.history)] = whiteout
  BY <1>3, SeqAppend DEF IsTarget
<1>5. IsTarget(o)
  BY <1>2, <1>3, <1>4 DEF IsTarget, HeadRevision
<1> QED
  BY <1>3, <1>4, <1>5 DEF o

LEMMA RewrittenTarget ==
  ASSUME IsTarget(object), RewriteColumns
  PROVE  /\ IsTarget(object') /\ object'.history = object.history
         /\ object'.addressing = object.addressing
         /\ object'.columns # <<>> /\ object.columns # <<>>
<1> DEFINE c == object.columns[1]
           d == [c EXCEPT !.content = "foreign"]
<1>1. object.columns = <<c>>
  BY DEF IsTarget, RewriteColumns
<1>2. object' = [object EXCEPT !.columns = [object.columns EXCEPT ![1] = d]]
  BY DEF RewriteColumns
<1> HIDE DEF d
<1>3. [object.columns EXCEPT ![1] = d] = <<d>>
  <2> HIDE DEF c
  <2> QED
    BY <1>1
<1>4. object' = [history |-> object.history, columns |-> <<d>>, addressing |-> object.addressing]
  <2> DEFINE e == [object.columns EXCEPT ![1] = d]
  <2>1. object' = [history |-> object.history, columns |-> e, addressing |-> object.addressing]
    <3> HIDE DEF e
    <3> QED
      BY <1>2 DEF IsTarget, e
  <2> QED
    BY <1>3, <2>1
<1>5. /\ object'.history = object.history /\ object'.columns = <<d>>
      /\ object'.addressing = object.addressing
      /\ object' = [history |-> object'.history, columns |-> object'.columns,
                    addressing |-> object'.addressing]
  BY <1>4
<1>6. IsTarget(object')
  BY <1>5 DEF IsTarget
<1> QED
  BY <1>5, <1>6 DEF RewriteColumns

\* A preview's token keeps what it showed: of a creation for ever, of a change until
\* the history it expects has grown.
PreviewOK(n) ==
  /\ issued[n] = [account |-> issued[n].account, request |-> issued[n].request,
                  allocation |-> issued[n].allocation, expired |-> issued[n].expired,
                  shown |-> issued[n].shown]
  /\ issued[n].allocation = Allocate(issued[n].request, n)
  /\ \/ issued[n].request.operation = "create"
     \/ issued[n].request.expected \in 1 .. Len(object.history)
  /\ issued[n].request.operation = "create"
       \/ issued[n].request.expected = Len(object.history) =>
     issued[n].shown = Shown(object, issued[n].request, issued[n].allocation)
SaveOK(k) ==
  /\ saved[k].token \in DOMAIN issued
  /\ saved[k].resources = issued[saved[k].token].shown
  /\ saved[k].account = issued[saved[k].token].account
  /\ SavedIris(saved[k].resources) \ {Object} # {}
  /\ SavedIris(saved[k].resources) \ {Object} \subseteq known
WritesInv ==
  /\ IsTarget(object) /\ IsSeq(issued) /\ IsSeq(saved)
  /\ \A n \in DOMAIN issued : PreviewOK(n)
  /\ \A k \in DOMAIN saved : SaveOK(k)
  /\ \A j, k \in DOMAIN saved : saved[j].token = saved[k].token => j = k

LEMMA WritesInitially == PreparationInit => WritesInv
<1> SUFFICES ASSUME PreparationInit PROVE WritesInv
  OBVIOUS
<1>1. IsTarget(object) /\ issued = <<>> /\ saved = <<>>
  BY WriteAssumption DEF PreparationInit
<1>2. IsSeq(<<>>) /\ DOMAIN <<>> = {}
  BY EmptySeq DEF IsSeq
<1> QED
  BY <1>1, <1>2 DEF WritesInv

LEMMA AllocatedAlike ==
  ASSUME NEW q, IsRequest(q), NEW n
  PROVE  Allocate(Bindable(q), n) = Allocate(q, n)
BY CreatedBound, BindableIs DEF Allocate

LEMMA PreviewStep ==
  ASSUME WritesInv, NEW a, NEW q \in WriteRequests, PreviewLocalWrite(a, q)
  PROVE  WritesInv'
<1> DEFINE n == Len(issued) + 1
           allocation == Allocate(q, n)
           prepared == PrepareWrite(q, allocation)
           p == [account |-> a, request |-> Bindable(q), allocation |-> allocation,
                 expired |-> FALSE, shown |-> prepared.resources]
<1>1. /\ ~prepared.fails /\ issued' = Append(issued, p)
      /\ UNCHANGED <<object, living, known, saved>>
  BY DEF PreviewLocalWrite
<1>2. IsRequest(q)
  BY WriteAssumption
<1>3. /\ IsSeq(issued') /\ DOMAIN issued' = 1 .. n /\ n \in Nat /\ DOMAIN issued = 1 .. (n - 1)
      /\ \A m \in DOMAIN issued : issued'[m] = issued[m]
      /\ issued'[n] = p
  <2>1. IsSeq(issued)
    BY DEF WritesInv
  <2> HIDE DEF p
  <2> QED
    BY <1>1, <2>1, SeqAppend, SeqIs
<1>4. ASSUME NEW m \in DOMAIN issued PROVE PreviewOK(m)'
  <2>1. PreviewOK(m) /\ issued'[m] = issued[m] /\ object' = object
    BY <1>1, <1>3 DEF WritesInv
  <2> QED
    BY <2>1 DEF PreviewOK
<1>5. ASSUME NEW m \in Nat, m = n PROVE PreviewOK(m)'
  <2>1. allocation = Allocate(Bindable(q), n)
    BY <1>2, AllocatedAlike
  <2>2. /\ prepared.resources = Shown(object, Bindable(q), allocation)
        /\ Bindable(q).operation # "create" => Bindable(q).expected = Len(object.history)
    <3> HIDE DEF allocation
    <3> QED
      BY <1>1, <1>2, PreparedIs
  <2>3. Len(object.history) \in Nat \ {0}
    BY TargetIs DEF WritesInv
  <2> HIDE DEF prepared, allocation, n
  <2>4. /\ p.account = a /\ p.request = Bindable(q) /\ p.allocation = allocation
        /\ p.expired = FALSE /\ p.shown = prepared.resources
    OBVIOUS
  <2>5. p = [account |-> p.account, request |-> p.request, allocation |-> p.allocation,
             expired |-> p.expired, shown |-> p.shown]
    OBVIOUS
  <2>6. allocation = Allocate(Bindable(q), m)
    BY <1>5, <2>1
  <2> HIDE DEF p
  <2>7. issued'[m] = p /\ object' = object
    BY <1>1, <1>3, <1>5
  <2> QED
    BY <2>2, <2>3, <2>4, <2>5, <2>6, <2>7 DEF PreviewOK
<1>6. \A m \in DOMAIN issued' : m \in DOMAIN issued \/ m = n
  BY <1>3
<1>7. \A k \in DOMAIN saved : SaveOK(k)'
  <2>1. DOMAIN issued \subseteq DOMAIN issued'
    BY <1>3
  <2> QED
    BY <1>1, <1>3, <2>1 DEF WritesInv, SaveOK
<1>8. \A m \in DOMAIN issued' : PreviewOK(m)'
  BY <1>3, <1>4, <1>5, <1>6
<1> HIDE DEF n, p
<1> QED
  BY <1>1, <1>3, <1>7, <1>8 DEF WritesInv

LEMMA ExpireStep ==
  ASSUME WritesInv, NEW n \in DOMAIN issued, Expire(n)
  PROVE  WritesInv'
<1> DEFINE p == [issued[n] EXCEPT !.expired = TRUE]
<1>1. issued' = [issued EXCEPT ![n] = p] /\ UNCHANGED <<object, living, known, saved>>
  BY DEF Expire
<1>2. p = [account |-> issued[n].account, request |-> issued[n].request,
           allocation |-> issued[n].allocation, expired |-> TRUE, shown |-> issued[n].shown]
  <2> DEFINE x == issued[n]
  <2>1. x = [account |-> x.account, request |-> x.request, allocation |-> x.allocation,
             expired |-> x.expired, shown |-> x.shown]
    BY DEF WritesInv, PreviewOK
  <2> HIDE DEF x
  <2>2. \A v : [x EXCEPT !.expired = v] =
          [account |-> x.account, request |-> x.request, allocation |-> x.allocation,
           expired |-> v, shown |-> x.shown]
    BY <2>1
  <2> QED
    BY <2>2 DEF x
<1> HIDE DEF p
<1>3. IsSeq(issued') /\ DOMAIN issued' = DOMAIN issued
  BY <1>1, SeqUpdate DEF WritesInv
<1>4. \A m \in DOMAIN issued :
        /\ issued'[m].account = issued[m].account /\ issued'[m].request = issued[m].request
        /\ issued'[m].allocation = issued[m].allocation /\ issued'[m].shown = issued[m].shown
        /\ issued'[m] = IF m = n THEN p ELSE issued[m]
  BY <1>1, <1>2
<1>5. \A m \in DOMAIN issued : PreviewOK(m)'
  BY <1>1, <1>2, <1>4 DEF WritesInv, PreviewOK
<1>6. \A k \in DOMAIN saved : SaveOK(k)'
  BY <1>1, <1>3, <1>4 DEF WritesInv, SaveOK
<1> QED
  BY <1>1, <1>3, <1>5, <1>6 DEF WritesInv

LEMMA CommitStep ==
  ASSUME WritesInv, NEW a, NEW q \in WriteRequests, NEW n \in DOMAIN issued,
         CommitLocalWrite(a, q, n)
  PROVE  WritesInv'
<1> DEFINE allocation == issued[n].allocation
           prepared == PrepareWrite(q, allocation)
           resources == prepared.resources
           created == SavedIris(resources) \ {Object}
           s == [token |-> n, account |-> a, resources |-> resources, living |-> living,
                 before |-> object]
<1>1. /\ issued[n].account = a /\ issued[n].request = Bindable(q)
      /\ ~prepared.fails /\ created \intersect known = {}
      /\ object' = WriteVersion(q, prepared) /\ known' = known \union created
      /\ saved' = Append(saved, s) /\ UNCHANGED <<living, issued>>
  BY DEF CommitLocalWrite, ReadToken, SavedIris
<1>2. IsRequest(q) /\ Bindable(q).operation = q.operation /\ Bindable(q).expected = q.expected
  BY WriteAssumption, BindableIs
<1>3. PreviewOK(n) /\ IsTarget(object) /\ allocation = Allocate(issued[n].request, n)
  BY DEF WritesInv, PreviewOK
<1>4. /\ resources = Shown(object, issued[n].request, allocation)
      /\ issued[n].request.operation # "create" =>
           issued[n].request.expected = Len(object.history)
  <2> HIDE DEF allocation
  <2> QED
    BY <1>1, <1>2, PreparedIs
<1>5. resources = issued[n].shown
  BY <1>3, <1>4 DEF PreviewOK
<1>6. created # {}
  <2> DEFINE r == Bindable(q)
  <2>1. \E iri \in SavedIris(PrepareWrite(q, Allocate(r, n)).resources) : iri # Object
    <3>1. ~PrepareWrite(q, Allocate(r, n)).fails
      BY <1>1, <1>3
    <3> HIDE DEF r
    <3> QED
      BY <1>2, <3>1, CreatesIris DEF r
  <2> QED
    BY <1>1, <1>3, <2>1
<1>7. /\ IsTarget(object')
      /\ q.operation = "create" => object' = object
      /\ q.operation # "create" => Len(object'.history) = Len(object.history) + 1
  <2>1. CASE q.operation = "create"
    <3>1. object' = object
      BY <1>1, <2>1 DEF WriteVersion
    <3> QED
      BY <1>3, <2>1, <3>1
  <2>2. CASE q.operation = "edit"
    <3>1. prepared = PrepareEdit(q, allocation)
      BY <2>2 DEF PrepareWrite
    <3> HIDE DEF allocation, prepared
    <3> QED
      BY <1>1, <1>2, <1>3, <2>2, <3>1, EditedTarget
  <2>3. CASE q.operation = "delete"
    <3> HIDE DEF prepared
    <3> QED
      BY <1>1, <1>3, <2>3, DeletedTarget
  <2> QED
    BY <1>2, <2>1, <2>2, <2>3 DEF IsRequest
<1>8. ASSUME NEW m \in DOMAIN issued PROVE PreviewOK(m)'
  <2>1. PreviewOK(m) /\ issued' = issued /\ Len(object.history) \in Nat \ {0}
    BY <1>1, <1>3, TargetIs DEF WritesInv
  <2>2. CASE q.operation = "create"
    BY <1>7, <2>1, <2>2 DEF PreviewOK
  <2>3. CASE q.operation # "create"
    <3>1. issued[m].request.operation = "create" =>
            Shown(object', issued[m].request, issued[m].allocation) =
            Shown(object, issued[m].request, issued[m].allocation)
      BY DEF Shown
    <3>2. issued[m].request.operation # "create" =>
            /\ issued[m].request.expected \in 1 .. Len(object'.history)
            /\ issued[m].request.expected # Len(object'.history)
      BY <1>7, <2>1, <2>3 DEF PreviewOK
    <3> QED
      BY <2>1, <3>1, <3>2 DEF PreviewOK
  <2> QED
    BY <2>2, <2>3
<1>9. /\ IsSeq(saved') /\ DOMAIN saved' = 1 .. Len(saved) + 1 /\ Len(saved) \in Nat
      /\ DOMAIN saved = 1 .. Len(saved)
      /\ \A k \in DOMAIN saved : saved'[k] = saved[k]
      /\ saved'[Len(saved) + 1] = s
  <2>1. IsSeq(saved)
    BY DEF WritesInv
  <2> HIDE DEF s
  <2> QED
    BY <1>1, <2>1, SeqAppend, SeqIs
<1> HIDE DEF created
<1>10. \A k \in DOMAIN saved : saved[k].token # n
  <2> SUFFICES ASSUME NEW k \in DOMAIN saved, saved[k].token = n PROVE FALSE
    OBVIOUS
  <2>1. SaveOK(k)
    BY DEF WritesInv
  <2>2. SavedIris(saved[k].resources) \ {Object} = created
    BY <1>5, <2>1 DEF SaveOK, created
  <2> QED
    BY <1>1, <1>6, <2>1, <2>2 DEF SaveOK
<1>11. ASSUME NEW k \in DOMAIN saved' PROVE SaveOK(k)'
  <2>1. CASE k \in DOMAIN saved
    <3>1. SaveOK(k) /\ saved'[k] = saved[k] /\ issued' = issued /\ known \subseteq known'
      BY <1>1, <1>9, <2>1 DEF WritesInv
    <3> QED
      BY <3>1 DEF SaveOK
  <2>2. CASE k = Len(saved) + 1
    <3>1. /\ saved'[k].token = n /\ saved'[k].account = a /\ saved'[k].resources = resources
      BY <1>9, <2>2
    <3> HIDE DEF resources
    <3>2. SavedIris(resources) \ {Object} = created
      BY DEF created
    <3> QED
      BY <1>1, <1>5, <1>6, <3>1, <3>2 DEF SaveOK
  <2> QED
    BY <1>9, <2>1, <2>2
<1>12. \A j, k \in DOMAIN saved' : saved'[j].token = saved'[k].token => j = k
  <2>1. s.token = n
    OBVIOUS
  <2> HIDE DEF s
  <2>2. \A k \in DOMAIN saved' : k \in DOMAIN saved \/ k = Len(saved) + 1
    BY <1>9
  <2> QED
    BY <1>9, <1>10, <2>1, <2>2 DEF WritesInv
<1> QED
  BY <1>1, <1>7, <1>8, <1>9, <1>11, <1>12 DEF WritesInv

LEMMA OthersStep ==
  ASSUME WritesInv, DeleteColleague \/ PromoteMentioned
                    \/ RewriteColumns \/ UNCHANGED preparationVars
  PROVE  WritesInv'
<1>1. UNCHANGED <<issued, saved>> /\ known \subseteq known'
  BY DEF DeleteColleague, PromoteMentioned, RewriteColumns, preparationVars
<1>2. /\ IsTarget(object') /\ object'.history = object.history
      /\ object'.addressing = object.addressing
      /\ (object'.columns # <<>>) = (object.columns # <<>>)
  <2>1. CASE RewriteColumns
    BY <2>1, RewrittenTarget DEF WritesInv
  <2>2. CASE object' = object
    BY <2>2 DEF WritesInv
  <2> QED
    BY <2>1, <2>2 DEF DeleteColleague, PromoteMentioned, preparationVars
<1>3. \A b, allocation : Shown(object', b, allocation) = Shown(object, b, allocation)
  BY <1>2 DEF Shown, Newest
<1>4. \A n \in DOMAIN issued : PreviewOK(n)'
  BY <1>1, <1>2, <1>3 DEF WritesInv, PreviewOK
<1>5. \A k \in DOMAIN saved : SaveOK(k)'
  BY <1>1 DEF WritesInv, SaveOK
<1> QED
  BY <1>1, <1>2, <1>4, <1>5 DEF WritesInv

LEMMA WritesInvariant == PreparationSpec => []WritesInv
<1>1. WritesInv /\ [PreparationNext]_preparationVars => WritesInv'
  <2> SUFFICES ASSUME WritesInv, [PreparationNext]_preparationVars PROVE WritesInv'
    OBVIOUS
  <2>1. ASSUME NEW a \in WriterAccounts, NEW q \in WriteRequests, PreviewLocalWrite(a, q)
        PROVE  WritesInv'
    BY <2>1, PreviewStep
  <2>2. ASSUME NEW a \in WriterAccounts, NEW q \in WriteRequests, NEW n \in DOMAIN issued,
               CommitLocalWrite(a, q, n)
        PROVE  WritesInv'
    BY <2>2, CommitStep
  <2>3. ASSUME NEW n \in DOMAIN issued, Expire(n) PROVE WritesInv'
    BY <2>3, ExpireStep
  <2>4. CASE DeleteColleague \/ PromoteMentioned \/ RewriteColumns
             \/ UNCHANGED preparationVars
    BY <2>4, OthersStep
  <2> QED
    BY <2>1, <2>2, <2>3, <2>4 DEF PreparationNext
<1> QED
  BY <1>1, WritesInitially, PTL DEF PreparationSpec

\* Whatever is stored, deleted or rewritten between a preview and a commit, a token
\* saves at most once, and then exactly what its preview showed, to the account that
\* asked (previewLocalWrite() and commitLocalWrite() in federation/src/local-write).
THEOREM TokensSavePreviews == PreparationSpec => []PreviewIsSaved
<1>1. WritesInv => PreviewIsSaved
  <2> SUFFICES ASSUME WritesInv, NEW k \in DOMAIN saved
               PROVE  /\ saved[k].resources = issued[saved[k].token].shown
                      /\ saved[k].account = issued[saved[k].token].account
                      /\ \A j \in 1 .. k - 1 : saved[j].token # saved[k].token
    BY DEF PreviewIsSaved
  <2>1. SaveOK(k) /\ DOMAIN saved = 1 .. Len(saved) /\ Len(saved) \in Nat
    BY SeqIs DEF WritesInv
  <2>2. \A j \in 1 .. k - 1 : j \in DOMAIN saved /\ j # k
    BY <2>1
  <2> QED
    BY <2>1, <2>2 DEF WritesInv, SaveOK
<1> QED
  BY <1>1, WritesInvariant, PTL

-----------------------------------------------------------------------------
(* What is saved makes no claim that is not its own.                        *)

LEMMA NodeKeeps ==
  ASSUME NEW n, IsNode(n), NEW context, NEW property
  PROVE  LET m == [n EXCEPT !.context = context, !.property = property]
         IN m.fields = n.fields /\ m.to = n.to
<1> DEFINE l == [n EXCEPT !.context = context]
<1>1. l = [type |-> n.type, property |-> n.property, to |-> n.to, context |-> context,
           content |-> n.content, respelled |-> n.respelled, valid |-> n.valid,
           fields |-> n.fields]
  BY DEF IsNode
<1>2. [n EXCEPT !.context = context, !.property = property] = [l EXCEPT !.property = property]
  OBVIOUS
<1> HIDE DEF l
<1>3. [l EXCEPT !.property = property].fields = l.fields
      /\ [l EXCEPT !.property = property].to = l.to
  BY <1>1
<1> QED
  BY <1>1, <1>2, <1>3

\* The new resources get their IRIs and the actor as their author, and nothing else of
\* an identity is written.
LEMMA NewFieldsAre ==
  ASSUME NEW listed, NEW kinds, NEW allocation, NEW i, NEW given,
         NEW p \in {"id", "actor", "attributedTo"}
  PROVE  OwnedValue(NewFields(listed, kinds, allocation), i, p, given) =
           IF i \in listed /\ p = "id" THEN allocation.ids[i]
           ELSE IF i \in listed /\ p = AuthorField(kinds[i]) THEN Actor ELSE given
<1> DEFINE own == NewFields(listed, kinds, allocation)
<1>1. \A f : f \in own <=>
        \E j \in listed : \/ f = Owned(j, "id", allocation.ids[j])
                          \/ f = Owned(j, AuthorField(kinds[j]), Actor)
                          \/ f = Owned(j, "published", allocation.timestamp)
  BY DEF NewFields
<1>2. \A j, q, v : /\ Owned(j, q, v).at = j /\ Owned(j, q, v).property = q
                   /\ Owned(j, q, v).value = v
  BY DEF Owned
<1>3. \A j : AuthorField(kinds[j]) \in {"actor", "attributedTo"}
  BY DEF AuthorField
<1> HIDE DEF own
<1>4. CASE i \in listed /\ p = "id"
  <2>1. Owned(i, "id", allocation.ids[i]) \in own
    BY <1>1, <1>4
  <2>2. \E f \in own : f.at = i /\ f.property = p
    BY <1>2, <1>4, <2>1
  <2>3. \A f \in own : f.at = i /\ f.property = p => f.value = allocation.ids[i]
    BY <1>1, <1>2, <1>3, <1>4
  <2>4. OwnedValue(own, i, p, given) = allocation.ids[i]
    BY <2>2, <2>3 DEF OwnedValue
  <2> QED
    BY <1>4, <2>4 DEF own
<1>5. CASE i \in listed /\ p # "id" /\ p = AuthorField(kinds[i])
  <2>1. Owned(i, AuthorField(kinds[i]), Actor) \in own
    BY <1>1, <1>5
  <2>2. \E f \in own : f.at = i /\ f.property = p
    BY <1>2, <1>5, <2>1
  <2>3. \A f \in own : f.at = i /\ f.property = p => f.value = Actor
    BY <1>1, <1>2, <1>3, <1>5
  <2>4. OwnedValue(own, i, p, given) = Actor
    BY <2>2, <2>3 DEF OwnedValue
  <2> QED
    BY <1>5, <2>4 DEF own
<1>6. CASE ~(i \in listed /\ p \in {"id", AuthorField(kinds[i])})
  <2>1. ~(\E f \in own : f.at = i /\ f.property = p)
    BY <1>1, <1>2, <1>3, <1>6
  <2>2. OwnedValue(own, i, p, given) = given
    BY <2>1 DEF OwnedValue
  <2> QED
    BY <1>6, <2>2 DEF own
<1> QED
  BY <1>4, <1>5, <1>6

LEMMA LeastIs ==
  ASSUME NEW S \in SUBSET Nat, S # {}
  PROVE  \E m \in S : \A i \in S : m <= i
<1>1. PICK m \in S : \A i \in S : ~ (<<i, m>> \in OpToRel(<, Nat))
  BY NatLessThanWellFounded, WFMin
<1>2. \A i \in S : ~(i < m)
  BY <1>1 DEF OpToRel
<1> QED
  BY <1>2

\* How far inwards the i-th document of n is embedded, before a reference.
Below(i, referred) == {j \in referred : j > i}
Nearest(below) == CHOOSE j \in below : \A k \in below : j <= k
Reach(n, i, referred) ==
  IF Below(i, referred) = {} THEN n ELSE Nearest(Below(i, referred)) - 1
LastOf(nodes, i, referred, ids) ==
  IF Below(i, referred) = {} THEN NoReference
  ELSE LET next == Reach(Len(nodes), i, referred) + 1
       IN [property |-> nodes[next].property, iri |-> ids[next]]

LEMMA ReachIs ==
  ASSUME NEW n \in Nat, NEW i \in 1 .. n, NEW referred \in SUBSET (1 .. n)
  PROVE  /\ Reach(n, i, referred) \in i .. n
         /\ Below(i, referred) # {} =>
              /\ Reach(n, i, referred) + 1 \in Below(i, referred)
              /\ \A k \in Below(i, referred) : Reach(n, i, referred) + 1 <= k
<1> DEFINE below == Below(i, referred)
           next == CHOOSE j \in below : \A k \in below : j <= k
<1>1. CASE below = {}
  BY <1>1 DEF Reach, Nearest
<1>2. CASE below # {}
  <2>1. below \in SUBSET Nat /\ \A j \in below : j \in 1 .. n /\ j > i
    <3>1. \A j \in below : j \in 1 .. n /\ j > i
      BY DEF Below
    <3>2. 1 .. n \subseteq Nat
      OBVIOUS
    <3> HIDE DEF below
    <3> QED
      BY <3>1, <3>2
  <2>2. \E j \in below : \A k \in below : j <= k
    <3> HIDE DEF below
    <3> QED
      BY <1>2, <2>1, LeastIs
  <2>3. next \in below /\ \A k \in below : next <= k
    BY <2>2
  <2>4. Reach(n, i, referred) = next - 1
    BY <1>2 DEF Reach, Nearest
  <2>5. next \in 1 .. n /\ next > i
    <3> HIDE DEF below, next
    <3> QED
      BY <2>1, <2>3
  <2> HIDE DEF next
  <2> QED
    BY <2>3, <2>4, <2>5
<1> QED
  BY <1>1, <1>2

LEMMA InwardsIs ==
  ASSUME NEW nodes, IsSeq(nodes), NEW i \in DOMAIN nodes,
         NEW referred \in SUBSET DOMAIN nodes, NEW ids
  PROVE  Inwards(nodes, i, referred, ids) =
           [nodes |-> SubSeq(nodes, i, Reach(Len(nodes), i, referred)),
            last |-> LastOf(nodes, i, referred, ids)]
<1>1. CASE Below(i, referred) = {}
  BY <1>1 DEF Inwards, Reach, Nearest, LastOf, Below
<1>2. CASE Below(i, referred) # {}
  <2> DEFINE next == CHOOSE j \in Below(i, referred) : \A k \in Below(i, referred) : j <= k
  <2>1. Inwards(nodes, i, referred, ids) =
          [nodes |-> SubSeq(nodes, i, next - 1),
           last |-> [property |-> nodes[next].property, iri |-> ids[next]]]
    BY <1>2 DEF Inwards, Below
  <2>2. Reach(Len(nodes), i, referred) = next - 1
    BY <1>2 DEF Reach, Nearest
  <2>3. Reach(Len(nodes), i, referred) + 1 \in DOMAIN nodes
    BY <1>2, SeqIs, ReachIs DEF Below
  <2>4. next \in Int
    <3>1. \E j \in Below(i, referred) : \A k \in Below(i, referred) : j <= k
      <4>1. Below(i, referred) \in SUBSET Nat
        BY SeqIs DEF Below
      <4> QED
        BY <1>2, <4>1, LeastIs
    <3>2. next \in Below(i, referred)
      BY <3>1
    <3> HIDE DEF next
    <3> QED
      BY <3>2, SeqIs DEF Below
  <2> HIDE DEF next
  <2>5. (next - 1) + 1 = next
    BY <2>4
  <2> QED
    BY <1>2, <2>1, <2>2, <2>5 DEF LastOf
<1> QED
  BY <1>1, <1>2

LEMMA PartIs ==
  ASSUME NEW s, IsSeq(s), NEW i \in DOMAIN s, NEW hi \in i .. Len(s)
  PROVE  LET part == SubSeq(s, i, hi) IN
         /\ part \in Seq({s[k] : k \in DOMAIN s})
         /\ Len(part) = hi - i + 1 /\ DOMAIN part = 1 .. hi - i + 1
         /\ \A k \in 1 .. hi - i + 1 : part[k] = s[i + k - 1] /\ i + k - 1 \in DOMAIN s
<1> DEFINE part == SubSeq(s, i, hi)
           S == {s[k] : k \in DOMAIN s}
<1>1. DOMAIN s = 1 .. Len(s) /\ Len(s) \in Nat
  BY SeqIs
<1>2. i \in Int /\ hi \in Int /\ i <= hi /\ \A k \in i .. hi : k \in DOMAIN s
  BY <1>1
<1>3. \A k \in i .. hi : s[k] \in S
  BY <1>2
<1> HIDE DEF S
<1>4. /\ part \in Seq(S) /\ Len(part) = (IF i <= hi THEN hi - i + 1 ELSE 0)
      /\ \A k \in 1 .. hi - i + 1 : part[k] = s[i + k - 1]
  BY <1>2, <1>3, SubSeqProperties
<1>5. \A k \in 1 .. hi - i + 1 : i + k - 1 \in DOMAIN s
  BY <1>1, <1>2
<1>6. DOMAIN part = 1 .. Len(part)
  BY <1>4, LenProperties
<1> HIDE DEF part
<1> QED
  BY <1>2, <1>4, <1>5, <1>6 DEF part, S

\* A new resource's document: its part of what was submitted, the first node's context
\* restated.
IsNewDocument(doc, nodes, i, hi, referred, ids) ==
  /\ hi \in i .. Len(nodes)
  /\ doc.nodes \in Seq({nodes[k] : k \in DOMAIN nodes} \union {doc.nodes[1]})
  /\ Len(doc.nodes) = hi - i + 1 /\ DOMAIN doc.nodes = 1 .. hi - i + 1
  /\ \A k \in 1 .. hi - i + 1 : i + k - 1 \in DOMAIN nodes
  /\ doc.nodes[1].fields = nodes[i].fields
  /\ \A k \in 2 .. hi - i + 1 : doc.nodes[k] = nodes[i + k - 1]
  /\ doc.last = LastOf(nodes, i, referred, ids)

LEMMA NewDocumentIs ==
  ASSUME NEW nodes, IsDocument(nodes), NEW i \in DOMAIN nodes,
         NEW referred \in SUBSET DOMAIN nodes, NEW ids
  PROVE  IsNewDocument(NewDocument(nodes, i, referred, ids), nodes, i,
                       Reach(Len(nodes), i, referred), referred, ids)
<1> DEFINE doc == NewDocument(nodes, i, referred, ids)
           hi == Reach(Len(nodes), i, referred)
           count == hi - i + 1
           part == SubSeq(nodes, i, hi)
           last == LastOf(nodes, i, referred, ids)
           T == {nodes[k] : k \in DOMAIN nodes}
           S == T \union {doc.nodes[1]}
<1>1. IsSeq(nodes) /\ Len(nodes) \in Nat /\ DOMAIN nodes = 1 .. Len(nodes)
  BY SeqIs DEF IsDocument
<1>2. hi \in i .. Len(nodes)
  BY <1>1, ReachIs
<1>3. i \in Nat /\ count \in Nat \ {0}
  <2> HIDE DEF hi
  <2> QED
    BY <1>1, <1>2
<1>4. Inwards(nodes, i, referred, ids) = [nodes |-> part, last |-> last]
  BY <1>1, InwardsIs
<1> HIDE DEF hi
<1>5. /\ part \in Seq(T) /\ Len(part) = count /\ DOMAIN part = 1 .. count
      /\ \A k \in 1 .. count : part[k] = nodes[i + k - 1] /\ i + k - 1 \in DOMAIN nodes
  BY <1>1, <1>2, PartIs
<1>6. part[1] = nodes[i] /\ 1 \in 1 .. count /\ IsNode(nodes[i])
  <2>1. 1 \in 1 .. count /\ i + 1 - 1 = i
    BY <1>3
  <2>2. part[1] = nodes[i + 1 - 1]
    BY <1>5, <2>1
  <2> QED
    BY <2>1, <2>2 DEF IsDocument
<1> HIDE DEF part, last
<1>7. CASE i = 1
  <2>1. doc = [nodes |-> part, last |-> last]
    BY <1>4, <1>7 DEF NewDocument
  <2> HIDE DEF doc
  <2>2. doc.nodes = part /\ doc.last = last
    BY <2>1
  <2>3. doc.nodes \in Seq(S)
    <3> HIDE DEF T
    <3> QED
      BY <1>5, <2>2, SeqMonotonic
  <2>4. \A k \in 2 .. count : doc.nodes[k] = nodes[i + k - 1]
    BY <1>3, <1>5, <2>2
  <2> QED
    BY <1>2, <1>5, <1>6, <2>2, <2>3, <2>4 DEF doc, hi, last, IsNewDocument
<1>8. CASE i # 1
  <2> DEFINE n == nodes[i]
             m == [n EXCEPT !.context = EffectiveContext(nodes, i), !.property = ""]
             whole == [part EXCEPT ![1] = m]
  <2>1. doc = [[nodes |-> part, last |-> last]
                EXCEPT !.nodes[1].context = EffectiveContext(nodes, i), !.nodes[1].property = ""]
    BY <1>4, <1>8 DEF NewDocument, ExtractNested
  <2>2. doc = [nodes |-> whole, last |-> last]
    <3> DEFINE c == EffectiveContext(nodes, i)
               l == [n EXCEPT !.context = c]
               first == [part EXCEPT ![1] = l]
               r == [nodes |-> part, last |-> last]
    <3> HIDE DEF c
    <3>1. doc = [r EXCEPT !.nodes[1].context = c, !.nodes[1].property = ""]
      BY <2>1 DEF c
    <3>2. [r EXCEPT !.nodes[1].context = c] = [nodes |-> first, last |-> last]
      <4>1. r.nodes[1] = n
        BY <1>6
      <4> HIDE DEF n, l
      <4>2. [r EXCEPT !.nodes[1].context = c] = [r EXCEPT !.nodes = [part EXCEPT ![1] = l]]
        BY <4>1 DEF l
      <4> QED
        BY <4>2
    <3>3. [r EXCEPT !.nodes[1].context = c, !.nodes[1].property = ""]
            = [[nodes |-> first, last |-> last] EXCEPT !.nodes[1].property = ""]
      <4>1. [r EXCEPT !.nodes[1].context = c, !.nodes[1].property = ""]
              = [[r EXCEPT !.nodes[1].context = c] EXCEPT !.nodes[1].property = ""]
        OBVIOUS
      <4> QED
        BY <3>2, <4>1
    <3>4. first[1] = l
      BY <1>5, <1>6
    <3> HIDE DEF first
    <3>5. [[nodes |-> first, last |-> last] EXCEPT !.nodes[1].property = ""]
            = [nodes |-> [first EXCEPT ![1] = [first[1] EXCEPT !.property = ""]],
               last |-> last]
      <4> DEFINE half == [nodes |-> first, last |-> last]
                 l2 == [first[1] EXCEPT !.property = ""]
      <4>1. half.nodes = first /\ half.nodes[1] = first[1]
        OBVIOUS
      <4>2. [half EXCEPT !.nodes[1].property = ""]
              = [half EXCEPT !.nodes = [half.nodes EXCEPT ![1] = [half.nodes[1] EXCEPT !.property = ""]]]
        <5> HIDE DEF half
        <5> QED
          OBVIOUS
      <4>3. [half EXCEPT !.nodes[1].property = ""]
              = [half EXCEPT !.nodes = [first EXCEPT ![1] = l2]]
        <5> HIDE DEF half
        <5> QED
          BY <4>1, <4>2
      <4> HIDE DEF l2
      <4>4. [half EXCEPT !.nodes = [first EXCEPT ![1] = l2]]
              = [nodes |-> [first EXCEPT ![1] = l2], last |-> last]
        OBVIOUS
      <4> QED
        BY <4>3, <4>4 DEF l2
    <3>6. [first[1] EXCEPT !.property = ""] = m
      <4>1. m = [l EXCEPT !.property = ""]
        BY DEF c
      <4> HIDE DEF m, l
      <4> QED
        BY <3>4, <4>1
    <3>7. [first EXCEPT ![1] = m] = whole
      <4> HIDE DEF m, l
      <4> QED
        BY <1>5, <1>6 DEF first
    <3> HIDE DEF whole, m
    <3> QED
      BY <3>1, <3>3, <3>5, <3>6, <3>7
  <2> HIDE DEF doc
  <2>3. doc.nodes = whole /\ doc.last = last
    BY <2>2
  <2>4. m.fields = n.fields
    BY <1>6, NodeKeeps
  <2> HIDE DEF m
  <2>5. /\ Len(whole) = count /\ DOMAIN whole = 1 .. count /\ whole[1] = m
        /\ \A k \in 2 .. count : whole[k] = nodes[i + k - 1]
    <3>1. whole[1] = m /\ DOMAIN whole = DOMAIN part
      BY <1>5, <1>6
    <3>2. Len(whole) = Len(part)
      BY <1>5
    <3>3. \A k \in 2 .. count : k \in 1 .. count /\ k # 1
      BY <1>3
    <3>4. \A k \in 2 .. count : whole[k] = part[k]
      BY <1>5, <3>3
    <3> QED
      BY <1>5, <3>1, <3>2, <3>3, <3>4
  <2>6. whole \in Seq(S)
    <3>1. S = T \union {m}
      BY <2>3, <2>5
    <3>2. part \in Seq(S) /\ m \in S /\ 1 \in 1 .. Len(part)
      <4> HIDE DEF T
      <4> QED
        BY <1>5, <1>6, <3>1, SeqMonotonic
    <3> HIDE DEF S
    <3> QED
      BY <3>2, ExceptSeq
  <2> HIDE DEF whole
  <2> QED
    BY <1>2, <1>5, <2>3, <2>4, <2>5, <2>6 DEF doc, hi, last, IsNewDocument
<1> QED
  BY <1>7, <1>8

\* Nothing is denied: what a document names as an actor is local, and what it names
\* as an id is known or allocated.
LEMMA ClaimsHold ==
  ASSUME NEW nodes, NEW kinds, NEW allocated, DeniedClaims(nodes, kinds, allocated) = {},
         NEW j \in DOMAIN nodes, NEW p \in {"id", "actor", "attributedTo"},
         ~(j \in DOMAIN kinds /\ p \in {"id", AuthorField(kinds[j])}),
         OnInstanceHost(nodes[j].fields[p])
  PROVE  /\ p # "id" => nodes[j].fields[p] \in LocalActorIris
         /\ nodes[j].fields[p] \in LocalActorIris \union known \union allocated
<1> DEFINE act == p # "id" \/ nodes[j].property \in {"actor", "attributedTo"}
           c == [iri |-> nodes[j].fields[p], actor |-> act]
           own(i) == IF i \in DOMAIN kinds THEN {"id", AuthorField(kinds[i])} ELSE {}
           claims(i) == {[iri |-> nodes[i].fields[q],
                          actor |-> q # "id" \/ nodes[i].property \in {"actor", "attributedTo"}] :
                           q \in {"id", "actor", "attributedTo"} \ own(i)}
<1>1. p \in {"id", "actor", "attributedTo"} \ own(j)
  OBVIOUS
<1>2. c \in claims(j)
  BY <1>1
<1>3. IdentityClaims(nodes, kinds) = UNION {claims(i) : i \in DOMAIN nodes}
  BY DEF IdentityClaims
<1> HIDE DEF claims, own
<1>4. c \in IdentityClaims(nodes, kinds)
  BY <1>2, <1>3
<1>5. c.iri = nodes[j].fields[p] /\ c.actor = act
  OBVIOUS
<1> HIDE DEF c, act
<1>6. c \notin DeniedClaims(nodes, kinds, allocated)
  OBVIOUS
<1>7. ~(IF c.actor THEN c.iri \notin LocalActorIris ELSE c.iri \notin known \union allocated)
  BY <1>4, <1>5, <1>6 DEF DeniedClaims
<1>8. p # "id" => act
  BY DEF act
<1> QED
  BY <1>5, <1>7, <1>8

\* What CreatedIsOwned says of resources, the actors alive then and the known IRIs.
OwnIdentity(node, alive, iris) ==
  /\ \A p \in {"actor", "attributedTo"} :
       OnInstanceHost(node.fields[p]) => node.fields[p] \in {Actor} \union alive
  /\ OnInstanceHost(node.fields.id) => node.fields.id \in iris
OwnedIn(resources, alive, iris) ==
  \A k \in DOMAIN resources :
    /\ resources[k].document.nodes[1].fields.id = resources[k].iri
    /\ resources[k].document.nodes[1].fields[AuthorField(resources[k].kind)] = Actor
    /\ \A i \in DOMAIN resources[k].document.nodes :
         OwnIdentity(resources[k].document.nodes[i], alive, iris)
    /\ k > 1 => Carries(resources[k].document, 1, resources[k - 1])

LEMMA OwnedInIs ==
  ASSUME NEW s
  PROVE  CreatedIsOwned(s) <=> OwnedIn(s.resources, s.living, known)
BY DEF CreatedIsOwned, OwnedIn, OwnIdentity

\* Every document that was filled has identities of its own.
LEMMA FilledOwned ==
  ASSUME NEW nodes, IsDocument(nodes), NEW kinds, NEW allocation, NEW iris,
         DOMAIN allocation.ids = DOMAIN kinds,
         {allocation.ids[i] : i \in DOMAIN allocation.ids} \subseteq iris,
         LocalActorIris \union known \subseteq iris,
         DeniedClaims(nodes, kinds, {allocation.ids[i] : i \in DOMAIN allocation.ids}) = {},
         NEW j \in DOMAIN nodes
  PROVE  LET filled == FillFields(nodes, NewFields(DOMAIN kinds, kinds, allocation))
         IN /\ OwnIdentity(filled[j], living, iris)
            /\ j \in DOMAIN kinds =>
                 /\ filled[j].fields.id = allocation.ids[j]
                 /\ filled[j].fields[AuthorField(kinds[j])] = Actor
<1> DEFINE own == NewFields(DOMAIN kinds, kinds, allocation)
           filled == FillFields(nodes, own)
           allocated == {allocation.ids[i] : i \in DOMAIN allocation.ids}
<1>1. \A p \in {"id", "actor", "attributedTo"} : p \in DOMAIN nodes[j].fields
  BY DEF IsDocument, IsNode
<1>2. \A p \in DOMAIN nodes[j].fields :
        filled[j].fields[p] = OwnedValue(own, j, p, nodes[j].fields[p])
  <2> HIDE DEF own
  <2> QED
    BY FillFieldsIs
<1> HIDE DEF filled
<1>3. \A p \in {"id", "actor", "attributedTo"} :
        filled[j].fields[p] =
          IF j \in DOMAIN kinds /\ p = "id" THEN allocation.ids[j]
          ELSE IF j \in DOMAIN kinds /\ p = AuthorField(kinds[j]) THEN Actor
          ELSE nodes[j].fields[p]
  BY <1>1, <1>2, NewFieldsAre
<1>4. AuthorField(kinds[j]) \in {"actor", "attributedTo"}
  BY DEF AuthorField
<1>5. filled[j].fields.id = filled[j].fields["id"]
  OBVIOUS
<1>6. \A p \in {"id", "actor", "attributedTo"} :
        ~(j \in DOMAIN kinds /\ p \in {"id", AuthorField(kinds[j])})
          /\ OnInstanceHost(nodes[j].fields[p]) =>
        /\ p # "id" => nodes[j].fields[p] \in LocalActorIris
        /\ nodes[j].fields[p] \in LocalActorIris \union known \union allocated
  <2> HIDE DEF allocated
  <2> QED
    BY ClaimsHold DEF allocated
<1>7. OwnIdentity(filled[j], living, iris)
  <2>1. ASSUME NEW p \in {"actor", "attributedTo"}, OnInstanceHost(filled[j].fields[p])
        PROVE  filled[j].fields[p] \in {Actor} \union living
    <3>1. CASE j \in DOMAIN kinds /\ p = AuthorField(kinds[j])
      BY <1>3, <3>1
    <3>2. CASE ~(j \in DOMAIN kinds /\ p = AuthorField(kinds[j]))
      <4>1. filled[j].fields[p] = nodes[j].fields[p]
        BY <1>3, <3>2
      <4> QED
        BY <1>6, <2>1, <3>2, <4>1 DEF LocalActorIris
    <3> QED
      BY <3>1, <3>2
  <2>2. ASSUME OnInstanceHost(filled[j].fields["id"]) PROVE filled[j].fields["id"] \in iris
    <3>1. CASE j \in DOMAIN kinds
      <4>1. filled[j].fields["id"] = allocation.ids[j]
        BY <1>3, <3>1
      <4> QED
        BY <3>1, <4>1
    <3>2. CASE j \notin DOMAIN kinds
      <4>1. filled[j].fields["id"] = nodes[j].fields["id"]
        BY <1>3, <3>2
      <4>2. nodes[j].fields["id"] \in LocalActorIris \union known \union allocated
        BY <1>6, <2>2, <3>2, <4>1
      <4> QED
        BY <4>1, <4>2
    <3> QED
      BY <3>1, <3>2
  <2> QED
    BY <1>5, <2>1, <2>2 DEF OwnIdentity
<1>8. j \in DOMAIN kinds => /\ filled[j].fields.id = allocation.ids[j]
                            /\ filled[j].fields[AuthorField(kinds[j])] = Actor
  BY <1>3, <1>4, <1>5
<1> QED
  BY <1>7, <1>8 DEF filled

\* A parent carries the child that was listed below it, embedded or by reference.
LEMMA ParentCarries ==
  ASSUME NEW nodes, IsDocument(nodes), NEW i \in DOMAIN nodes, i + 1 \in DOMAIN nodes,
         NEW referred \in SUBSET DOMAIN nodes, NEW ids, NEW child,
         child.document = NewDocument(nodes, i + 1, referred, ids),
         child.iri = ids[i + 1]
  PROVE  Carries(NewDocument(nodes, i, referred, ids), 1, child)
<1> DEFINE n == Len(nodes)
           j == i + 1
           parent == NewDocument(nodes, i, referred, ids)
           inner == child.document
           hi == Reach(n, i, referred)
           T == {nodes[k] : k \in DOMAIN nodes}
           S == (T \union {parent.nodes[1]}) \union {inner.nodes[1]}
<1>1. n \in Nat /\ DOMAIN nodes = 1 .. n /\ i \in 1 .. n /\ j \in 1 .. n
  BY SeqIs DEF IsDocument
<1> HIDE DEF parent, hi
<1>2. /\ hi \in i .. n /\ parent.nodes \in Seq(T \union {parent.nodes[1]})
      /\ Len(parent.nodes) = hi - i + 1 /\ DOMAIN parent.nodes = 1 .. hi - i + 1
      /\ parent.nodes[1].fields = nodes[i].fields
      /\ \A k \in 2 .. hi - i + 1 : parent.nodes[k] = nodes[i + k - 1]
      /\ parent.last = LastOf(nodes, i, referred, ids)
  <2>1. IsNewDocument(parent, nodes, i, hi, referred, ids)
    BY NewDocumentIs DEF parent, hi
  <2> QED
    BY <2>1 DEF IsNewDocument
<1>3. CASE j \in referred
  <2>1. j \in Below(i, referred)
    BY <1>1, <1>3 DEF Below
  <2>2. hi + 1 <= j
    BY <1>1, <2>1, ReachIs DEF hi
  <2> HIDE DEF n
  <2>3. hi = i
    BY <1>1, <1>2, <2>2
  <2>4. Len(parent.nodes) = 1
    BY <1>1, <1>2, <2>3
  <2>5. parent.last = [property |-> nodes[j].property, iri |-> ids[j]]
    BY <1>2, <2>1, <2>3 DEF LastOf, hi, n
  <2>6. parent.last.iri = ids[j]
    BY <2>5
  <2> QED
    BY <2>4, <2>6 DEF Carries, parent
<1>4. CASE j \notin referred
  <2>1. Below(j, referred) = Below(i, referred)
    <3>1. \A k \in referred : k \in Int
      BY <1>1
    <3> QED
      BY <1>1, <1>4, <3>1 DEF Below
  <2>2. Reach(n, j, referred) = hi /\ LastOf(nodes, j, referred, ids) = parent.last
    <3>1. Reach(n, j, referred) = Reach(n, i, referred)
      BY <2>1 DEF Reach
    <3>2. LastOf(nodes, j, referred, ids) = LastOf(nodes, i, referred, ids)
      BY <2>1, <3>1 DEF LastOf
    <3> QED
      BY <1>2, <3>1, <3>2 DEF hi
  <2> HIDE DEF inner
  <2>3. /\ Reach(n, j, referred) \in j .. n /\ inner.nodes \in Seq(T \union {inner.nodes[1]})
        /\ Len(inner.nodes) = Reach(n, j, referred) - j + 1
        /\ inner.nodes[1].fields = nodes[j].fields
        /\ \A k \in 2 .. Reach(n, j, referred) - j + 1 : inner.nodes[k] = nodes[j + k - 1]
        /\ inner.last = LastOf(nodes, j, referred, ids)
    <3> DEFINE to == Reach(n, j, referred)
    <3>1. IsNewDocument(inner, nodes, j, to, referred, ids)
      <4>1. j \in DOMAIN nodes
        OBVIOUS
      <4>2. IsNewDocument(NewDocument(nodes, j, referred, ids), nodes, j,
                          Reach(Len(nodes), j, referred), referred, ids)
        <5> HIDE DEF j
        <5> QED
          BY <4>1, NewDocumentIs
      <4> QED
        BY <4>2 DEF inner
    <3> HIDE DEF to, j
    <3>2. /\ to \in j .. n /\ inner.nodes \in Seq(T \union {inner.nodes[1]})
          /\ Len(inner.nodes) = to - j + 1
          /\ inner.nodes[1].fields = nodes[j].fields
          /\ \A k \in 2 .. to - j + 1 : inner.nodes[k] = nodes[j + k - 1]
          /\ inner.last = LastOf(nodes, j, referred, ids)
      BY <3>1 DEF IsNewDocument
    <3> QED
      BY <3>2 DEF to
  <2>4. /\ hi \in j .. n /\ Len(inner.nodes) = hi - j + 1 /\ inner.last = parent.last
        /\ \A k \in 2 .. hi - j + 1 : inner.nodes[k] = nodes[j + k - 1]
    BY <2>2, <2>3
  <2>5. parent.nodes \in Seq(S) /\ inner.nodes \in Seq(S)
    <3>1. (T \union {parent.nodes[1]}) \subseteq S /\ (T \union {inner.nodes[1]}) \subseteq S
      OBVIOUS
    <3>2. parent.nodes \in Seq(T \union {parent.nodes[1]})
      BY <1>2
    <3>3. inner.nodes \in Seq(T \union {inner.nodes[1]})
      BY <2>3
    <3> HIDE DEF S, T
    <3>4. parent.nodes \in Seq(S)
      BY <3>1, <3>2, SeqMonotonic
    <3>5. inner.nodes \in Seq(S)
      BY <3>1, <3>3, SeqMonotonic
    <3> QED
      BY <3>4, <3>5
  <2> HIDE DEF S, T, n
  <2>6. /\ hi \in Int /\ i \in Int /\ i >= 1 /\ hi >= i + 1 /\ j = i + 1
        /\ hi - i + 1 >= 2 /\ hi - j + 1 >= 1
    BY <1>1, <2>4
  <2>7. parent.nodes[2].fields = inner.nodes[1].fields
    <3>1. 2 \in 2 .. hi - i + 1 /\ i + 2 - 1 = j
      BY <2>6
    <3>2. parent.nodes[2] = nodes[j]
      BY <1>2, <3>1
    <3> QED
      BY <2>3, <3>2
  <2> DEFINE rest == SubSeq(parent.nodes, 3, Len(parent.nodes))
             tail == Tail(inner.nodes)
  <2>8. /\ rest \in Seq(S) /\ Len(rest) = hi - i - 1
        /\ \A k \in 1 .. hi - i - 1 : rest[k] = nodes[i + k + 1]
    <3> DEFINE l == hi - i + 1
    <3>1. l \in Int /\ Len(parent.nodes) = l /\ l >= 2 /\ l - 3 + 1 = hi - i - 1
      BY <1>2, <2>6
    <3>2. \A k \in 3 .. l : parent.nodes[k] \in S
      <4> HIDE DEF l
      <4> QED
        BY <2>5, <3>1, ElementOfSeq
    <3> HIDE DEF l
    <3>3. /\ rest \in Seq(S) /\ Len(rest) = (IF 3 <= l THEN l - 3 + 1 ELSE 0)
          /\ \A k \in 1 .. l - 3 + 1 : rest[k] = parent.nodes[3 + k - 1]
      BY <3>1, <3>2, SubSeqProperties
    <3>4. Len(rest) = hi - i - 1
      <4> HIDE DEF rest
      <4> QED
        BY <2>6, <3>1, <3>3
    <3>5. ASSUME NEW k \in 1 .. hi - i - 1 PROVE rest[k] = nodes[i + k + 1]
      <4>1. k \in 1 .. l - 3 + 1 /\ 3 + k - 1 \in 2 .. hi - i + 1 /\ i + (3 + k - 1) - 1 = i + k + 1
        BY <2>6, <3>1
      <4>2. rest[k] = parent.nodes[3 + k - 1]
        BY <3>3, <4>1
      <4>3. parent.nodes[3 + k - 1] = nodes[i + (3 + k - 1) - 1]
        BY <1>2, <4>1
      <4> QED
        BY <4>1, <4>2, <4>3
    <3> HIDE DEF rest
    <3> QED
      BY <3>3, <3>4, <3>5
  <2>9. /\ tail \in Seq(S) /\ Len(tail) = hi - i - 1
        /\ \A k \in 1 .. hi - i - 1 : tail[k] = nodes[i + k + 1]
    <3>1. inner.nodes # <<>>
      BY <2>4, <2>5, <2>6, EmptySeq
    <3>2. /\ tail \in Seq(S) /\ Len(tail) = Len(inner.nodes) - 1
          /\ \A k \in 1 .. Len(tail) : tail[k] = inner.nodes[k + 1]
      BY <2>5, <3>1, HeadTailProperties
    <3>3. Len(tail) = hi - i - 1
      <4> HIDE DEF tail
      <4> QED
        BY <2>4, <2>6, <3>2
    <3>4. ASSUME NEW k \in 1 .. hi - i - 1 PROVE tail[k] = nodes[i + k + 1]
      <4>1. k + 1 \in 2 .. hi - j + 1 /\ j + (k + 1) - 1 = i + k + 1 /\ k \in 1 .. Len(tail)
        <5> HIDE DEF tail
        <5> QED
          BY <2>6, <3>3
      <4>2. tail[k] = inner.nodes[k + 1]
        BY <3>2, <4>1
      <4>3. inner.nodes[k + 1] = nodes[j + (k + 1) - 1]
        BY <2>4, <4>1
      <4> QED
        BY <4>1, <4>2, <4>3
    <3> HIDE DEF tail
    <3> QED
      BY <3>2, <3>3, <3>4
  <2>10. rest = tail
    <3> HIDE DEF rest, tail
    <3> QED
      BY <2>8, <2>9, SeqEqual
  <2>11. Len(parent.nodes) > 1
    BY <1>2, <2>6
  <2>12. Carries(parent, 1, child)
    BY <2>4, <2>7, <2>10, <2>11 DEF Carries, inner
  <2> QED
    BY <2>12 DEF parent
<1> QED
  BY <1>3, <1>4

LEMMA CreateOwned ==
  ASSUME NEW q, IsRequest(q), q.operation = "create", NEW allocation,
         ~PrepareCreate(q, allocation).fails, NEW iris,
         LocalActorIris \union known \subseteq iris,
         SavedIris(PrepareCreate(q, allocation).resources) \subseteq iris
  PROVE  OwnedIn(PrepareCreate(q, allocation).resources, living, iris)
<1> DEFINE nodes == q.document
           count == Len(q.resources)
           listed == Listed(q)
           kinds == Kinds(q)
           filled == FillFields(nodes, NewFields(listed, kinds, allocation))
           resources == PrepareCreate(q, allocation).resources
           referred == Referred(q)
           ids == allocation.ids
           doc(i) == NewDocument(filled, i, referred, ids)
<1>1. /\ resources = Created(q, allocation) /\ CheckDescriptors(q) /\ DOMAIN ids = listed
      /\ DeniedClaims(nodes, kinds, {ids[i] : i \in DOMAIN ids}) = {}
  BY CreateIs
<1>2. IsDocument(nodes)
  BY DEF IsRequest
<1>3. /\ count \in Nat \ {0} /\ listed = 1 .. count /\ count <= Len(nodes)
      /\ Len(nodes) \in Nat /\ DOMAIN nodes = 1 .. Len(nodes)
  BY <1>1, <1>2, ListedIs, SeqIs DEF IsDocument
<1>4. /\ DOMAIN resources = 1 .. count
      /\ \A k \in 1 .. count : resources[k].iri = ids[count - k + 1]
      /\ \A k \in 1 .. count :
           resources[k] = Resource(ids[count - k + 1], kinds[count - k + 1], FALSE,
                                   doc(count - k + 1))
  <2> HIDE DEF resources
  <2> QED
    BY <1>1, CreatedIs
<1>5. DOMAIN kinds = listed /\ referred \subseteq listed
  BY DEF Kinds, Referred
<1>6. \A i \in DOMAIN ids : ids[i] \in iris
  <2> SUFFICES ASSUME NEW i \in listed PROVE ids[i] \in iris
    BY <1>1
  <2> HIDE DEF count, listed, resources
  <2>1. count - i + 1 \in 1 .. count /\ count - (count - i + 1) + 1 = i
    BY <1>3
  <2>2. resources[count - i + 1].iri = ids[i]
    BY <1>4, <2>1
  <2>3. resources[count - i + 1].iri \in SavedIris(resources)
    BY <1>4, <2>1 DEF SavedIris
  <2> QED
    BY <2>2, <2>3 DEF resources
<1>7. IsDocument(filled) /\ DOMAIN filled = DOMAIN nodes /\ Len(filled) = Len(nodes)
  <2> DEFINE own == NewFields(listed, kinds, allocation)
  <2> HIDE DEF own, nodes
  <2>1. IsDocument(FillFields(nodes, own)) /\ DOMAIN FillFields(nodes, own) = DOMAIN nodes
        /\ Len(FillFields(nodes, own)) = Len(nodes)
    BY <1>2, FillFieldsIs
  <2> QED
    BY <2>1 DEF own
<1>8. \A j \in DOMAIN nodes :
        /\ OwnIdentity(filled[j], living, iris)
        /\ j \in listed => /\ filled[j].fields.id = ids[j]
                           /\ filled[j].fields[AuthorField(kinds[j])] = Actor
  <2>1. {ids[i] : i \in DOMAIN ids} \subseteq iris
    BY <1>6
  <2>2. filled = FillFields(nodes, NewFields(DOMAIN kinds, kinds, allocation))
    BY <1>5
  <2> HIDE DEF filled, nodes, kinds, listed
  <2> QED
    BY <1>1, <1>2, <1>5, <2>1, <2>2, FilledOwned
<1> HIDE DEF filled, nodes, count, listed, kinds, resources, referred, ids
<1> SUFFICES ASSUME NEW k \in 1 .. count
             PROVE  /\ resources[k].document.nodes[1].fields.id = resources[k].iri
                    /\ resources[k].document.nodes[1].fields[AuthorField(resources[k].kind)]
                         = Actor
                    /\ \A i \in DOMAIN resources[k].document.nodes :
                         OwnIdentity(resources[k].document.nodes[i], living, iris)
                    /\ k > 1 => Carries(resources[k].document, 1, resources[k - 1])
  BY <1>4 DEF OwnedIn, resources
<1> DEFINE i == count - k + 1
           whole == doc(i)
<1>9. i \in listed /\ i \in DOMAIN nodes /\ i \in DOMAIN filled /\ i \in Nat
  BY <1>3, <1>7
<1>10. /\ resources[k].iri = ids[i] /\ resources[k].kind = kinds[i]
       /\ resources[k].document = whole
  <2> HIDE DEF whole
  <2>1. resources[k] = Resource(ids[i], kinds[i], FALSE, whole)
    BY <1>4 DEF whole
  <2> QED
    BY <2>1 DEF Resource
<1>11. referred \in SUBSET DOMAIN filled
  BY <1>3, <1>5, <1>7
<1> DEFINE hi == Reach(Len(filled), i, referred)
<1> HIDE DEF i
<1>12. /\ DOMAIN whole.nodes = 1 .. hi - i + 1 /\ hi \in i .. Len(filled)
       /\ whole.nodes[1].fields = filled[i].fields
       /\ \A m \in 2 .. hi - i + 1 : whole.nodes[m] = filled[i + m - 1]
       /\ \A m \in 1 .. hi - i + 1 : i + m - 1 \in DOMAIN filled
  <2>1. IsNewDocument(whole, filled, i, hi, referred, ids)
    BY <1>7, <1>9, <1>11, NewDocumentIs
  <2> HIDE DEF whole, hi
  <2> QED
    BY <2>1 DEF IsNewDocument
<1> HIDE DEF whole, hi
<1>13. /\ whole.nodes[1].fields.id = ids[i]
       /\ whole.nodes[1].fields[AuthorField(kinds[i])] = Actor
  BY <1>8, <1>9, <1>12
<1>14. ASSUME NEW m \in DOMAIN whole.nodes PROVE OwnIdentity(whole.nodes[m], living, iris)
  <2>1. CASE m = 1
    <3>1. OwnIdentity(filled[i], living, iris)
      BY <1>8, <1>9
    <3> QED
      BY <1>12, <2>1, <3>1 DEF OwnIdentity
  <2>2. CASE m # 1
    <3>1. m \in 2 .. hi - i + 1 /\ m \in 1 .. hi - i + 1
      BY <1>12, <2>2
    <3>2. whole.nodes[m] = filled[i + m - 1] /\ i + m - 1 \in DOMAIN nodes
      BY <1>7, <1>12, <3>1
    <3> QED
      BY <1>8, <3>2
  <2> QED
    BY <2>1, <2>2
<1>15. ASSUME k > 1 PROVE Carries(whole, 1, resources[k - 1])
  <2>1. k - 1 \in 1 .. count /\ count - (k - 1) + 1 = i + 1 /\ i + 1 \in DOMAIN filled
    BY <1>3, <1>7, <1>15 DEF i
  <2>2. resources[k - 1] = Resource(ids[i + 1], kinds[i + 1], FALSE, doc(i + 1))
    <3>1. resources[k - 1] = Resource(ids[count - (k - 1) + 1], kinds[count - (k - 1) + 1],
                                      FALSE, doc(count - (k - 1) + 1))
      <4> HIDE DEF doc
      <4> QED
        BY <1>4, <2>1
    <3> QED
      BY <2>1, <3>1
  <2>3. /\ resources[k - 1].document = NewDocument(filled, i + 1, referred, ids)
        /\ resources[k - 1].iri = ids[i + 1]
    <3> DEFINE d == doc(i + 1)
    <3>1. resources[k - 1] = Resource(ids[i + 1], kinds[i + 1], FALSE, d)
      BY <2>2
    <3>2. d = NewDocument(filled, i + 1, referred, ids)
      OBVIOUS
    <3> HIDE DEF d
    <3>3. resources[k - 1].document = d /\ resources[k - 1].iri = ids[i + 1]
      BY <3>1 DEF Resource
    <3> QED
      BY <3>2, <3>3
  <2> DEFINE child == resources[k - 1]
  <2>4. child.document = NewDocument(filled, i + 1, referred, ids) /\ child.iri = ids[i + 1]
    BY <2>3
  <2> HIDE DEF child
  <2>5. Carries(NewDocument(filled, i, referred, ids), 1, child)
    BY <1>7, <1>9, <1>11, <2>1, <2>4, ParentCarries
  <2> QED
    BY <2>5 DEF whole, child
<1> QED
  BY <1>10, <1>13, <1>14, <1>15

\* The activity the server composes names the actor and stands before the version.
LEMMA GeneratedIs ==
  ASSUME NEW type, NEW allocation, NEW context, NEW to, NEW embedded, IsSeq(embedded),
         NEW reference
  PROVE  LET g == Generated(type, allocation, context, to, embedded, reference) IN
         /\ g.nodes[1].fields.id = allocation.ids[1] /\ g.nodes[1].fields.actor = Actor
         /\ g.nodes[1].to = to /\ g.last = reference
         /\ IsSeq(g.nodes) /\ Len(g.nodes) = Len(embedded) + 1
         /\ \A k \in 1 .. Len(embedded) : g.nodes[k + 1] = embedded[k]
<1> DEFINE root == [type |-> type, property |-> "", context |-> context, to |-> to,
                    content |-> "", respelled |-> FALSE, valid |-> TRUE,
                    fields |-> [id |-> allocation.ids[1], actor |-> Actor,
                                attributedTo |-> Absent,
                                published |-> allocation.timestamp, updated |-> Absent]]
           first == <<root>>
           nodes == first \o embedded
           S == {root} \union {embedded[k] : k \in DOMAIN embedded}
           g == Generated(type, allocation, context, to, embedded, reference)
<1>1. root.fields.id = allocation.ids[1] /\ root.fields.actor = Actor /\ root.to = to
  OBVIOUS
<1>2. g = [nodes |-> nodes, last |-> reference]
  BY DEF Generated
<1> HIDE DEF root, g
<1>3. first \in Seq(S) /\ Len(first) = 1 /\ first[1] = root
  OBVIOUS
<1>4. embedded \in Seq(S) /\ Len(embedded) \in Nat
  <2>1. {embedded[k] : k \in DOMAIN embedded} \subseteq S
    OBVIOUS
  <2>2. embedded \in Seq({embedded[k] : k \in DOMAIN embedded})
    BY DEF IsSeq
  <2> HIDE DEF S
  <2> QED
    BY <2>1, <2>2, SeqMonotonic, LenProperties
<1> HIDE DEF S, first
<1>5. nodes \in Seq(S) /\ Len(nodes) = 1 + Len(embedded)
      /\ \A k \in 1 .. 1 + Len(embedded) :
           nodes[k] = IF k <= 1 THEN first[k] ELSE embedded[k - 1]
  BY <1>3, <1>4, ConcatProperties
<1>6. nodes[1] = root
  BY <1>3, <1>4, <1>5
<1>7. ASSUME NEW k \in 1 .. Len(embedded) PROVE nodes[k + 1] = embedded[k]
  <2>1. k + 1 \in 1 .. 1 + Len(embedded) /\ ~(k + 1 <= 1) /\ (k + 1) - 1 = k
    BY <1>4
  <2> QED
    BY <1>5, <2>1
<1>8. IsSeq(nodes) /\ Len(nodes) = Len(embedded) + 1
  <2> HIDE DEF nodes
  <2>1. \A k \in DOMAIN nodes : nodes[k] \in {nodes[l] : l \in DOMAIN nodes}
    OBVIOUS
  <2>2. DOMAIN nodes = 1 .. Len(nodes) /\ Len(nodes) \in Nat
        /\ nodes = [k \in 1 .. Len(nodes) |-> nodes[k]]
    BY <1>5, LenProperties
  <2>3. IsSeq(nodes)
    BY <2>1, <2>2 DEF IsSeq
  <2> QED
    BY <1>4, <1>5, <2>3
<1> HIDE DEF nodes
<1>9. g.nodes = nodes /\ g.last = reference
  BY <1>2
<1> QED
  BY <1>1, <1>6, <1>7, <1>8, <1>9 DEF g

\* What ChangeIsFaithful says of the object before and the resources saved.
Faithful(o, resources, deletes) ==
  LET activity == resources[Len(resources)]
      root == activity.document.nodes[1]
      old == Newest(o).document.nodes[1]
      version == resources[1].document.nodes[1]
  IN /\ root.fields.id = activity.iri /\ root.fields.actor = Actor
     /\ deletes => /\ activity.document.last.iri = Object
                   /\ Addressees(root.to) = o.addressing
     /\ ~deletes => /\ version.type = old.type
                    /\ version.fields.id = Object /\ version.fields.attributedTo = Actor
                    /\ version.fields.published = old.fields.published
                    /\ Carries(activity.document, 1, resources[1])
                    /\ Addressees(root.to) = Addressees(version.to)

LEMMA FaithfulIs ==
  ASSUME NEW s
  PROVE  ChangeIsFaithful(s) <=>
           Faithful(s.before, s.resources, issued[s.token].request.operation = "delete")
BY DEF ChangeIsFaithful, Faithful, Newest

LEMMA DeleteFaithful ==
  ASSUME IsTarget(object), NEW q, NEW allocation, ~PrepareDelete(q, allocation).fails
  PROVE  Faithful(object, PrepareDelete(q, allocation).resources, TRUE)
<1> DEFINE nodes == HeadRevision.document.nodes
           to == IF Readable(nodes) THEN nodes[1].to ELSE object.addressing
           context == IF Readable(nodes) THEN nodes[1].context ELSE {"as"}
           reference == [property |-> "object", iri |-> Object]
           delete == Generated("Delete", allocation, context, to, <<>>, reference)
           resource == Resource(allocation.ids[1], "activity", TRUE, delete)
           resources == PrepareDelete(q, allocation).resources
<1>1. resources = <<resource>>
  BY DeleteIs DEF Deleted
<1>2. object.addressing = Addressees(to)
  BY DEF IsTarget, HeadRevision
<1>3. reference.iri = Object /\ IsSeq(<<>>)
  BY EmptySeq DEF IsSeq
<1> HIDE DEF to, context, reference
<1>4. /\ delete.nodes[1].fields.id = allocation.ids[1] /\ delete.nodes[1].fields.actor = Actor
      /\ delete.nodes[1].to = to /\ delete.last = reference
  BY <1>3, GeneratedIs
<1> HIDE DEF delete
<1>5. resource.iri = allocation.ids[1] /\ resource.document = delete
  BY DEF Resource
<1> HIDE DEF resource, resources
<1>6. Len(resources) = 1 /\ resources[1] = resource
  BY <1>1
<1> QED
  BY <1>2, <1>3, <1>4, <1>5, <1>6 DEF Faithful, resources

\* A version is the object's, by the actor and published when it was.
LEMMA VersionIs ==
  ASSUME NEW nodes, IsDocument(nodes), NEW allocation, NEW current,
         current.fields.published = Absent => nodes[1].fields.published = Absent
  PROVE  LET version == Version(nodes, allocation, current) IN
         /\ IsDocument(version.nodes) /\ 1 \in DOMAIN nodes
         /\ version.last = NoReference
         /\ version.nodes[1].type = nodes[1].type /\ version.nodes[1].to = nodes[1].to
         /\ version.nodes[1].fields.id = Object
         /\ version.nodes[1].fields.attributedTo = Actor
         /\ version.nodes[1].fields.published = current.fields.published
<1> DEFINE published == current.fields.published
           own == EditFields(allocation, published)
           version == Version(nodes, allocation, current)
           filled == FillFields(nodes, own)
<1>1. version = [nodes |-> filled, last |-> NoReference]
  BY DEF Version
<1>2. 1 \in DOMAIN nodes
  BY SeqIs, EmptySeq DEF IsDocument, IsSeq
<1>3. /\ IsDocument(filled) /\ filled[1].type = nodes[1].type /\ filled[1].to = nodes[1].to
      /\ \A p \in DOMAIN nodes[1].fields :
           filled[1].fields[p] = OwnedValue(own, 1, p, nodes[1].fields[p])
  <2> HIDE DEF own
  <2> QED
    BY <1>2, FillFieldsIs
<1>4. {"id", "attributedTo", "published"} \subseteq DOMAIN nodes[1].fields
  BY <1>2 DEF IsDocument, IsNode
<1>5. \A f : f \in own <=>
        \/ f = Owned(1, "id", Object)
        \/ f = Owned(1, "attributedTo", Actor)
        \/ f = Owned(1, "updated", allocation.timestamp)
        \/ published # Absent /\ f = Owned(1, "published", published)
  <2> HIDE DEF published
  <2> DEFINE E == IF published = Absent THEN {} ELSE {Owned(1, "published", published)}
             B == {Owned(1, "id", Object), Owned(1, "attributedTo", Actor),
                   Owned(1, "updated", allocation.timestamp)}
  <2>1. own = B \union E
    BY DEF EditFields
  <2>2. \A f : f \in E <=> published # Absent /\ f = Owned(1, "published", published)
    <3>1. CASE published = Absent
      BY <3>1
    <3>2. CASE published # Absent
      BY <3>2
    <3> QED
      BY <3>1, <3>2
  <2>3. \A f : f \in B <=>
          \/ f = Owned(1, "id", Object)
          \/ f = Owned(1, "attributedTo", Actor)
          \/ f = Owned(1, "updated", allocation.timestamp)
    OBVIOUS
  <2> HIDE DEF own, E, B
  <2> QED
    BY <2>1, <2>2, <2>3
<1>6. \A j, q, v : /\ Owned(j, q, v).at = j /\ Owned(j, q, v).property = q
                   /\ Owned(j, q, v).value = v
  BY DEF Owned
<1> HIDE DEF own, filled, published
<1>7. \A given : OwnedValue(own, 1, "id", given) = Object
  <2>1. \A f \in own : f.at = 1 /\ f.property = "id" => f.value = Object
    BY <1>5, <1>6
  <2>2. \E f \in own : f.at = 1 /\ f.property = "id"
    <3>1. Owned(1, "id", Object) \in own
      BY <1>5
    <3> QED
      BY <1>6, <3>1
  <2> QED
    BY <2>1, <2>2 DEF OwnedValue
<1>8. \A given : OwnedValue(own, 1, "attributedTo", given) = Actor
  <2>1. \A f \in own : f.at = 1 /\ f.property = "attributedTo" => f.value = Actor
    BY <1>5, <1>6
  <2>2. \E f \in own : f.at = 1 /\ f.property = "attributedTo"
    <3>1. Owned(1, "attributedTo", Actor) \in own
      BY <1>5
    <3> QED
      BY <1>6, <3>1
  <2> QED
    BY <2>1, <2>2 DEF OwnedValue
<1>9. OwnedValue(own, 1, "published", nodes[1].fields.published) = published
  <2>1. \A f \in own : f.at = 1 /\ f.property = "published" =>
          published # Absent /\ f.value = published
    BY <1>5, <1>6
  <2>2. CASE published # Absent
    <3>1. \E f \in own : f.at = 1 /\ f.property = "published"
      BY <1>5, <1>6, <2>2
    <3> QED
      BY <2>1, <3>1 DEF OwnedValue
  <2>3. CASE published = Absent
    <3>1. ~(\E f \in own : f.at = 1 /\ f.property = "published")
      BY <2>1, <2>3
    <3>2. OwnedValue(own, 1, "published", nodes[1].fields.published) = nodes[1].fields.published
      BY <3>1 DEF OwnedValue
    <3> QED
      BY <2>3, <3>2 DEF published
  <2> QED
    BY <2>2, <2>3
<1>10. /\ filled[1].fields["id"] = Object /\ filled[1].fields["attributedTo"] = Actor
       /\ filled[1].fields["published"] = published
  BY <1>3, <1>4, <1>7, <1>8, <1>9
<1> HIDE DEF version
<1>11. version.nodes = filled /\ version.last = NoReference
  BY <1>1
<1> QED
  BY <1>2, <1>3, <1>10, <1>11 DEF version, published

\* What the activity embeds of a version is the version, but for its context.
LEMMA EmbeddedIs ==
  ASSUME NEW nodes, IsDocument(nodes)
  PROVE  LET embedded == EmbeddedVersion(nodes) IN
         /\ IsSeq(embedded) /\ DOMAIN embedded = DOMAIN nodes /\ Len(embedded) = Len(nodes)
         /\ embedded[1].fields = nodes[1].fields
         /\ \A i \in DOMAIN nodes \ {1} : embedded[i] = nodes[i]
<1> DEFINE n == nodes[1]
           context == {}
           property == "object"
           l == [n EXCEPT !.context = context]
           m == [n EXCEPT !.context = context, !.property = property]
           first == [nodes EXCEPT ![1] = l]
           whole == [nodes EXCEPT ![1] = m]
           embedded == EmbeddedVersion(nodes)
<1>1. 1 \in DOMAIN nodes /\ IsNode(n) /\ IsSeq(nodes)
  BY SeqIs, EmptySeq DEF IsDocument, IsSeq
<1>2. embedded = whole
  <2> HIDE DEF context, property
  <2>1. embedded = [nodes EXCEPT ![1].context = context, ![1].property = property]
    BY DEF EmbeddedVersion, context, property
  <2>2. [nodes EXCEPT ![1].context = context] = first
    OBVIOUS
  <2>3. [nodes EXCEPT ![1].context = context, ![1].property = property]
          = [first EXCEPT ![1].property = property]
    OBVIOUS
  <2>4. first[1] = l
    BY <1>1
  <2>5. m = [l EXCEPT !.property = property]
    OBVIOUS
  <2> HIDE DEF l, m
  <2>6. [first EXCEPT ![1].property = property] = [first EXCEPT ![1] = m]
    <3> HIDE DEF first
    <3> QED
      BY <2>4, <2>5
  <2>7. [first EXCEPT ![1] = m] = whole
    OBVIOUS
  <2> HIDE DEF first, whole, embedded
  <2> QED
    BY <2>1, <2>3, <2>6, <2>7
<1>3. m.fields = n.fields
  <2> HIDE DEF context, property, n
  <2> QED
    BY <1>1, NodeKeeps
<1> HIDE DEF m, embedded
<1>4. DOMAIN whole = DOMAIN nodes /\ whole[1] = m /\ \A i \in DOMAIN nodes \ {1} : whole[i] = nodes[i]
  BY <1>1
<1>5. Len(nodes) \in Nat /\ DOMAIN nodes = 1 .. Len(nodes)
  BY <1>1, SeqIs
<1>6. Len(whole) = Len(nodes)
  BY <1>5
<1>7. whole = [k \in 1 .. Len(nodes) |-> whole[k]]
  BY <1>5
<1> HIDE DEF whole
<1>8. IsSeq(whole)
  BY <1>4, <1>5, <1>7 DEF IsSeq
<1> QED
  BY <1>2, <1>3, <1>4, <1>6, <1>8 DEF embedded

LEMMA InnerAlike ==
  ASSUME NEW a, IsSeq(a), NEW b, IsSeq(b), b # <<>>, Len(a) = Len(b) + 1,
         \A k \in 2 .. Len(b) : a[k + 1] = b[k]
  PROVE  SubSeq(a, 3, Len(a)) = Tail(b)
<1> DEFINE S == {a[k] : k \in DOMAIN a} \union {b[k] : k \in DOMAIN b}
           n == Len(b)
           rest == SubSeq(a, 3, Len(a))
           tail == Tail(b)
<1>1. a \in Seq(S) /\ b \in Seq(S)
  <2>1. {a[k] : k \in DOMAIN a} \subseteq S /\ {b[k] : k \in DOMAIN b} \subseteq S
    OBVIOUS
  <2>2. a \in Seq({a[k] : k \in DOMAIN a}) /\ b \in Seq({b[k] : k \in DOMAIN b})
    BY DEF IsSeq
  <2> HIDE DEF S
  <2>3. a \in Seq(S)
    BY <2>1, <2>2, SeqMonotonic
  <2>4. b \in Seq(S)
    BY <2>1, <2>2, SeqMonotonic
  <2> QED
    BY <2>3, <2>4
<1> HIDE DEF S
<1>2. n \in Nat \ {0} /\ Len(a) = n + 1
  BY <1>1, EmptySeq, LenProperties
<1>3. \A k \in 3 .. n + 1 : a[k] \in S
  <2> HIDE DEF n
  <2> QED
    BY <1>1, <1>2, ElementOfSeq
<1> HIDE DEF n
<1>4. /\ rest \in Seq(S) /\ Len(rest) = (IF 3 <= n + 1 THEN (n + 1) - 3 + 1 ELSE 0)
      /\ \A k \in 1 .. (n + 1) - 3 + 1 : rest[k] = a[3 + k - 1]
  BY <1>2, <1>3, SubSeqProperties
<1>5. /\ tail \in Seq(S) /\ Len(tail) = Len(b) - 1
      /\ \A k \in 1 .. Len(tail) : tail[k] = b[k + 1]
  BY <1>1, HeadTailProperties
<1> HIDE DEF rest, tail
<1>6. Len(rest) = n - 1 /\ Len(tail) = n - 1
  BY <1>2, <1>4, <1>5 DEF n
<1>7. ASSUME NEW k \in 1 .. n - 1 PROVE rest[k] = tail[k]
  <2>1. k \in 1 .. (n + 1) - 3 + 1 /\ 3 + k - 1 = (k + 1) + 1 /\ k + 1 \in 2 .. n
    BY <1>2
  <2>2. rest[k] = a[(k + 1) + 1] /\ tail[k] = b[k + 1]
    BY <1>4, <1>5, <1>6, <2>1
  <2> QED
    BY <2>1, <2>2 DEF n
<1> QED
  BY <1>4, <1>5, <1>6, <1>7, SeqEqual DEF rest, tail

LEMMA EditFaithful ==
  ASSUME NEW q, IsRequest(q), q.operation = "edit", NEW allocation,
         ~PrepareEdit(q, allocation).fails
  PROVE  Faithful(object, PrepareEdit(q, allocation).resources, FALSE)
<1> DEFINE nodes == Recognized(q.document, HeadNode, object.columns # <<>>)
           version == Version(nodes, allocation, HeadNode)
           embedded == EmbeddedVersion(version.nodes)
           update == Generated("Update", allocation, nodes[1].context, nodes[1].to,
                               embedded, NoReference)
           first == Resource(Object, "object", FALSE, version)
           second == Resource(allocation.ids[1], "activity", TRUE, update)
           resources == PrepareEdit(q, allocation).resources
<1>1. /\ resources = <<first, second>> /\ nodes[1].type = HeadNode.type
      /\ HeadNode.fields.published = Absent => nodes[1].fields.published = Absent
  BY EditIs DEF Edited, EditResources
<1>2. IsDocument(nodes)
  <2>1. IsDocument(q.document)
    BY DEF IsRequest
  <2> QED
    BY <2>1, RecognizedIs
<1> HIDE DEF nodes
<1>3. /\ IsDocument(version.nodes) /\ version.last = NoReference
      /\ version.nodes[1].type = HeadNode.type /\ version.nodes[1].to = nodes[1].to
      /\ version.nodes[1].fields.id = Object
      /\ version.nodes[1].fields.attributedTo = Actor
      /\ version.nodes[1].fields.published = HeadNode.fields.published
  BY <1>1, <1>2, VersionIs
<1> HIDE DEF version
<1>4. /\ IsSeq(embedded) /\ DOMAIN embedded = DOMAIN version.nodes
      /\ Len(embedded) = Len(version.nodes)
      /\ embedded[1].fields = version.nodes[1].fields
      /\ \A i \in DOMAIN version.nodes \ {1} : embedded[i] = version.nodes[i]
  BY <1>3, EmbeddedIs
<1> HIDE DEF embedded
<1>5. /\ update.nodes[1].fields.id = allocation.ids[1] /\ update.nodes[1].fields.actor = Actor
      /\ update.nodes[1].to = nodes[1].to /\ update.last = NoReference
      /\ IsSeq(update.nodes) /\ Len(update.nodes) = Len(embedded) + 1
      /\ \A k \in 1 .. Len(embedded) : update.nodes[k + 1] = embedded[k]
  BY <1>4, GeneratedIs
<1> HIDE DEF update
<1>6. /\ first.document = version /\ second.iri = allocation.ids[1]
      /\ second.document = update
  BY DEF Resource
<1> HIDE DEF first, second, resources
<1>7. Len(resources) = 2 /\ resources[1] = first /\ resources[2] = second
  BY <1>1
<1>8. /\ IsSeq(version.nodes) /\ version.nodes # <<>>
      /\ Len(version.nodes) \in Nat \ {0} /\ DOMAIN version.nodes = 1 .. Len(version.nodes)
  BY <1>3, SeqIs, EmptySeq DEF IsDocument, IsSeq
<1>9. Carries(update, 1, first)
  <2>1. Len(update.nodes) > 1
    BY <1>4, <1>5, <1>8
  <2>2. update.nodes[2].fields = version.nodes[1].fields
    <3>1. 1 \in 1 .. Len(embedded) /\ 1 + 1 = 2
      BY <1>4, <1>8
    <3>2. update.nodes[1 + 1] = embedded[1]
      BY <1>5, <3>1
    <3> QED
      BY <1>4, <3>1, <3>2
  <2>3. \A k \in 2 .. Len(version.nodes) : update.nodes[k + 1] = version.nodes[k]
    <3>1. \A k \in 2 .. Len(version.nodes) :
            k \in 1 .. Len(embedded) /\ k \in DOMAIN version.nodes \ {1}
      BY <1>4, <1>8
    <3> QED
      BY <1>4, <1>5, <3>1
  <2>4. Len(update.nodes) = Len(version.nodes) + 1
    BY <1>4, <1>5
  <2>5. SubSeq(update.nodes, 3, Len(update.nodes)) = Tail(version.nodes)
    BY <1>5, <1>8, <2>3, <2>4, InnerAlike
  <2> QED
    BY <1>3, <1>5, <1>6, <2>1, <2>2, <2>5 DEF Carries
<1> QED
  BY <1>3, <1>5, <1>6, <1>7, <1>9 DEF Faithful, resources, HeadNode, HeadRevision, Newest

LEMMA OwnedGrows ==
  ASSUME NEW resources, NEW alive, NEW iris, NEW more, iris \subseteq more,
         OwnedIn(resources, alive, iris)
  PROVE  OwnedIn(resources, alive, more)
BY DEF OwnedIn, OwnIdentity

\* What was saved stays its own as more IRIs become known.
SavedAsOwn(k) ==
  IF issued[saved[k].token].request.operation = "create"
  THEN OwnedIn(saved[k].resources, saved[k].living, known)
  ELSE Faithful(saved[k].before, saved[k].resources,
                issued[saved[k].token].request.operation = "delete")
SavesInv ==
  /\ WritesInv
  /\ {Actor, Colleague, Object} \subseteq known /\ living \subseteq {Colleague}
  /\ \A k \in DOMAIN saved : SavedAsOwn(k)

LEMMA SavesKeep ==
  ASSUME SavesInv, known \subseteq known', NEW k \in DOMAIN saved, saved'[k] = saved[k],
         issued'[saved[k].token].request = issued[saved[k].token].request
  PROVE  SavedAsOwn(k)'
<1>1. SavedAsOwn(k)
  BY DEF SavesInv
<1>2. ASSUME OwnedIn(saved[k].resources, saved[k].living, known)
      PROVE  OwnedIn(saved[k].resources, saved[k].living, known)'
  <2>1. ASSUME NEW more, known \subseteq more
        PROVE  OwnedIn(saved[k].resources, saved[k].living, more)
    BY <1>2, <2>1, OwnedGrows
  <2> QED
    BY <2>1 DEF OwnedIn
<1> QED
  BY <1>1, <1>2 DEF SavedAsOwn

LEMMA CommitOwned ==
  ASSUME SavesInv, NEW a, NEW q \in WriteRequests, NEW n \in DOMAIN issued,
         CommitLocalWrite(a, q, n)
  PROVE  SavesInv'
<1> DEFINE allocation == issued[n].allocation
           prepared == PrepareWrite(q, allocation)
           resources == prepared.resources
           created == SavedIris(resources) \ {Object}
           more == known \union created
           s == [token |-> n, account |-> a, resources |-> resources, living |-> living,
                 before |-> object]
<1>1. /\ issued[n].request = Bindable(q) /\ ~prepared.fails /\ known' = more
      /\ saved' = Append(saved, s) /\ UNCHANGED <<living, issued>>
  BY DEF CommitLocalWrite, ReadToken, SavedIris
<1>2. WritesInv' /\ IsRequest(q) /\ Bindable(q).operation = q.operation
  BY WriteAssumption, BindableIs, CommitStep DEF SavesInv
<1>3. IsTarget(object) /\ IsSeq(saved)
  BY DEF SavesInv, WritesInv
<1>4. q.operation = "create" => OwnedIn(resources, living, more)
  <2> SUFFICES ASSUME q.operation = "create" PROVE OwnedIn(resources, living, more)
    OBVIOUS
  <2>1. prepared = PrepareCreate(q, allocation)
    BY DEF PrepareWrite
  <2>2. LocalActorIris \union known \subseteq more
    BY DEF SavesInv, LocalActorIris
  <2>3. SavedIris(resources) \subseteq more
    BY DEF SavesInv
  <2> HIDE DEF more, prepared, allocation
  <2> QED
    BY <1>1, <1>2, <2>1, <2>2, <2>3, CreateOwned
<1>5. q.operation # "create" => Faithful(object, resources, q.operation = "delete")
  <2>1. CASE q.operation = "edit"
    <3>1. prepared = PrepareEdit(q, allocation)
      BY <2>1 DEF PrepareWrite
    <3>2. Faithful(object, PrepareEdit(q, allocation).resources, FALSE)
      <4> HIDE DEF allocation
      <4> QED
        BY <1>1, <1>2, <2>1, <3>1, EditFaithful
    <3> HIDE DEF prepared
    <3> QED
      BY <2>1, <3>1, <3>2
  <2>2. CASE q.operation = "delete"
    <3>1. prepared = PrepareDelete(q, allocation)
      BY <2>2 DEF PrepareWrite
    <3>2. Faithful(object, PrepareDelete(q, allocation).resources, TRUE)
      <4> HIDE DEF allocation
      <4> QED
        BY <1>1, <1>3, <3>1, DeleteFaithful
    <3> HIDE DEF prepared
    <3> QED
      BY <2>2, <3>1, <3>2
  <2> QED
    BY <1>2, <2>1, <2>2 DEF IsRequest
<1>6. /\ s.token = n /\ s.resources = resources /\ s.living = living /\ s.before = object
  OBVIOUS
<1> HIDE DEF resources, more, s
<1>7. /\ DOMAIN saved' = 1 .. Len(saved) + 1 /\ DOMAIN saved = 1 .. Len(saved)
      /\ Len(saved) \in Nat /\ \A k \in DOMAIN saved : saved'[k] = saved[k]
      /\ saved'[Len(saved) + 1] = s
  BY <1>1, <1>3, SeqAppend, SeqIs
<1>8. known \subseteq known'
  BY <1>1 DEF more
<1>9. ASSUME NEW k \in DOMAIN saved' PROVE SavedAsOwn(k)'
  <2>1. CASE k \in DOMAIN saved
    BY <1>1, <1>7, <1>8, <2>1, SavesKeep
  <2>2. CASE k = Len(saved) + 1
    <3>1. saved'[k] = s /\ issued' = issued /\ issued[n].request.operation = q.operation
      BY <1>1, <1>2, <1>7, <2>2
    <3>2. CASE q.operation = "create"
      <4>1. OwnedIn(s.resources, s.living, more)
        BY <1>4, <1>6, <3>2
      <4>2. OwnedIn(saved[k].resources, saved[k].living, known)'
        BY <1>1, <3>1, <4>1 DEF OwnedIn
      <4> QED
        BY <1>6, <3>1, <3>2, <4>2 DEF SavedAsOwn
    <3>3. CASE q.operation # "create"
      <4>1. Faithful(s.before, s.resources, q.operation = "delete")
        BY <1>5, <1>6, <3>3
      <4> QED
        BY <1>6, <3>1, <3>3, <4>1 DEF SavedAsOwn, Faithful, Newest, Carries
    <3> QED
      BY <3>2, <3>3
  <2> QED
    BY <1>7, <2>1, <2>2
<1> QED
  BY <1>1, <1>2, <1>8, <1>9 DEF SavesInv

LEMMA OthersOwned ==
  ASSUME SavesInv, UNCHANGED saved, known \subseteq known', living' \subseteq living,
         \A n \in DOMAIN issued : issued'[n].request = issued[n].request, WritesInv'
  PROVE  SavesInv'
<1>1. ASSUME NEW k \in DOMAIN saved' PROVE SavedAsOwn(k)'
  <2>1. saved[k].token \in DOMAIN issued /\ k \in DOMAIN saved
    BY DEF SavesInv, WritesInv, SaveOK
  <2> QED
    BY <2>1, SavesKeep
<1> QED
  BY <1>1 DEF SavesInv

LEMMA SavesInvariant == PreparationSpec => []SavesInv
<1>1. PreparationInit => SavesInv
  <2> SUFFICES ASSUME PreparationInit PROVE SavesInv
    OBVIOUS
  <2>1. WritesInv
    BY WritesInitially
  <2>2. saved = <<>> /\ DOMAIN <<>> = {} /\ living = {Colleague}
        /\ known = {Actor, Colleague, Neighbour, Object}
    BY EmptySeq DEF PreparationInit
  <2> QED
    BY <2>1, <2>2 DEF SavesInv
<1>2. SavesInv /\ [PreparationNext]_preparationVars => SavesInv'
  <2> SUFFICES ASSUME SavesInv, [PreparationNext]_preparationVars PROVE SavesInv'
    OBVIOUS
  <2>1. WritesInv /\ IsSeq(issued)
    BY DEF SavesInv, WritesInv
  <2>2. ASSUME NEW a \in WriterAccounts, NEW q \in WriteRequests, PreviewLocalWrite(a, q)
        PROVE  SavesInv'
    <3>1. WritesInv'
      BY <2>1, <2>2, PreviewStep
    <3> DEFINE p == [account |-> a, request |-> Bindable(q),
                     allocation |-> Allocate(q, Len(issued) + 1), expired |-> FALSE,
                     shown |-> PrepareWrite(q, Allocate(q, Len(issued) + 1)).resources]
    <3>2. issued' = Append(issued, p) /\ UNCHANGED <<living, known, saved>>
      BY <2>2 DEF PreviewLocalWrite
    <3> HIDE DEF p
    <3>3. \A n \in DOMAIN issued : issued'[n] = issued[n]
      BY <2>1, <3>2, SeqAppend, SeqIs
    <3> QED
      BY <3>1, <3>2, <3>3, OthersOwned
  <2>3. ASSUME NEW a \in WriterAccounts, NEW q \in WriteRequests, NEW n \in DOMAIN issued,
               CommitLocalWrite(a, q, n)
        PROVE  SavesInv'
    BY <2>3, CommitOwned
  <2>4. ASSUME NEW n \in DOMAIN issued, Expire(n) PROVE SavesInv'
    <3>1. WritesInv'
      BY <2>1, <2>4, ExpireStep
    <3>2. issued' = [issued EXCEPT ![n].expired = TRUE] /\ UNCHANGED <<living, known, saved>>
      BY <2>4 DEF Expire
    <3>3. \A m \in DOMAIN issued : issued'[m].request = issued[m].request
      <4> SUFFICES ASSUME NEW m \in DOMAIN issued
                   PROVE  issued'[m].request = issued[m].request
        OBVIOUS
      <4>1. PreviewOK(m)
        BY <2>1 DEF WritesInv
      <4> QED
        BY <3>2, <4>1 DEF PreviewOK
    <3> QED
      BY <3>1, <3>2, <3>3, OthersOwned
  <2>5. CASE DeleteColleague \/ PromoteMentioned \/ RewriteColumns
             \/ UNCHANGED preparationVars
    <3>1. WritesInv'
      BY <2>1, <2>5, OthersStep
    <3>2. UNCHANGED <<issued, saved>> /\ known \subseteq known' /\ living' \subseteq living
      BY <2>5 DEF DeleteColleague, PromoteMentioned, RewriteColumns, preparationVars
    <3> QED
      BY <3>1, <3>2, OthersOwned
  <2> QED
    BY <2>2, <2>3, <2>4, <2>5 DEF PreparationNext
<1> QED
  BY <1>1, <1>2, PTL DEF PreparationSpec

\* However previews, commits, expiries and other writers interleave, no saved document
\* claims an identity of the instance that is not its own, a parent carries the child
\* saved with it, and an edit or deletion leaves the object's identity, type, author and
\* publication alone (prepareCreate(), prepareEdit() and prepareDelete()).
THEOREM SavesAreOwned == PreparationSpec => []SavedIsOwned
<1>1. SavesInv => SavedIsOwned
  <2> SUFFICES ASSUME SavesInv, NEW k \in DOMAIN saved
               PROVE  IF issued[saved[k].token].request.operation = "create"
                      THEN CreatedIsOwned(saved[k]) ELSE ChangeIsFaithful(saved[k])
    BY DEF SavedIsOwned
  <2>1. SavedAsOwn(k)
    BY DEF SavesInv
  <2> QED
    BY <2>1, OwnedInIs, FaithfulIs DEF SavedAsOwn
<1> QED
  BY <1>1, SavesInvariant, PTL
=============================================================================
