-------------------------- MODULE DocumentContexts --------------------------
(***************************************************************************)
(* How the inline context of a document is understood (applyContextTerms()  *)
(* and what it calls in models/src/document.ts): the terms a context        *)
(* defines are read in the order of its keys, in rounds, a term as soon as  *)
(* every name its definition uses has been read, until all are understood   *)
(* or a round brings nothing.                                               *)
(*                                                                         *)
(* A value is <<name>> or <<prefix, rest>>, the two sides of its first      *)
(* colon, and an IRI is a sequence of such pieces.  A definition is written *)
(* as its @id, @type, @container and @prefix, <<>> and "" when absent.      *)
(***************************************************************************)
EXTENDS Integers, Sequences, FiniteSets, SequencesExt

CONSTANTS
  ContextNames, \* the names a context defines
  Contexts,     \* contexts: a definition for each name
  StandardTerms \* the terms of the ActivityStreams context, which come first

VARIABLES
  context, \* the context to understand
  order,   \* the order of its keys
  terms,   \* the terms understood so far
  pending, \* the names still to read
  visited, \* how many keys the round has seen
  resolved, \* whether the round understood a name
  refused, \* the names reported, each with the reason
  reading  \* whether applyContextTerms() still runs

contextVars ==
  <<context, order, terms, pending, visited, resolved, refused, reading>>

-----------------------------------------------------------------------------
(* Reading one definition                                                  *)

Keywords == {<<"@id">>, <<"@type">>}
Undefined == <<>>

\* isSupportedContextUri(): nothing is built on a keyword, and some characters
\* are not allowed.
IsSupportedContextUri(iri) ==
  <<iri[1]>> \notin Keywords /\ \A i \in DOMAIN iri : iri[i] # "<>"

\* A keyword, a term, a prefix and what follows it, or an absolute IRI.
ResolveKnown(value, known, unread) ==
  CASE value \in Keywords -> value
    [] value[1] \in DOMAIN known /\ Len(value) = 1 -> known[value[1]].iri
    [] value[1] \in DOMAIN known /\ Len(value) = 2 /\ known[value[1]].prefix ->
         IF IsSupportedContextUri(known[value[1]].iri \o <<value[2]>>)
         THEN known[value[1]].iri \o <<value[2]>> ELSE Undefined
    [] OTHER -> IF Len(value) = 2 /\ IsSupportedContextUri(value)
                THEN value ELSE Undefined

\* What a value is when the names still to be read are not known.
ResolveTerm(value, known, unread) ==
  IF value \notin Keywords /\ value[1] \in unread THEN Undefined
  ELSE ResolveKnown(value, known, unread)

OnlyId(d) == d.type = <<>> /\ d.container = "" /\ d.prefix = ""
Understands(term) == [outcome |-> "term", term |-> term]
Refuses(reason) == [outcome |-> reason]
Waits == [outcome |-> "waits"]

\* readContextTerm() and resolveContextTerm(): the term, the reason it is
\* reported for, or nothing yet.  A definition without @id is not supported,
\* nor are a relative mapping and other keywords; the form "string" may make a
\* prefix of an IRI that ends like one.
ReadContextTerm(d, known, unread) ==
  LET iri  == ResolveTerm(d.id, known, unread)
      type == IF d.type = <<>> THEN <<>> ELSE ResolveTerm(d.type, known, unread)
  IN IF d.id = <<>> \/ d.id[1] \in {"/relative", "@other"}
     THEN Refuses("unsupported_context_form")
     ELSE IF iri = Undefined THEN Waits
     ELSE IF (iri \in Keywords /\ ~OnlyId(d)) \/ d.type = <<"@type">>
          THEN Refuses("unsupported_context_form")
     ELSE IF d.type # <<>> /\ type = Undefined THEN Waits
     ELSE IF (d.container = "@language" /\ type # <<>>) \/ d.container = "@set"
          THEN Refuses("unsupported_context_form")
     ELSE Understands(
            [iri |-> iri, type |-> type, container |-> d.container,
             prefix |-> \/ d.prefix = "true"
                        \/ d.form = "string" /\ Last(iri) = "//ns#"])

\* A term of the standard context may only be defined as it is.
Outcome(name, known, unread) ==
  LET read == ReadContextTerm(context[name], known, unread)
  IN IF /\ read.outcome = "term"
        /\ name \in DOMAIN StandardTerms
        /\ read.term # StandardTerms[name]
     THEN Refuses("unsupported_context_form")
     ELSE read

-----------------------------------------------------------------------------
(* applyContextTerms()                                                     *)

With(known, name, term) ==
  [n \in DOMAIN known \union {name} |-> IF n = name THEN term ELSE known[n]]

ContextInit ==
  /\ context \in Contexts
  /\ order \in {o \in [1 .. Cardinality(ContextNames) -> ContextNames] :
                  \A n \in ContextNames : \E i \in DOMAIN o : o[i] = n}
  /\ terms = [n \in DOMAIN StandardTerms \ ContextNames |-> StandardTerms[n]]
  /\ pending = ContextNames
  /\ visited = 0
  /\ resolved = FALSE
  /\ refused = {}
  /\ reading = TRUE

VisitName ==
  /\ reading
  /\ visited < Len(order)
  /\ visited' = visited + 1
  /\ LET name == order[visited + 1]
         read == Outcome(name, terms, pending)
     IN IF name \notin pending \/ read.outcome = "waits"
        THEN UNCHANGED <<terms, pending, resolved, refused>>
        ELSE IF read.outcome = "term"
             THEN /\ terms' = With(terms, name, read.term)
                  /\ pending' = pending \ {name}
                  /\ resolved' = TRUE
                  /\ UNCHANGED refused
             ELSE /\ refused' = refused \union {[name |-> name, reason |-> read.outcome]}
                  /\ UNCHANGED <<terms, pending, resolved>>
  /\ UNCHANGED <<context, order, reading>>

\* After a round: another one, unless all is read, something was reported, or
\* nothing was understood, which is reported of every name left.
EndRound ==
  /\ reading
  /\ visited = Len(order)
  /\ reading' = (pending # {} /\ refused = {} /\ resolved)
  /\ visited' = IF reading' THEN 0 ELSE visited
  /\ refused' = IF resolved \/ refused # {} THEN refused
                ELSE {[name |-> n, reason |-> "invalid_context"] : n \in pending}
  /\ resolved' = FALSE
  /\ UNCHANGED <<context, order, terms, pending>>

ContextNext == VisitName \/ EndRound

ContextSpec == ContextInit /\ [][ContextNext]_contextVars

-----------------------------------------------------------------------------
(* Properties                                                              *)

\* What the context means, whatever the order of its keys: what is understood
\* when, time after time, every name that can be read is read at once.
Meant ==
  LET known[k \in 0 .. Cardinality(ContextNames)] ==
        IF k = 0
        THEN [n \in DOMAIN StandardTerms \ ContextNames |-> StandardTerms[n]]
        ELSE LET now    == known[k - 1]
                 unread == ContextNames \ DOMAIN now
                 next   == {n \in unread : Outcome(n, now, unread).outcome = "term"}
             IN [n \in DOMAIN now \union next |->
                   IF n \in next THEN Outcome(n, now, unread).term ELSE now[n]]
  IN known[Cardinality(ContextNames)]

\* JSON gives the members of an object no order: a context is accepted or not,
\* and its terms mean the same, whatever the order its terms are written in,
\* and no accepted context changes a term of the standard vocabulary.
ContextIsOrderFree ==
  ~reading =>
    /\ refused = {} <=> ContextNames \subseteq DOMAIN Meant
    /\ refused = {} => /\ terms = Meant
                       /\ \A n \in DOMAIN StandardTerms : terms[n] = StandardTerms[n]
=============================================================================
