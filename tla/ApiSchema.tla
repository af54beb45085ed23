------------------------------- MODULE ApiSchema -------------------------------
(***************************************************************************)
(* The OpenAPI document of an API target, as three readers take it: the    *)
(* validator, which refuses it or counts its operations; the index, under  *)
(* which a report names an operation; and the plan of the injection        *)
(* launcher.  A document is a record of what the readers look at:          *)
(*   readable  a regular, bounded file of the repository in a known format,*)
(*             without aliases and duplicate keys                          *)
(*   within    depth, strings, collections, schemas and parameters bounded *)
(*   version, keys, refs, servers   those that occur anywhere in it (of    *)
(*             the key "swagger", at the top)                              *)
(*   paths     its path items in order: template, whether that is plain,   *)
(*             the shared parameters, and its entries [method, id, places].*)
(* An entry's method is spelled as in the document, and its id may be      *)
(* NoId; a place is a parameter or a body field, with whether it may hold  *)
(* a string.                                                               *)
(***************************************************************************)
EXTENDS Naturals, FiniteSets, SequencesExt

CONSTANTS
    MaxOperations,    \* maximum_operations of either configuration
    NameOrder,        \* the place of a parameter's name in the alphabet
    NoId              \* no operationId, or one of other characters

ASSUME MaxOperationsAssumption == MaxOperations \in Nat

\* The lists of a document.
WellFormed(schema) ==
    /\ schema.paths \in Seq(ToSet(schema.paths))
    /\ \A path \in ToSet(schema.paths) :
          /\ path.common \in Seq(ToSet(path.common))
          /\ path.entries \in Seq(ToSet(path.entries))
          /\ \A entry \in ToSet(path.entries) : entry.places \in Seq(ToSet(entry.places))

Versions == {"3.0", "3.1"}
Unsupported == {"swagger", "webhooks", "externalDocs", "callbacks", "links",
                "$dynamicRef", "$recursiveRef", "$id", "externalValue"}

\* The validator and the index know a method in any case; two spellings of each.
Verb == [get |-> "GET", head |-> "HEAD", options |-> "OPTIONS", post |-> "POST",
         put |-> "PUT", patch |-> "PATCH", delete |-> "DELETE", trace |-> "TRACE",
         GET |-> "GET", HEAD |-> "HEAD", OPTIONS |-> "OPTIONS", POST |-> "POST",
         PUT |-> "PUT", PATCH |-> "PATCH", DELETE |-> "DELETE", TRACE |-> "TRACE"]
SafeVerbs == {"GET", "HEAD", "OPTIONS"}

\* The operations of a document as pairs of a path item and an entry.
Declared(schema) ==
    UNION {{[path |-> path, entry |-> path.entries[i]] :
               i \in {i \in DOMAIN path.entries : path.entries[i].method \in DOMAIN Verb}} :
           path \in ToSet(schema.paths)}

\* Mutation: identifiers are compared within a path item.
IdentifiedPerPath(declared) ==
    \A d, e \in declared : /\ d.entry.id # NoId
                           /\ d.path = e.path /\ d.entry.id = e.entry.id => d = e

Identified(declared) ==
    \A d, e \in declared : d.entry.id # NoId /\ (d.entry.id = e.entry.id => d = e)

\* validate_openapi_schema.
SchemaRefused(schema) ==
    LET declared == Declared(schema) IN
    \/ ~schema.readable \/ ~schema.within
    \/ schema.version \notin Versions
    \/ schema.keys \cap Unsupported # {}
    \/ schema.refs \ {"local"} # {} \/ schema.servers \ {"target"} # {}
    \/ \E path \in ToSet(schema.paths) : ~path.plain
    \/ \E d \in declared : Verb[d.entry.method] = "TRACE"
    \/ ~Identified(declared)
    \/ Cardinality(declared) \notin 1..MaxOperations

-----------------------------------------------------------------------------
(* operation_index: the last of several spellings of a method counts.       *)

Place(path, entry) == <<Verb[entry.method], path.template>>

OperationIndex(schema) ==
    LET last(path) ==
            {i \in DOMAIN path.entries :
                /\ path.entries[i].method \in DOMAIN Verb
                /\ Verb[path.entries[i].method] # "TRACE"
                /\ \A j \in i + 1 .. Len(path.entries) :
                      path.entries[j].method \in DOMAIN Verb
                        => Verb[path.entries[j].method] # Verb[path.entries[i].method]}
        kept == UNION {{[place |-> Place(path, path.entries[i]), id |-> path.entries[i].id] :
                           i \in last(path)} : path \in ToSet(schema.paths)}
    IN [place \in {k.place : k \in kept} |-> (CHOOSE k \in kept : k.place = place).id]

-----------------------------------------------------------------------------
(* build_injection_plan: methods in lower case only; what is a string and   *)
(* carries no credential, by name.                                          *)

PlannedMethods == {"get", "head", "options", "post", "put", "patch", "delete"}
ReservedHeaders == {"authorization", "proxy-authorization", "cookie", "set-cookie"}

Testable(place) == place.text /\ (place.in = "body" \/ place.name \notin ReservedHeaders)

\* The places of an operation, each with its turn: how many of the same kind come
\* before it when they are sorted by name.
Planned(path, entry) ==
    LET all == path.common \o entry.places
        tested == {i \in DOMAIN all : Testable(all[i])}
        before(i) == {j \in tested :
            /\ all[j].in = all[i].in
            /\ \/ NameOrder[all[j].name] < NameOrder[all[i].name]
               \/ all[j].name = all[i].name /\ j < i}
    IN [id |-> entry.id, verb |-> Verb[entry.method], template |-> path.template,
        places |-> {[place |-> all[i], turn |-> Cardinality(before(i))] : i \in tested}]

ToPlan(schema) == {d \in Declared(schema) : d.entry.method \in PlannedMethods}
InjectionPlan(schema) == {Planned(d.path, d.entry) : d \in ToPlan(schema)}

PlanRefused(schema) == Cardinality(ToPlan(schema)) > MaxOperations
=============================================================================
