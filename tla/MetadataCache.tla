---------------------------- MODULE MetadataCache ----------------------------
(***************************************************************************)
(* Reading parts of a configuration on demand in open-sdbl-db: the         *)
(* acquisitions that read inputs, file names, chosen resources, bootstrap  *)
(* resources and extension structures (metadata_inputs.rs, indexed.rs and  *)
(* the sessions), and the cache that parses every resource once and        *)
(* resolves what it has (metadata_cache.rs).  The caller asks, admits and  *)
(* resolves in any order; each acquisition is a transaction of several     *)
(* statements, between which another session may change the base.          *)
(*                                                                         *)
(* A resource is its name, the sizes of its parts, and what is in it:      *)
(* whether it can be parsed, its decoded size, and the descriptors it      *)
(* declares.  A descriptor is its object, whether its separation settings  *)
(* can be read, and the session parameters these are bound to.             *)
(***************************************************************************)
EXTENDS Integers, Sequences, FiniteSets, SequencesExt, FiniteSetsExt

CONSTANTS
  Stores,       \* the contents the base may have: records [tables, root,
                \*   separators, structures, schema]
  Guids,        \* the file names that are identifiers of objects
  Opaque,       \* the file names that hold no metadata
  Trim,         \* Trim[n]: the name n without trailing spaces; "" is invalid
  Requests,     \* the lists of names a caller asks for
  CountLimit, ByteLimit,         \* Limits: resources and bytes held
  ResourceLimit, TotalLimit,     \* ConfigDecodeLimits: decoded bytes
  Changes       \* bound on changes of the base

VARIABLES
  stored,   \* what the base holds now
  changes,  \* how often it was changed
  layout,   \* whether the session knows the storage layout
  reading,  \* the acquisition under way
  held,     \* the resources in the caller's hands
  inputs,   \* ConfigurationMetadataInputs, or Nothing
  cache,    \* ConfigurationMetadataCache
  facts,    \* what resolve_runtime answered, or Nothing
  reply,    \* the last answer
  admitted  \* history: the resources admit accepted, in order

reads == <<stored, changes, layout, reading>>
owned == <<held, inputs, cache, facts, admitted>>
cacheVars == <<reads, owned, reply>>

Nothing == [is |-> "nothing"]
Refused(why) == [is |-> "error", why |-> why]

Size(resource) == SumFunction(resource.parts)
SizeOf(resources) == SumFunction([i \in DOMAIN resources |-> Size(resources[i])])
SizeOfAll(resources) == SumFunction([r \in resources |-> Size(r)])

-----------------------------------------------------------------------------
(* indexed::names: trimmed, each once, in the order of first mention.       *)

FirstMentions(asked) ==
  {i \in DOMAIN asked : \A k \in 1..i - 1 : Trim[asked[k]] # Trim[asked[i]]}
NthPlace(places, n) == CHOOSE i \in places : Cardinality({k \in places : k <= i}) = n
Distinct(asked) ==
  [n \in 1..Cardinality(FirstMentions(asked)) |-> Trim[asked[NthPlace(FirstMentions(asked), n)]]]

NamesRefused(asked) ==
  (\E i \in DOMAIN asked : Trim[asked[i]] = "") \/ Len(Distinct(asked)) > CountLimit

(* check_retention_totals.                                                  *)
TotalsFit(limit, count, bytes) == count <= limit.count /\ bytes <= limit.bytes

WholeLimit == [count |-> CountLimit, bytes |-> ByteLimit]

-----------------------------------------------------------------------------
(* The acquisitions: BEGIN, the layout unless it is known, the statements   *)
(* of the operation, COMMIT.                                                *)

Statements(operation) ==
  CASE operation = "inputs"     -> <<"db_names", "schema", "live_tables">>
    [] operation = "names"      -> <<"names">>
    [] operation = "resources"  -> <<"totals", "rows">>
    [] operation = "bootstrap"  -> <<"totals", "rows", "totals", "rows", "extensions">>
    [] operation = "structures" -> <<"structures">>

Operations == {"inputs", "names", "resources", "bootstrap", "structures"}

Idle == reading = Nothing

Begin(operation, asked) ==
  /\ Idle
  /\ reading' = [is |-> operation, asked |-> asked, limit |-> WholeLimit, got |-> <<>>, told |-> {},
                 left |-> (IF layout THEN <<>> ELSE <<"layout">>) \o Statements(operation)]
  /\ reply' = Nothing
  /\ UNCHANGED <<stored, changes, layout, owned>>

(* The calls of a session.  A list of names that is refused or empty never  *)
(* reaches the base.                                                        *)
AskResources(asked) ==
  \/ /\ ~NamesRefused(asked) /\ asked # <<>>
     /\ Begin("resources", Distinct(asked))
  \/ /\ Idle /\ (NamesRefused(asked) \/ asked = <<>>)
     /\ reply' = IF asked = <<>> THEN [is |-> "resources", asked |-> asked, got |-> <<>>]
                 ELSE Refused("names")
     /\ UNCHANGED <<reads, owned>>

Ask(operation) == operation # "resources" /\ Begin(operation, <<"root">>)

(* The rows of the asked names, as the one statement finds them.            *)
RowsNow == {r \in stored.tables : r.name \in ToSet(reading.asked)}

(* indexed::ordered: every name asked for, in that order, and no other.     *)
AllThere == \A n \in ToSet(reading.asked) : \E r \in stored.tables : r.name = n
Ordered == [i \in DOMAIN reading.asked |->
              CHOOSE r \in stored.tables : r.name = reading.asked[i]]

(* bound_part and collect_bounded_resources: the limits are checked again   *)
(* on the rows, which are not those the totals were taken of.               *)
RowsFit == TotalsFit(reading.limit, Cardinality(RowsNow), SizeOfAll(RowsNow))

(* collect_names: the limit of bytes bounds the names, a byte each here.    *)
NamesFit(names) == TotalsFit(WholeLimit, Cardinality(names), Cardinality(names))

(* What a statement needs to succeed.                                       *)
Succeeds(statement) ==
  CASE statement = "db_names" -> stored.schema
    [] statement = "names" -> NamesFit({r.name : r \in stored.tables})
    [] statement = "totals" ->
         /\ reading.is = "bootstrap" => CountLimit >= 2
         /\ TotalsFit(reading.limit, Cardinality(RowsNow), SizeOfAll(RowsNow))
    [] statement = "rows" -> RowsFit /\ AllThere
    [] statement = "structures" ->
         /\ TotalsFit(WholeLimit, Len(stored.structures), SizeOf(stored.structures))
         /\ \A i \in DOMAIN stored.structures : ~stored.structures[i].broken
    [] OTHER -> TRUE

(* What it tells: resources in their order, or a set of names.              *)
Resources(statement) ==
  CASE statement = "rows" -> reading.got \o Ordered
    [] statement = "structures" -> stored.structures
    [] OTHER -> reading.got

Told(statement) ==
  CASE statement = "db_names" -> stored.separators
    [] statement = "names" -> {r.name : r \in stored.tables}
    [] OTHER -> reading.told

(* The root names the descriptor, which has what the root leaves of the     *)
(* limits.                                                                  *)
FollowRoot ==
  LET root == Ordered[1] IN
  [reading EXCEPT !.left = Tail(@), !.got = Ordered, !.asked = <<stored.root>>,
                  !.limit = [count |-> @.count - 1, bytes |-> @.bytes - Size(root)]]

Statement ==
  /\ ~Idle /\ reading.left # <<>> /\ Succeeds(Head(reading.left))
  /\ reading' =
       IF reading.is = "bootstrap" /\ Head(reading.left) = "rows" /\ reading.got = <<>>
       THEN FollowRoot
       ELSE [reading EXCEPT !.left = Tail(@), !.got = Resources(Head(reading.left)),
                            !.told = Told(Head(reading.left))]
  /\ UNCHANGED <<stored, changes, layout, owned, reply>>

(* A statement fails, or answers what the caller's limits refuse; ROLLBACK. *)
ReadFails ==
  /\ ~Idle
  /\ reading' = Nothing /\ reply' = Refused("read")
  /\ UNCHANGED <<stored, changes, layout, owned>>

(* COMMIT: the session learns the layout, the caller owns what was read.    *)
Commit ==
  /\ ~Idle /\ reading.left = <<>>
  /\ reading' = Nothing /\ layout' = TRUE
  /\ reply' = [is |-> reading.is, asked |-> reading.asked, got |-> reading.got]
  /\ inputs' = IF reading.is = "inputs" THEN [is |-> "inputs", separators |-> reading.told] ELSE inputs
  /\ held' = IF reading.is \in {"resources", "bootstrap"} THEN held \cup ToSet(reading.got) ELSE held
  /\ UNCHANGED <<stored, changes, cache, facts, admitted>>

(* Another session changes the configuration.                               *)
Change ==
  /\ changes < Changes /\ changes' = changes + 1
  /\ \E other \in Stores : other # stored /\ stored' = other
  /\ UNCHANGED <<layout, reading, owned, reply>>

-----------------------------------------------------------------------------
(* parse_config_resource_bounded: what holds no metadata is not inflated.   *)

DecodedSize(resource) == IF resource.name \in Opaque THEN 0 ELSE resource.decoded
Parses(resource, limit) ==
  resource.name \in Opaque \/ (~resource.broken /\ resource.decoded <= limit)
Parsed(resource) == IF resource.name \in Opaque THEN {} ELSE resource.describes

Empty == [names |-> [n \in {} |-> 0], guids |-> {}, facts |-> <<>>, compressed |-> 0, decoded |-> 0]

(* A resource is accepted whole or not at all; the caller awaits its reads, *)
(* and uses the cache between them.                                         *)
Accepts(kept, resource) ==
  /\ resource.name \notin DOMAIN kept.names
  /\ TotalsFit(WholeLimit, Cardinality(DOMAIN kept.names) + 1, kept.compressed + Size(resource))
  /\ Parses(resource, Min({ResourceLimit, TotalLimit - kept.decoded}))

With(kept, resource) ==
  [names |-> [n \in DOMAIN kept.names \cup {resource.name} |->
                IF n = resource.name THEN Len(kept.facts) + 1 ELSE kept.names[n]],
   guids |-> kept.guids \cup ({resource.name} \cap Guids),
   facts |-> Append(kept.facts, Parsed(resource)),
   compressed |-> kept.compressed + Size(resource),
   decoded |-> kept.decoded + DecodedSize(resource)]

(* Mutant: the identifier is noted before the resource is parsed.           *)
WithoutNoted(kept, resource) == [kept EXCEPT !.guids = @ \cup ({resource.name} \cap Guids)]

Without(kept, resource) == kept

Admit(resource) ==
  /\ Idle
  /\ cache' = IF Accepts(cache, resource) THEN With(cache, resource) ELSE Without(cache, resource)
  /\ admitted' = IF Accepts(cache, resource) THEN Append(admitted, resource) ELSE admitted
  /\ reply' = IF Accepts(cache, resource) THEN [is |-> "admitted"] ELSE Refused("admit")
  /\ UNCHANGED <<reads, held, inputs, facts>>

-----------------------------------------------------------------------------
(* validate_separator_descriptors.                                          *)

Describing(described, guid) == {d \in described : d.object = guid}

Unsupported(separators, described) ==
  \E s \in separators : \E d \in Describing(described, s) : ~d.readable

Absent(separators, described) ==
  {s \in separators : Describing(described, s) = {}}
    \cup {g \in UNION {d.uses : d \in {e \in described : e.object \in separators}} :
            Describing(described, g) = {}}

Validated(separators, described, guids) ==
  IF Unsupported(separators, described) THEN Refused("settings")
  ELSE IF Absent(separators, described) \cap guids # {} THEN Refused("no own descriptor")
  ELSE IF Absent(separators, described) # {}
       THEN [is |-> "missing", objects |-> Absent(separators, described)]
  ELSE [is |-> "resolved", separators |-> separators, described |-> described]

(* ConfigurationMetadataCache::resolve and resolve_runtime.                 *)
ResolvedCache(kept, separators) ==
  Validated(separators, UNION {kept.facts[i] : i \in DOMAIN kept.facts}, kept.guids)

Resolve ==
  /\ Idle /\ inputs # Nothing
  /\ reply' = ResolvedCache(cache, inputs.separators)
  /\ UNCHANGED <<reads, owned>>

ResolveRuntime ==
  /\ Idle /\ inputs # Nothing
  /\ reply' = ResolvedCache(cache, inputs.separators)
  /\ facts' = IF reply'.is = "resolved" THEN reply' ELSE facts
  /\ UNCHANGED <<reads, held, inputs, cache, admitted>>

(* finalize_runtime: of the facts alone, against the identifiers known now. *)
Finalized == Validated(facts.separators, facts.described, cache.guids)

Finalize ==
  /\ Idle /\ facts # Nothing
  /\ reply' = Finalized
  /\ UNCHANGED <<reads, owned>>

-----------------------------------------------------------------------------
CacheInit ==
  /\ stored \in Stores /\ changes = 0 /\ layout = FALSE
  /\ reading = Nothing /\ held = {} /\ inputs = Nothing
  /\ cache = Empty /\ facts = Nothing /\ reply = Nothing /\ admitted = <<>>

CacheNext ==
  \/ \E asked \in Requests : AskResources(asked)
  \/ \E operation \in Operations : Ask(operation)
  \/ Statement \/ ReadFails \/ Commit \/ Change
  \/ \E resource \in held : Admit(resource)
  \/ Resolve \/ ResolveRuntime \/ Finalize

-----------------------------------------------------------------------------
(* resolve_configuration_resources: the same resources, from nothing.       *)

DecodedBefore(resources, i) ==
  SumFunction([k \in 1..i - 1 |-> DecodedSize(resources[k])])

AllParse(resources) ==
  \A i \in DOMAIN resources :
    Parses(resources[i], Min({ResourceLimit, TotalLimit - DecodedBefore(resources, i)}))

ResolveResources(resources, separators) ==
  IF ~AllParse(resources) THEN Refused("resources")
  ELSE Validated(separators, UNION {Parsed(resources[i]) : i \in DOMAIN resources},
                 {resources[i].name : i \in DOMAIN resources} \cap Guids)

(* metadata_cache.rs:92-97: the cache answers what resolving the accepted   *)
(* resources from nothing answers, in whatever order they came and whatever *)
(* was refused between them; each name finds the facts of its own resource, *)
(* and the budgets are those of what is held.                               *)
CacheAgrees ==
  /\ \A separators \in {s.separators : s \in Stores} :
       /\ ResolvedCache(cache, separators) = ResolveResources(admitted, separators)
       /\ ResolvedCache(cache, separators) = ResolveResources(Reverse(admitted), separators)
  /\ DOMAIN cache.names = {admitted[i].name : i \in DOMAIN admitted}
  /\ \A i \in DOMAIN admitted : cache.facts[cache.names[admitted[i].name]] = Parsed(admitted[i])
  /\ cache.compressed = SizeOf(admitted) /\ cache.compressed <= ByteLimit
  /\ cache.decoded <= TotalLimit /\ Len(cache.facts) <= CountLimit

(* indexed.rs:10-27, metadata_inputs.rs:34-37: what an addressed read       *)
(* answers is within the limits although the base grew after its totals     *)
(* were taken, and is the names asked for, each once; the two resources of  *)
(* a bootstrap share one limit.                                             *)
ReadIsBounded ==
  reply.is \in {"resources", "bootstrap"} =>
    /\ Len(reply.got) <= CountLimit /\ SizeOf(reply.got) <= ByteLimit
    /\ Cardinality({reply.got[i].name : i \in DOMAIN reply.got}) = Len(reply.got)
    /\ reply.is = "resources" =>
         [i \in DOMAIN reply.got |-> reply.got[i].name] = reply.asked
=============================================================================
