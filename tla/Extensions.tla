------------------------------ MODULE Extensions ------------------------------
(***************************************************************************)
(* The two readers of the extension store ConfigCAS in open-sdbl-db.  A    *)
(* whole or selected acquisition reads the store, then _ExtensionsInfo,    *)
(* and gives every extension the resources its own root names              *)
(* (group_extensions of pipeline.rs); the access layer reads the roots one *)
(* by one into an index of all extensions and later the rights of single   *)
(* roles through it (extensions.rs).  Each read is a statement of its own, *)
(* and the base may be updated between two of them.                        *)
(*                                                                         *)
(* The store is content-addressed: a key always has the same content and   *)
(* is there or not.  A content is a root (what it lists under which names, *)
(* and which of these is its configuration), a configuration (the objects  *)
(* it declares), a description (the objects it has headers of, and whether *)
(* it is that of a role without rights), rights, or damaged.               *)
(***************************************************************************)
EXTENDS Integers, Sequences, FiniteSets, SequencesExt

CONSTANTS
  Content,      \* key -> what is stored under it
  Infobases,    \* [rows, kept, blobs]: _ExtensionsInfo in its order, the keys
                \*   of the store, and the blobs of _ExtensionsRestruct
  Roles,        \* the roles the access layer asks for, and RightsName[r], the
  RightsName,   \*   name of the rights of role r; both may name resources
  Updates,      \* bound on updates of the base
  Unread, Unusable    \* what has not been read, and what could not be

VARIABLES
  installed, \* what the base holds
  updates,   \* how often it was updated
  keys,      \* the keys the acquisition has read, or Unread
  grouped,   \* its answer: the extensions, Unusable, or Unread
  catalogOf, \* history: the base when _ExtensionsInfo was read for it
  pending,   \* the rows of _ExtensionsInfo the index reader has left, or Unread
  index,     \* ExtensionIndex: names and keys, or Unusable
  rowsOf,    \* history: the base when it read _ExtensionsInfo
  rights     \* role -> the key or mark of what was read of it

acquired == <<keys, grouped, catalogOf>>
indexed  == <<pending, index, rowsOf>>
extensionVars == <<installed, updates, acquired, indexed, rights>>

(* The rights of a role that has none, and of a role nothing was found of.  *)
NoRights == "no rights"
NotFound == "not found"

Is(key, kind) == Content[key].is = kind

-----------------------------------------------------------------------------
(* group_extensions.                                                        *)

(* The row has an order, a root key, and everything its root names is kept. *)
Present(row, kept) ==
  /\ row.order >= 0 /\ row.root \in kept
  /\ Is(row.root, "root") /\ Content[row.root].lists # <<>>
  /\ \A i \in DOMAIN Content[row.root].lists : Content[row.root].lists[i].key \in kept

FirstNamed(resources, name) ==
  resources[CHOOSE i \in DOMAIN resources :
              /\ resources[i].name = name
              /\ \A k \in 1..(i - 1) : resources[k].name # name]

NamesOf(resources) == {resources[i].name : i \in DOMAIN resources}

(* extension_catalog: what the root names its configuration, if readable.   *)
CatalogOf(root) ==
  IF /\ Content[root].configuration \in NamesOf(Content[root].lists)
     /\ Is(FirstNamed(Content[root].lists, Content[root].configuration).key, "configuration")
  THEN Content[FirstNamed(Content[root].lists, Content[root].configuration).key].declares
  ELSE {Unread}

(* extension_objects: every description is readable, and every declared     *)
(* object has a header in the description named by it.                      *)
Descriptions(root) ==
  {i \in DOMAIN Content[root].lists : Content[root].lists[i].name \notin {RightsName[r] : r \in Roles}}

Headers(key) == IF Is(key, "description") THEN Content[key].headers ELSE {}

AllDescribed(root) ==
  /\ CatalogOf(root) # {Unread}
  /\ \A i \in Descriptions(root) : ~Is(Content[root].lists[i].key, "damaged")
  /\ \A o \in CatalogOf(root) : \E i \in Descriptions(root) :
       Content[root].lists[i].name = o /\ o \in Headers(Content[root].lists[i].key)

ObjectsOf(root) ==
  IF AllDescribed(root)
  THEN UNION {Headers(Content[root].lists[i].key) : i \in Descriptions(root)}
  ELSE {Unread}

(* Its own root names the resources of an extension.                        *)
ResourcesOf(row) == Content[row.root].lists

Group(all, kept) ==
  IF \E i \in DOMAIN all : ~Present(all[i], kept) THEN Unusable
  ELSE [i \in DOMAIN all |->
          [name |-> all[i].name, resources |-> ResourcesOf(all[i]),
           catalog |-> CatalogOf(all[i].root), objects |-> ObjectsOf(all[i].root)]]

(* acquire: the store is read before the rows that say what is in it.       *)
ReadStore ==
  /\ keys = Unread /\ keys' = installed.kept
  /\ UNCHANGED <<installed, updates, grouped, catalogOf, indexed, rights>>

ReadCatalog ==
  /\ keys # Unread /\ grouped = Unread
  /\ grouped' = Group(installed.rows, keys) /\ catalogOf' = installed
  /\ UNCHANGED <<installed, updates, keys, indexed, rights>>

-----------------------------------------------------------------------------
(* decode_extension_restructures passes over what it cannot read and what   *)
(* declares nothing; acquire_extensions refuses what it cannot read.        *)
Excluding(blobs, passed) ==
  FlattenSeq([i \in DOMAIN blobs |-> IF blobs[i] \in passed THEN <<>> ELSE <<blobs[i]>>])
Tolerated(blobs) == Excluding(blobs, {"malformed", "empty"})
Strict(blobs) == IF Contains(blobs, "malformed") THEN Unusable ELSE blobs

-----------------------------------------------------------------------------
(* read_extension_index: the rows, then one root after the other.  A row    *)
(* without a root key, or whose root is gone, is passed over.               *)
ReadRows ==
  /\ pending = Unread /\ pending' = installed.rows /\ index' = <<>> /\ rowsOf' = installed
  /\ UNCHANGED <<installed, updates, acquired, rights>>

ReadRoot ==
  /\ pending \notin {Unread, <<>>}
  /\ LET root == Head(pending).root IN
     IF root \notin installed.kept
     THEN pending' = Tail(pending) /\ index' = index
     ELSE IF Is(root, "root") /\ Content[root].lists # <<>>
     THEN pending' = Tail(pending) /\ index' = index \o Content[root].lists
     ELSE pending' = <<>> /\ index' = Unusable
  /\ UNCHANGED <<installed, updates, acquired, rowsOf, rights>>

Indexed == pending = <<>> /\ index # Unusable

(* read_extension_roles, one role: the rights under its name; or a role     *)
(* that says of itself to have none.                                        *)
RightsIn(role, kept) ==
  IF RightsName[role] \in NamesOf(index)
  THEN IF FirstNamed(index, RightsName[role]).key \in kept
       THEN FirstNamed(index, RightsName[role]).key ELSE NotFound
  ELSE IF /\ role \in NamesOf(index)
          /\ FirstNamed(index, role).key \in kept
          /\ Is(FirstNamed(index, role).key, "description")
          /\ Content[FirstNamed(index, role).key].empty
       THEN NoRights ELSE NotFound

(* Rights that are no rights end the read of all of them.                   *)
ReadRole(role) ==
  /\ Indexed /\ rights[role] = ""
  /\ RightsIn(role, installed.kept) \in DOMAIN Content => Is(RightsIn(role, installed.kept), "rights")
  /\ rights' = [rights EXCEPT ![role] = RightsIn(role, installed.kept)]
  /\ UNCHANGED <<installed, updates, acquired, indexed>>

(* The configuration is updated: other rows, other keys.                    *)
Update ==
  /\ updates < Updates /\ updates' = updates + 1
  /\ \E other \in Infobases : other # installed /\ installed' = other
  /\ UNCHANGED <<acquired, indexed, rights>>

ExtensionsInit ==
  /\ installed \in Infobases /\ updates = 0
  /\ keys = Unread /\ grouped = Unread /\ catalogOf = installed
  /\ pending = Unread /\ index = <<>> /\ rowsOf = installed
  /\ rights = [r \in Roles |-> ""]

ExtensionsNext ==
  \/ ReadStore \/ ReadCatalog \/ ReadRows \/ ReadRoot
  \/ \E role \in Roles : ReadRole(role)
  \/ Update

-----------------------------------------------------------------------------
(* pipeline.rs:603-609: what the acquisition answers is what the base told  *)
(* at the moment _ExtensionsInfo was read, every extension with exactly     *)
(* what its own root names, though the store was read at another moment;    *)
(* a name two extensions use stays two resources.  Object headers are       *)
(* answered whole or not at all (pipeline.rs:699-702).                      *)
GroupsOfOneMoment ==
  grouped \notin {Unread, Unusable} =>
    /\ Len(grouped) = Len(catalogOf.rows)
    /\ \A i \in DOMAIN grouped : LET row == catalogOf.rows[i] IN
         /\ row.order >= 0 /\ grouped[i].name = row.name
         /\ grouped[i].resources = Content[row.root].lists
         /\ grouped[i].objects # {Unread} => grouped[i].catalog \subseteq grouped[i].objects

(* extensions.rs:31-37: the access layer sees the same extensions: with no  *)
(* update between, its index is that of the grouped resources, every role   *)
(* whose rights an extension keeps is read, and nothing else is.  Whatever  *)
(* happens between, rights are those an extension of the rows names for     *)
(* that very role, or none are found.                                       *)
Named(all) ==
  UNION {IF all[i].root \in DOMAIN Content /\ Is(all[i].root, "root")
         THEN ToSet(Content[all[i].root].lists) ELSE {} : i \in DOMAIN all}

RightsOfTheRole ==
  \A r \in Roles :
    /\ rights[r] \in DOMAIN Content => [name |-> RightsName[r], key |-> rights[r]] \in Named(rowsOf.rows)
    /\ updates = 0 /\ grouped \notin {Unread, Unusable} /\ rights[r] # "" =>
         (rights[r] = NotFound =>
            \A i \in DOMAIN grouped : RightsName[r] \notin NamesOf(grouped[i].resources))

ReadersTakeTheSame ==
  /\ updates = 0 /\ Indexed /\ grouped \notin {Unread, Unusable} =>
       index = FlattenSeq([i \in DOMAIN grouped |-> grouped[i].resources])
  /\ Strict(installed.blobs) # Unusable =>
       Tolerated(installed.blobs) = Excluding(Strict(installed.blobs), {"empty"})

ExtensionsHold == GroupsOfOneMoment /\ RightsOfTheRole /\ ReadersTakeTheSame
=============================================================================
