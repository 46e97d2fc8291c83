----------------------------- MODULE AttributeQuery ----------------------------
(***************************************************************************)
(* The attributes of UnaFS inodes and the queries over them: set_attribute *)
(* with its two places for a value, the catalog that only ever grows, and  *)
(* query, which finds its candidates in the catalog and decides on what    *)
(* the inodes hold.  How this reaches the device is in UnaFS.tla.          *)
(*                                                                         *)
(* A value is <<type, n>>; values of one type are ordered by n.  The hash  *)
(* of a value ignores its type, as hash_value does, and may be shared by   *)
(* different values, and so may the hash of a key.                         *)
(***************************************************************************)
EXTENDS Naturals, FiniteSets, SequencesExt

CONSTANTS
  Inodes,
  Keys,
  Types,       \* of "int", "string", "vector": the values callers use
  Width,       \* values of each type are numbered from 1 to Width
  KeyHash,     \* function from Keys
  CreateKeys,  \* keys that callers pass to create_inode
  MaxEntries   \* bound: entries of the catalog

VARIABLES
  files,    \* the inodes that exist
  small,    \* inode -> its attributes map
  large,    \* inode -> its large_attributes map
  catalog,  \* the entries, in the order they were added
  \* what the properties talk about, and no code reads
  latest,   \* inode -> the last value given to each key
  missing   \* <<inode, key>> whose last value has no entry

vars == <<files, small, large, catalog, latest, missing>>

Values == Types \X (1 .. Width)
NoValue == <<"none", 0>>

ValueHash(v) == v[2] % 2

\* Which values are too large for the inode.
IsLarge(v) == v[1] # "int" /\ v[2] = Width

\* Mutant: the entry names the hash of the key.
CatalogEntryOfKey(k, v, i) == [key_hash |-> KeyHash[k], val_hash |-> ValueHash(v), inode_id |-> KeyHash[k]]

CatalogEntry(k, v, i) == [key_hash |-> KeyHash[k], val_hash |-> ValueHash(v), inode_id |-> i]

--------------------------------------------------------------------------------

Init ==
  /\ files = {}
  /\ small = [i \in Inodes |-> [k \in Keys |-> NoValue]]
  /\ large = [i \in Inodes |-> [k \in Keys |-> NoValue]]
  /\ catalog = << >>
  /\ latest = [i \in Inodes |-> [k \in Keys |-> NoValue]]
  /\ missing = {}

\* create_inode: the attributes go into the inode as they are, and nowhere else.
CreateInode(i, attrs) ==
  /\ i \notin files
  /\ files' = files \cup {i}
  /\ small' = [small EXCEPT ![i] = [k \in Keys |-> IF k \in CreateKeys THEN attrs[k] ELSE NoValue]]
  /\ latest' = [latest EXCEPT ![i] = small'[i]]
  /\ missing' = missing \cup {<<i, k>> : k \in {c \in CreateKeys : attrs[c] # NoValue}}
  /\ UNCHANGED <<large, catalog>>

\* Mutant: a small value stays when a large one is stored.
StoreBoth(i, k, v) ==
  /\ latest' = [latest EXCEPT ![i][k] = v]
  /\ IF IsLarge(v)
       THEN large' = [large EXCEPT ![i][k] = v] /\ UNCHANGED small
       ELSE small' = [small EXCEPT ![i][k] = v] /\ large' = [large EXCEPT ![i][k] = NoValue]

\* What set_attribute writes to the inode.
Store(i, k, v) ==
  /\ latest' = [latest EXCEPT ![i][k] = v]
  /\ IF IsLarge(v)
       THEN /\ large' = [large EXCEPT ![i][k] = v]
            /\ small' = [small EXCEPT ![i][k] = NoValue]
       ELSE /\ large' = [large EXCEPT ![i][k] = NoValue]
            /\ small' = [small EXCEPT ![i][k] = v]

SetAttribute(i, k, v) ==
  /\ i \in files
  /\ Len(catalog) < MaxEntries
  /\ Store(i, k, v)
  /\ catalog' = Append(catalog, CatalogEntry(k, v, i))
  /\ missing' = missing \ {<<i, k>>}
  /\ UNCHANGED files

\* update_catalog fails: the inode on the device keeps the new value.
SetAttributeFails(i, k, v) ==
  /\ i \in files
  /\ Store(i, k, v)
  /\ missing' = missing \cup {<<i, k>>}
  /\ UNCHANGED <<files, catalog>>

Next ==
  \E i \in Inodes :
    \/ \E attrs \in [CreateKeys -> Values \cup {NoValue}] : CreateInode(i, attrs)
    \/ \E k \in Keys, v \in Values : SetAttribute(i, k, v) \/ SetAttributeFails(i, k, v)

Spec == Init /\ [][Next]_vars

--------------------------------------------------------------------------------
\* Reading attributes back.

\* get_attribute: the inode's own map comes first.
GetAttribute(i, k) == IF small[i][k] # NoValue THEN small[i][k] ELSE large[i][k]

\* check_condition.  Vectors have no order, and are taken to be similar when equal.
CheckCondition(val, op, target) ==
  CASE op = "Eq"  -> val = target
    [] op = "Neq" -> val # target
    [] op = "Gt"  -> val[1] = target[1] /\ val[1] # "vector" /\ val[2] > target[2]
    [] op = "Lt"  -> val[1] = target[1] /\ val[1] # "vector" /\ val[2] < target[2]
    [] op = "SimilarityGt" -> val = target /\ val[1] = "vector"

\* A secondary filter sees strings, and only those kept in the inode.
PassesFilter(i, filter) == filter = << >> \/ small[i][filter[1]] = <<"string", filter[2]>>

\* query: the inodes the catalog knows under the key, and under the value when
\* the operator is equality, filtered by what they hold now.
Query(q) ==
  LET candidates == {e.inode_id : e \in {c \in ToSet(catalog) :
                       /\ c.key_hash = KeyHash[q.key]
                       /\ q.op = "Eq" => c.val_hash = ValueHash(q.value)}}
  IN  {i \in candidates :
         LET val == GetAttribute(i, q.key)
         IN  val # NoValue /\ CheckCondition(val, q.op, q.value) /\ PassesFilter(i, q.filter)}

Queries ==
  {q \in [key : Keys, op : {"Eq", "Neq", "Gt", "Lt", "SimilarityGt"}, value : Values,
          filter : {<< >>} \cup (Keys \X {1})] :
     q.op = "SimilarityGt" => q.value[1] = "vector"}

--------------------------------------------------------------------------------

TypeOK ==
  /\ files \in SUBSET Inodes
  /\ {small, large, latest} \subseteq [Inodes -> [Keys -> Values \cup {NoValue}]]
  /\ catalog \in Seq([key_hash : Range(KeyHash), val_hash : Nat, inode_id : Inodes])
  /\ missing \in SUBSET (Inodes \X Keys)

\* What a query asks for: the inodes whose last value under the key satisfies it.
Matching(q) ==
  {i \in files :
     LET val == latest[i][q.key]
     IN  val # NoValue /\ CheckCondition(val, q.op, q.value) /\ PassesFilter(i, q.filter)}

\* Every query returns the inodes whose last value satisfies it, but for values
\* that were never entered in the catalog: the entries left behind by replaced
\* values, shared hashes and the two places of a value make no difference
\* (set_attribute, query).
QueryExact ==
  \A q \in Queries :
    /\ Query(q) \subseteq Matching(q)
    /\ \A i \in Matching(q) \ Query(q) : <<i, q.key>> \in missing

\* "Retrieve all chat memories for UI startup": what was saved with a type is
\* found by its type.
AllAreRetrieved == \A q \in Queries : q.op = "Eq" => Query(q) = Matching(q)
================================================================================
