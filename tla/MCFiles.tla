-------------------------------- MODULE MCFiles --------------------------------
\* Two sides of the files of UnaFS for TLC, one beside the other: the bytes of one
\* file, and the attributes of all with the queries over them.  They share no state,
\* so a behaviour runs one of them.
EXTENDS Extents, TLC

CONSTANTS Inodes, Keys, Types, Width, KeyHash, CreateKeys, MaxEntries

\* Values are numbered from one, and inodes are created with some of the keys.
ASSUME AttributeAssumption ==
  /\ CreateKeys \subseteq Keys
  /\ Types \subseteq {"int", "string", "vector"}
  /\ DOMAIN KeyHash = Keys
  /\ Width \in Nat \ {0} /\ MaxEntries \in Nat

VARIABLES part, files, small, large, catalog, latest, missing

Attributes == INSTANCE AttributeQuery
bytesVars == <<data, used, theirs, chunks, size, seen>>
attributeVars == <<files, small, large, catalog, latest, missing>>

\* Two keys whose hashes collide.
MCKeyHash == [k \in Keys |-> 7]
InodeSymmetry == Permutations(Inodes)

FilesInit ==
  /\ Init /\ Attributes!Init
  /\ \/ part = "bytes"
     \/ part = "attributes" /\ used = {}

BytesNext == part = "bytes" /\ Next /\ UNCHANGED <<part, attributeVars>>
AttributesNext == part = "attributes" /\ Attributes!Next /\ UNCHANGED <<part, bytesVars>>

FilesSpec ==
  FilesInit /\ [][BytesNext \/ AttributesNext]_<<part, bytesVars, attributeVars>>

--------------------------------------------------------------------------------
\* Every query returns the inodes whose last value satisfies it, but for values that
\* were never entered in the catalog (set_attribute, query).
QueryExact == part = "attributes" => Attributes!QueryExact
================================================================================
