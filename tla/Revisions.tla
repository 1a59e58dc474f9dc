------------------------------- MODULE Revisions -------------------------------
(***************************************************************************)
(* A revision is one state of one item: who it is, when it was inserted    *)
(* and last changed, the chunk it lives in, its custom fields, and the     *)
(* chunks it tracks (map-api/src/revision.cc).  This module has no state:  *)
(* it says how revisions are built, compared and merged.                   *)
(***************************************************************************)
EXTENDS Integers, Sequences

--------------------------------------------------------------------------------
(* Custom fields.  A proto::TableField has a type and one optional member   *)
(* per representation; Unset is the default every member is read as.        *)

CppTypes == {"string", "double", "int32", "uint32", "bool", "Id", "HashId", "int64",
             "uint64", "LogicalTime", "Revision", "testBlob", "Blob"}

Members == {"blob", "double", "int", "unsigned_int", "long", "unsigned_long", "string"}

Unset == <<"unset">>

ProtobufTypeEnum == [type \in CppTypes |->
  CASE type = "string" -> "STRING"
    [] type = "double" -> "DOUBLE"
    [] type \in {"int32", "bool"} -> "INT32"
    [] type = "uint32" -> "UINT32"
    [] type \in {"Id", "HashId"} -> "HASH128"
    [] type = "int64" -> "INT64"
    [] type \in {"uint64", "LogicalTime"} -> "UINT64"
    [] OTHER -> "BLOB"]

EmptyField(protoType) == [type |-> protoType, value |-> [m \in Members |-> Unset]]

\* Revision::set: what is written, and where.  An id is stored as its hexadecimal
\* digits, a boolean as 0 or 1, a message as its bytes.
SetField(field, type, v) ==
  LET write(member, stored) == [field EXCEPT !.value[member] = stored]
  IN  CASE type = "string" -> write("string", v)
        [] type = "double" -> write("double", v)
        [] type = "int32" -> write("int", v)
        [] type = "uint32" -> write("unsigned_int", v)
        [] type = "bool" -> write("int", IF v THEN 1 ELSE 0)
        [] type \in {"Id", "HashId"} -> write("string", <<"hex", v>>)
        [] type = "int64" -> write("long", v)
        [] type \in {"uint64", "LogicalTime"} -> write("unsigned_long", v)
        [] OTHER -> write("blob", <<"bytes", v>>)

\* Revision::get
GetField(field, type) ==
  CASE type = "string" -> field.value.string
    [] type = "double" -> field.value.double
    [] type = "int32" -> field.value.int
    [] type = "uint32" -> field.value.unsigned_int
    [] type = "bool" -> field.value.int # 0
    [] type \in {"Id", "HashId"} -> field.value.string[2]
    [] type = "int64" -> field.value.long
    [] type \in {"uint64", "LogicalTime"} -> field.value.unsigned_long
    [] OTHER -> field.value.blob[2]

\* The member fieldMatch compares
ComparedMember(protoType) ==
  CASE protoType = "BLOB" -> "blob"
    [] protoType = "DOUBLE" -> "double"
    [] protoType = "INT32" -> "int"
    [] protoType = "UINT32" -> "unsigned_int"
    [] protoType = "INT64" -> "long"
    [] protoType = "UINT64" -> "unsigned_long"
    [] OTHER -> "string"

fieldMatch(r, other, key) ==
  LET member == ComparedMember(r.fields[key].type)
  IN  r.fields[key].value[member] = other.fields[key].value[member]

areAllCustomFieldsEqual(r, other) == \A key \in DOMAIN r.fields : fieldMatch(r, other, key)

\* A revision with fewer fields than the reference matches it as far as it goes.
structureMatch(r, reference) ==
  \A key \in DOMAIN r.fields \cap DOMAIN reference.fields :
     r.fields[key].type = reference.fields[key].type

\* Revision::operator==
SameRevision(r, other) ==
  /\ structureMatch(r, other)
  /\ other.id = r.id
  /\ other.insertTime = r.insertTime
  /\ other.updateTime = r.updateTime
  /\ other.removed = r.removed
  /\ other.chunk = r.chunk
  /\ areAllCustomFieldsEqual(r, other)

\* The template of a table with one field of each of the given types, as addField builds it
Template(types) ==
  [id |-> Unset, insertTime |-> 0, updateTime |-> 0, removed |-> FALSE, chunk |-> Unset,
   fields |-> [key \in DOMAIN types |-> EmptyField(ProtobufTypeEnum[types[key]])],
   trackees |-> {}]

IsRevision(r) ==
  DOMAIN r = {"id", "insertTime", "updateTime", "removed", "chunk", "fields", "trackees"}

--------------------------------------------------------------------------------
(* Merging.  trackees is the TrackeeMultimap of a revision, as the set of   *)
(* pairs <<table, chunk>>.                                                  *)

MergeTrackees(trackees, other) == trackees \cup other

NoMerge == [merged |-> FALSE]

\* The merged revision, or NoMerge when both sides changed the fields
defaultAutoMergePolicy(conflicting, original, r) ==
  LET conflictInnovates == ~areAllCustomFieldsEqual(conflicting, original)
      thisInnovates == ~areAllCustomFieldsEqual(r, original)
  IN  IF conflictInnovates /\ thisInnovates THEN NoMerge
      ELSE [r EXCEPT !.fields = IF conflictInnovates THEN conflicting.fields ELSE @,
                     !.trackees = MergeTrackees(@, conflicting.trackees)]

\* The CHECKs of defaultAutoMergePolicy
MergeCheck(conflicting, r) ==
  /\ r.id = conflicting.id
  /\ r.insertTime = conflicting.insertTime
  /\ r.chunk = conflicting.chunk
  /\ ~r.removed
  /\ ~conflicting.removed

\* custom is what the first policy of the table that merges makes of them, or NoMerge.
tryAutoMerge(custom, conflicting, original, r) ==
  IF custom # NoMerge THEN custom ELSE defaultAutoMergePolicy(conflicting, original, r)
================================================================================
