--------------------------- MODULE KeySpaceDecoder ---------------------------
(***************************************************************************)
(* The consumer KeySpace decoder (consumer/key_space.go). The allocator    *)
(* KeySpace calls it for every Etcd key it loads or watches: items decode  *)
(* as ShardSpecs, members as ConsumerSpecs, assignments as ReplicaStatus.  *)
(* A decoded spec carries its own identifier, and the decoder rejects one  *)
(* that disagrees with the identifier implied by its Etcd key, so that a   *)
(* spec can be content-addressed into the key it was read from.            *)
(*                                                                         *)
(* An Etcd value is abstracted to what the decoder tells apart: whether it *)
(* unmarshals, whether the message Validates, and the identifier it        *)
(* carries.                                                                *)
(*                                                                         *)
(* The decoder is stateless straight-line code, called by the allocator    *)
(* KeySpace, which is not in this repository; no run checks a property of  *)
(* these operators, since one would only restate their early returns.      *)
(***************************************************************************)
EXTENDS Naturals

CONSTANTS ItemIds,   \* ShardIDs, as Etcd item keys and as ShardSpec.Id
          Zones,     \* member zones
          Suffixes   \* member suffixes

RawShardSpecs    == [unmarshals : BOOLEAN, valid : BOOLEAN, id : ItemIds]
RawConsumerSpecs == [unmarshals : BOOLEAN, valid : BOOLEAN, zone : Zones,
                     suffix : Suffixes]
RawReplicaStatus == [unmarshals : BOOLEAN, valid : BOOLEAN]

NoValue == [none |-> TRUE]

\* The (value, error) pair a decode method returns.
Fail(err) == [value |-> NoValue, err |-> err]
Ok(s)     == [value |-> s, err |-> "none"]

\* Unmarshal, then Validate: the steps every decode method begins with.
Checked(raw, rest) ==
    CASE ~raw.unmarshals -> Fail("unmarshal")
      [] ~raw.valid      -> Fail("validate")
      [] OTHER           -> rest

\* decoder.DecodeItem: the ShardSpec must carry the Item ID of its key.
DecodeItem(id, raw) ==
    Checked(raw, IF raw.id # id THEN Fail("itemIdMismatch") ELSE Ok(raw))

\* decoder.DecodeMember: the ConsumerSpec must carry the Zone, then the
\* Suffix, of its member key.
DecodeMember(zone, suffix, raw) ==
    Checked(raw, CASE raw.zone # zone     -> Fail("zoneMismatch")
                   [] raw.suffix # suffix -> Fail("suffixMismatch")
                   [] OTHER               -> Ok(raw))

\* decoder.DecodeAssignment: a ReplicaStatus, whatever key it is under.
DecodeAssignment(itemID, memberZone, memberSuffix, slot, raw) ==
    Checked(raw, Ok(raw))

\* NewKeySpace: the allocator KeySpace decodes each kind of Etcd key, split
\* into its parts, with the decoder's method for that kind.
Decode(kind, key, raw) ==
    CASE kind = "item"       -> DecodeItem(key[1], raw)
      [] kind = "member"     -> DecodeMember(key[1], key[2], raw)
      [] kind = "assignment" -> DecodeAssignment(key[1], key[2], key[3], key[4], raw)
=============================================================================
