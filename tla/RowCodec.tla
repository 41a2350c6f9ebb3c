------------------------------ MODULE RowCodec ------------------------------
(***************************************************************************)
(* store/sqlite codec.go, attributes.go, tuples.go and the cursors of both *)
(* stores: the bytes in a row and in a cursor, and what reading them back  *)
(* accepts.                                                                *)
(*                                                                         *)
(* A byte is a number below ByteBase and the integers have the widths of   *)
(* the constants.  The text n is written as n times the byte Letter; a     *)
(* text with any other byte in it reads back as a disallowed one.  The 64  *)
(* hexadecimal digits of a revision identifier are one byte.               *)
(***************************************************************************)
EXTENDS Pages

CONSTANTS
  ByteBase, Uint16Bytes, Uint32Bytes, Uint64Bytes,
  NanosPerSecond,
  UnixEpoch,           \* in seconds after the zero time
  MaxInt64             \* of a time in nanoseconds

ASSUME CodecAssumption ==
  /\ ByteBase \in Nat \ {0, 1} /\ NanosPerSecond \in Nat \ {0} /\ UnixEpoch \in Nat
  /\ MaxIdentifierBytes < ByteBase ^ Uint16Bytes
  /\ {MaxStringValueBytes, MaxPolicySourceBytes} \subseteq 0..(ByteBase ^ Uint32Bytes - 1)

codecVersion == 1

-----------------------------------------------------------------------------
(* Integers, texts, times.                                                   *)

digits(n, width) == [i \in 1..width |-> (n \div ByteBase ^ (width - i)) % ByteBase]

number(data) == FoldLeft(LAMBDA sum, byte : sum * ByteBase + byte, 0, data)

uint64(n) == n % (ByteBase ^ Uint64Bytes)

int64(n) == IF 2 * n < ByteBase ^ Uint64Bytes THEN n ELSE n - ByteBase ^ Uint64Bytes

Letter == 1

letters(text) == [i \in 1..bytes(text) |-> IF text < 0 THEN 0 ELSE Letter]

textOf(data) == IF \A i \in DOMAIN data : data[i] = Letter THEN Len(data) ELSE -Len(data)

idLetters(id) == IF id = 0 THEN <<>> ELSE <<id>>

\* ParseRevisionID, and the empty text an event may have in its place.
idOf(data) ==
  CASE data = <<>> -> 0
    [] data # <<>> /\ Len(data) = 1 /\ data[1] > 0 -> data[1]
    [] OTHER -> -1

\* A time is its nanoseconds since the zero time, and is written as seconds since the
\* epoch, negative ones as the uint64 they wrap to, and nanoseconds.  The zero time is
\* refused on both sides.
codecTime(at) ==
  IF at = 0 THEN Nil ELSE <<uint64(at \div NanosPerSecond - UnixEpoch), at % NanosPerSecond>>

\* time.Unix of what was read.
unixTime(seconds, nanos) == int64(uint64(seconds + UnixEpoch)) * NanosPerSecond + nanos

\* Mutant: nanoseconds beyond a second are carried over.
decodeCodecTimeCarrying(seconds, nanos) ==
  IF unixTime(seconds, nanos) = 0 THEN Nil ELSE unixTime(seconds, nanos)

decodeCodecTime(seconds, nanos) ==
  IF nanos >= NanosPerSecond \/ unixTime(seconds, nanos) = 0 THEN Nil ELSE unixTime(seconds, nanos)

-----------------------------------------------------------------------------
(* codecReader.  A layout is a list of [kind, maximum].                      *)

byteField == [kind |-> "byte", maximum |-> 0]
uint32Field == [kind |-> "uint32", maximum |-> 0]
uint64Field == [kind |-> "uint64", maximum |-> 0]
string16 == [kind |-> "string16", maximum |-> MaxIdentifierBytes]
bytes32(maximum) == [kind |-> "bytes32", maximum |-> maximum]

\* The width of a number, or of the length before a text.
width(field) ==
  CASE field.kind = "byte" -> 1
    [] field.kind = "string16" -> Uint16Bytes
    [] field.kind \in {"uint32", "bytes32"} -> Uint32Bytes
    [] field.kind = "uint64" -> Uint64Bytes

isText(field) == field.kind \in {"string16", "bytes32"}

\* The field's value and what is left of the data, or Nil.
readField(field, data) ==
  LET prefix == number(SubSeq(data, 1, width(field)))
      end == width(field) + IF isText(field) THEN prefix ELSE 0
  IN IF Len(data) < width(field) \/ (isText(field) /\ prefix > field.maximum) \/ Len(data) < end
       THEN Nil
       ELSE [value |-> IF isText(field) THEN SubSeq(data, width(field) + 1, end) ELSE prefix,
             rest |-> SubSeq(data, end + 1, Len(data))]

\* The fields one after the other and then done: nothing may be left.
RECURSIVE decodeFields(_, _)
decodeFields(layout, data) ==
  LET behind(value, others) == IF others = Nil THEN Nil ELSE <<value>> \o others
      goOn(read) == IF read = Nil THEN Nil ELSE behind(read.value, decodeFields(Tail(layout), read.rest))
  IN IF layout # <<>> THEN goOn(readField(Head(layout), data))
     ELSE IF data = <<>> THEN <<>> ELSE Nil

encodeField(field, value) ==
  IF isText(field) THEN digits(Len(value), width(field)) \o value ELSE digits(value, width(field))

encodeFields(layout, values) ==
  FlattenSeq([i \in DOMAIN layout |-> encodeField(layout[i], values[i])])

\* Every record starts with its version.
versioned(layout) == <<byteField>> \o layout

encodeRecord(layout, values) == encodeFields(versioned(layout), <<codecVersion>> \o values)

\* The fields behind the version, for Read to make a value of.
decodeRecord(layout, data, Read(_)) ==
  LET sound(value) == IF value.status = "OK" THEN value ELSE refused("INTEGRITY")
      decoded(fields) ==
        IF fields = Nil \/ Head(fields) # codecVersion THEN refused("INTEGRITY")
        ELSE sound(Read(Tail(fields)))
  IN decoded(decodeFields(versioned(layout), data))

-----------------------------------------------------------------------------
(* Revisions, activations and events.                                        *)

timeLayout == <<uint64Field, uint32Field>>

metadataLayout == <<string16, string16>> \o timeLayout

encodeRevisionMetadata(revision) ==
  encodeRecord(metadataLayout, <<letters(revision.namespace), idLetters(revision.id)>>
                               \o codecTime(revision.publishedAt))

decodeRevisionMetadata(data) ==
  LET at(v) == decodeCodecTime(v[3], v[4])
      read(v) ==
        IF at(v) = Nil THEN refused("INTEGRITY")
        ELSE NewRevisionMetadata([namespace |-> textOf(v[1]), id |-> idOf(v[2]), publishedAt |-> at(v)])
  IN decodeRecord(metadataLayout, data, read)

activationLayout == <<string16, string16, string16, uint64Field>> \o timeLayout

encodeActivation(a) ==
  encodeRecord(activationLayout, <<letters(a.namespace), letters(a.slot), idLetters(a.revision), a.generation>>
                                 \o codecTime(a.activatedAt))

decodeActivation(data) ==
  LET at(v) == decodeCodecTime(v[5], v[6])
      read(v) ==
        IF at(v) = Nil THEN refused("INTEGRITY")
        ELSE NewActivation([namespace |-> textOf(v[1]), slot |-> textOf(v[2]), revision |-> idOf(v[3]),
                            generation |-> v[4], activatedAt |-> at(v)])
  IN decodeRecord(activationLayout, data, read)

eventLayout ==
  <<byteField, string16, string16, string16, string16, uint64Field, uint64Field>> \o timeLayout

encodeStateEvent(e) ==
  encodeRecord(eventLayout, <<e.kind, letters(e.namespace), letters(e.cursor), idLetters(e.revision),
                              letters(e.slot), e.slotGeneration, e.dataGeneration>>
                            \o codecTime(e.occurredAt))

decodeStateEvent(data) ==
  LET at(v) == decodeCodecTime(v[8], v[9])
      read(v) ==
        IF at(v) = Nil THEN refused("INTEGRITY")
        ELSE NewStateEvent([kind |-> v[1], namespace |-> textOf(v[2]), cursor |-> textOf(v[3]),
                            revision |-> idOf(v[4]), slot |-> textOf(v[5]), slotGeneration |-> v[6],
                            dataGeneration |-> v[7], occurredAt |-> at(v)])
  IN decodeRecord(eventLayout, data, read)

\* [name, source], or [name |-> 0, source |-> <<>>] when a revision has no provenance.
noProvenance == [name |-> 0, source |-> <<>>]

presentLayout == <<byteField, string16, bytes32(MaxPolicySourceBytes)>>

encodeRevisionProvenance(provenance) ==
  IF provenance = noProvenance THEN encodeRecord(<<byteField>>, <<0>>)
  ELSE encodeRecord(presentLayout, <<1, letters(provenance.name), provenance.source>>)

decodeRevisionProvenance(namespace, data) ==
  LET absent(v) == IF v[1] = 0 THEN made(noProvenance) ELSE refused("INTEGRITY")
      present(v) ==
        IF v[1] = 1 /\ NewPublishRequest(namespace, textOf(v[2]), Len(v[3])).status = "OK"
          THEN made([name |-> textOf(v[2]), source |-> v[3]]) ELSE refused("INTEGRITY")
  IN IF Len(data) > 1 /\ data[2] = 0 THEN decodeRecord(<<byteField>>, data, absent)
     ELSE decodeRecord(presentLayout, data, present)

-----------------------------------------------------------------------------
(* Attributes and tuples.  A row is the encoded key and the columns.         *)

pathLayout(count) == <<uint32Field>> \o [i \in 1..count |-> string16]

encodeAttributePath(path) ==
  encodeRecord(pathLayout(Len(path)), <<Len(path)>> \o [i \in DOMAIN path |-> letters(path[i])])

decodeAttributePath(data) ==
  LET count == number(SubSeq(data, 2, 1 + Uint32Bytes))
      path(v) == [i \in 1..count |-> textOf(v[i + 1])]
      read(v) == constructed(NewAttributeKeyPath(<<5, 5>>, path(v)).status, path(v))
  IN IF Len(data) < 1 + Uint32Bytes \/ count = 0 \/ count > MaxAggregateWorkItems
        \/ count * Uint16Bytes > Len(data) - 1 - Uint32Bytes
       THEN refused("INTEGRITY") ELSE decodeRecord(pathLayout(count), data, read)

keyLayout == <<string16, string16, bytes32(MaxAggregateInputBytes)>>

encodeAttributeKey(key) ==
  encodeRecord(keyLayout, <<letters(key.entity[1]), letters(key.entity[2]), encodeAttributePath(key.path)>>)

decodeAttributeKey(data) ==
  LET read(v) ==
        andThen(decodeAttributePath(v[3]),
                LAMBDA path : NewAttributeKeyPath(<<textOf(v[1]), textOf(v[2])>>, path))
  IN decodeRecord(keyLayout, data, read)

valueLayout(kind) ==
  CASE kind = 1 -> <<byteField, bytes32(MaxStringValueBytes)>>
    [] kind = 2 -> <<byteField, uint64Field>>
    [] kind = 3 -> <<byteField, byteField>>
    [] OTHER -> <<byteField>>

newValue(kind, text, integer, boolean) ==
  [kind |-> kind, text |-> text, integer |-> integer, boolean |-> boolean]

encodeAttributeValue(value) ==
  LET kind == kindRank(value.kind)
  IN encodeRecord(valueLayout(kind),
                  <<kind>> \o CASE kind = 1 -> <<letters(value.text)>>
                                [] kind = 2 -> <<uint64(value.integer)>>
                                [] kind = 3 -> <<IF value.boolean THEN 1 ELSE 0>>
                                [] OTHER -> <<>>)

decodeAttributeValue(data) ==
  LET value(v) == CASE v[1] = 1 -> newValue("string", textOf(v[2]), 0, FALSE)
                    [] v[1] = 2 -> newValue("integer", 0, int64(v[2]), FALSE)
                    [] v[1] = 3 -> newValue("boolean", 0, 0, v[2] = 1)
                    [] OTHER -> newValue("null", 0, 0, FALSE)
      read(v) == constructed(required(/\ v[1] \in 1..4 /\ (v[1] = 3 => v[2] \in {0, 1})
                                      /\ validValue(value(v))),
                             value(v))
  IN IF Len(data) < 2 THEN refused("INTEGRITY") ELSE decodeRecord(valueLayout(data[2]), data, read)

canonicalDurableAttribute(a) ==
  IF NewAttributePath(a.entity, a.path, a.value).status # "OK" THEN refused("INVALID_ARGUMENT")
  ELSE made([key |-> encodeAttributeKey(a), path |-> encodeAttributePath(a.path),
             value |-> encodeAttributeValue(a.value), entity |-> a.entity])

\* The key must be the one of the columns.
decodeDurableAttribute(row) ==
  LET bound(a) == constructed(IF encodeAttributeKey(a) = row.key THEN "OK" ELSE "INTEGRITY", a)
      join(path, value) ==
        LET answer == NewAttributePath(row.entity, path, value)
        IN IF answer.status = "OK" THEN bound(answer.value) ELSE refused("INTEGRITY")
  IN andThen(decodeAttributePath(row.path),
             LAMBDA path : andThen(decodeAttributeValue(row.value), LAMBDA value : join(path, value)))

tupleLayout == [i \in 1..6 |-> string16]

encodeTupleKey(tuple) == encodeRecord(tupleLayout, [i \in 1..6 |-> letters(tuple[i])])

decodeTupleKey(data) ==
  LET tuple(v) == [i \in 1..6 |-> textOf(v[i])]
  IN decodeRecord(tupleLayout, data,
                  LAMBDA v : constructed(required(validTupleKey(tuple(v))), tuple(v)))

\* Nanoseconds since the epoch, the form of a time in a column.
unixNanos(at) == at - UnixEpoch * NanosPerSecond

\* sqliteTimestamp: a time whose nanoseconds an int64 can hold.  The quotient of the least
\* int64 is rounded towards zero.
sqliteTimestamp(at) ==
  /\ at # 0 /\ unixNanos(at) <= MaxInt64
  /\ unixNanos(at) \div NanosPerSecond >= -((MaxInt64 + 1) \div NanosPerSecond)

canonicalDurableTuple(fact) ==
  IF (fact.expiresAt # 0 /\ ~ sqliteTimestamp(fact.expiresAt)) \/ ~ validTuple(fact)
    THEN refused("INVALID_ARGUMENT")
    ELSE made([key |-> encodeTupleKey(fact.tuple), tuple |-> fact.tuple,
               expiresAt |-> IF fact.expiresAt = 0 THEN Nil ELSE unixNanos(fact.expiresAt)])

decodeDurableTuple(row) ==
  LET at == IF row.expiresAt = Nil THEN 0 ELSE row.expiresAt + UnixEpoch * NanosPerSecond
  IN IF /\ row.expiresAt = Nil \/ sqliteTimestamp(at)
        /\ validateDSLRelationship(row.tuple) = "OK"
        /\ encodeTupleKey(row.tuple) = row.key
       THEN made([tuple |-> row.tuple, expiresAt |-> at])
       ELSE refused("INTEGRITY")

=============================================================================
