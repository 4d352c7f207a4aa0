------------------------------ MODULE UuidSerde ------------------------------
(***************************************************************************)
(* Serialize and Deserialize for Uuid, src/uuid/src/serde.rs. A Uuid is    *)
(* written in the serializer's mode (human-readable: its hyphenated text;  *)
(* compact: its raw bytes) and read back by a deserializer whose mode may  *)
(* differ, or data of any other origin is read. A self-describing format   *)
(* hands the visitor what it holds: a string, a byte buffer or a sequence; *)
(* visit_seq takes one element per step. A Uuid has N bytes (16 in the     *)
(* code, where visit_seq is unrolled 16 times). Uuid::parse_str and        *)
(* Uuid::from_slice belong to the uuid crate, outside this repository, and *)
(* are modelled by their documented results.                               *)
(***************************************************************************)
EXTENDS Naturals, Sequences, SequencesExt

CONSTANTS
    N,       \* bytes of a Uuid (16)
    Bytes,   \* the byte values
    NotU8,   \* a sequence element that does not deserialize as u8
    None     \* no Uuid was written: the data has another origin

ASSUME N \in Nat \ {0} /\ NotU8 \notin Bytes

Modes == {"readable", "compact"}       \* is_human_readable()
Uuids == [1..N -> Bytes]
Garbage == [text |-> "garbage"]        \* a string that is no Uuid text
Text(u) == [text |-> "uuid", uuid |-> u]  \* what encode_lower writes
Str(t) == [kind |-> "str", val |-> t]
Buf(b) == [kind |-> "bytes", val |-> b]
SeqData(s) == [kind |-> "seq", val |-> s]

\* Data of another origin: any string, byte buffer or sequence of up to N + 1
ForeignData ==
    {Str(t) : t \in {Text(u) : u \in Uuids} \cup {Garbage}}
    \cup {Buf(b) : b \in BoundedSeq(Bytes, N + 1)}
    \cup {SeqData(s) : s \in BoundedSeq(Bytes \cup {NotU8}, N + 1)}

Running == [kind |-> "running"]
Ok(u) == [kind |-> "ok", uuid |-> u]
Err(k) == [kind |-> k]                             \* "parse", "type", "element"
ErrLength(n) == [kind |-> "length", found |-> n]   \* invalid length errors

\* Uuid::parse_str and Uuid::from_slice (uuid crate)
ParseStr(t) == IF t = Garbage THEN Err("parse") ELSE Ok(t.uuid)
FromSlice(b) == IF Len(b) = N THEN Ok(b) ELSE ErrLength(Len(b))

VARIABLES
    value,   \* the Uuid serialized, or None
    wmode,   \* the serializer's mode
    rmode,   \* the deserializer's mode
    data,    \* what the format holds
    pc,      \* "serialize", "deserialize", "seq" (in visit_seq), "done"
    bytes,   \* the elements visit_seq has taken
    result   \* what deserialize returned

vars == <<value, wmode, rmode, data, pc, bytes, result>>

Init ==
    /\ rmode \in Modes /\ wmode \in Modes
    /\ \/ value \in Uuids /\ data = None /\ pc = "serialize"
       \/ value = None /\ data \in ForeignData /\ pc = "deserialize"
    /\ bytes = <<>> /\ result = Running

\* Mutant of Serialize: the is_human_readable test inverted
SerializeModeSwapped ==
    /\ pc = "serialize"
    /\ data' = IF wmode = "compact" THEN Str(Text(value)) ELSE Buf(value)
    /\ pc' = "deserialize"
    /\ UNCHANGED <<value, wmode, rmode, bytes, result>>

\* Serialize::serialize: the lower-case hyphenated text, or the 16 bytes
Serialize ==
    /\ pc = "serialize"
    /\ data' = IF wmode = "readable" THEN Str(Text(value)) ELSE Buf(value)
    /\ pc' = "deserialize"
    /\ UNCHANGED <<value, wmode, rmode, bytes, result>>

Return(r) == result' = r /\ pc' = "done"

\* deserialize_str(UuidVisitor): visit_str parses, visit_bytes takes the
\* raw bytes, visit_seq reads element by element
UuidVisit(d) ==
    CASE d.kind = "str" -> Return(ParseStr(d.val)) /\ UNCHANGED bytes
      [] d.kind = "bytes" -> Return(FromSlice(d.val)) /\ UNCHANGED bytes
      [] d.kind = "seq" -> pc' = "seq" /\ bytes' = <<>> /\ UNCHANGED result

\* deserialize_bytes(UuidBytesVisitor): only visit_bytes is implemented;
\* serde's default visit_str and visit_seq return invalid_type
UuidBytesVisit(d) ==
    /\ IF d.kind = "bytes" THEN Return(FromSlice(d.val)) ELSE Return(Err("type"))
    /\ UNCHANGED bytes

Deserialize ==
    /\ pc = "deserialize"
    /\ IF rmode = "readable" THEN UuidVisit(data) ELSE UuidBytesVisit(data)
    /\ UNCHANGED <<value, wmode, rmode, data>>

\* Mutant of NextElement: invalid_length reports one more than it received
NextElementOffByOne ==
    /\ pc = "seq" /\ Len(bytes) < N
    /\ LET k == Len(bytes) IN
       CASE k >= Len(data.val) -> Return(ErrLength(k + 1)) /\ UNCHANGED bytes
         [] data.val[k + 1] = NotU8 -> Return(Err("element")) /\ UNCHANGED bytes
         [] OTHER -> bytes' = Append(bytes, data.val[k + 1]) /\ UNCHANGED <<pc, result>>
    /\ UNCHANGED <<value, wmode, rmode, data>>

\* One `match seq.next_element()? { Some(e) => e, None => return
\* Err(invalid_length(k)) }` of visit_seq: k elements have been taken
NextElement ==
    /\ pc = "seq" /\ Len(bytes) < N
    /\ LET k == Len(bytes) IN
       CASE k >= Len(data.val) -> Return(ErrLength(k)) /\ UNCHANGED bytes
         [] data.val[k + 1] = NotU8 -> Return(Err("element")) /\ UNCHANGED bytes
         [] OTHER -> bytes' = Append(bytes, data.val[k + 1]) /\ UNCHANGED <<pc, result>>
    /\ UNCHANGED <<value, wmode, rmode, data>>

\* Ok(Uuid::from_bytes(bytes)) once all N elements are taken; elements
\* after them are left to the format
SeqDone ==
    /\ pc = "seq" /\ Len(bytes) = N
    /\ Return(Ok(bytes))
    /\ UNCHANGED <<value, wmode, rmode, data, bytes>>

Next == Serialize \/ Deserialize \/ NextElement \/ SeqDone

Spec == Init /\ [][Next]_vars

-----------------------------------------------------------------------------

\* A Uuid read back by a deserializer of the serializer's mode, or by a
\* human-readable one from compact bytes, is the Uuid written; text read
\* by a compact deserializer is refused. No mix of modes yields a
\* different Uuid.
RoundTrip ==
    pc = "done" /\ value # None =>
        IF wmode = "readable" /\ rmode = "compact" THEN result.kind # "ok"
        ELSE result = Ok(value)

\* What deserialize returns for data of any origin, without the visitor:
\* a sequence fails at its first element that is no u8 among the first N,
\* is too short with its own length as invalid_length, and otherwise gives
\* its first N elements.
RefSeq(s) ==
    IF \E k \in 1..Min({Len(s), N}) : s[k] = NotU8 THEN Err("element")
    ELSE IF Len(s) < N THEN ErrLength(Len(s))
    ELSE Ok(SubSeq(s, 1, N))

RefRead(m, d) ==
    CASE d.kind = "bytes" -> FromSlice(d.val)
      [] m = "compact" -> Err("type")
      [] d.kind = "str" -> ParseStr(d.val)
      [] d.kind = "seq" -> RefSeq(d.val)

\* Whatever a human-readable format hands the visitor, deserialize returns
\* RefRead: in particular a sequence of k < N bytes fails with
\* invalid_length(k), so the error names how many elements there were.
ReadMatchesReference ==
    pc = "done" /\ value = None => result = RefRead(rmode, data)

=============================================================================
