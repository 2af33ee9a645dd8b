---------------------------- MODULE MessageCodec ----------------------------
(***************************************************************************)
(* What protoc generates for a message: its fields in memory, written to   *)
(* the wire and read back.  A message type is a record of                  *)
(*   fields : the kind of each field (its accessors, .pb.h)                *)
(*   order  : the fields by number (its Clear, _InternalParse and          *)
(*            _InternalSerialize, .pb.cc)                                  *)
(* and both ends of a call are built from the same types, so that no field *)
(* is unknown to its reader.  Tags and lengths are abstracted: a message   *)
(* on the wire is a sequence of items, a number and a payload.             *)
(***************************************************************************)
EXTENDS Integers, Sequences, SequencesExt

(***************************************************************************)
(* Text is a sequence of bytes, of which four kinds matter here: a letter  *)
(* of one byte, the two bytes of a longer character, and the end of line.  *)
(***************************************************************************)
Bytes == {"letter", "lead", "rest", "newline"}

\* VerifyUTF8: the two bytes of a long character stand only together.
WellFormed(text) ==
    \A i \in 0..Len(text) :
        (i > 0 /\ text[i] = "lead") <=> (i < Len(text) /\ text[i + 1] = "rest")

\* A field in its initial state.  A timestamp that is not there is <<>>, one
\* that is there a sequence of its value, and Timestamp{} is 0.
DefaultOf(kind) == IF kind \in {"int32", "enum"} THEN 0 ELSE <<>>

\* Mutant: a Clear that forgets the sub-message.
ClearKeepingTime(type, m) ==
    [f \in DOMAIN m |->
        IF type.fields[f] = "message" THEN m[f] ELSE DefaultOf(type.fields[f])]

\* Clear: every field is reset, whatever was in it.
Clear(type, m) == [f \in DOMAIN m |-> DefaultOf(type.fields[f])]

Cleared(type) == [f \in DOMAIN type.fields |-> DefaultOf(type.fields[f])]

-----------------------------------------------------------------------------
(***************************************************************************)
(* Writing.  A field in its initial state is left out, a present message   *)
(* is written even if it is empty, texts are written one by one, and       *)
(* numbers packed together.  Text that is not well formed is written       *)
(* nevertheless: VerifyUtf8String only logs.                               *)
(***************************************************************************)
Items(kind, number, v) ==
    LET item(p) == [number |-> number, payload |-> p]
    IN  CASE kind \in {"strings", "message"} -> [i \in DOMAIN v |-> item(v[i])]
          [] kind \notin {"strings", "message"} /\ v = DefaultOf(kind) -> <<>>
          [] OTHER -> <<item(v)>>

\* _InternalSerialize
Serialize(type, m) ==
    FlattenSeq([n \in DOMAIN type.order |->
                    LET f == type.order[n] IN Items(type.fields[f], n, m[f])])

-----------------------------------------------------------------------------
(***************************************************************************)
(* Reading.                                                                *)
(***************************************************************************)

\* A field after one more item of it: a text or number replaces, repeated fields
\* grow, and a message is merged, so that an initial value in it changes nothing.
Merged(kind, old, payload) ==
    CASE kind = "strings" -> Append(old, payload)
      [] kind = "ints"    -> old \o payload
      [] kind = "message" -> IF payload = 0 /\ old # <<>> THEN old ELSE <<payload>>
      [] OTHER            -> payload

\* Mutant: a parser that does not verify text.
ParseItemUnverified(type, state, item) ==
    [ok |-> TRUE,
     message |-> [state.message EXCEPT ![type.order[item.number]] =
                     Merged(type.fields[type.order[item.number]], @, item.payload)]]

ParseItem(type, state, item) ==
    LET f == type.order[item.number]
        kind == type.fields[f]
    IN  [ok |-> kind \in {"string", "strings"} => WellFormed(item.payload),
         message |-> [state.message EXCEPT ![f] = Merged(kind, @, item.payload)]]

\* _InternalParse: goes on until the end or the first text that is not well formed.
Parse(type, target, items) ==
    FoldLeft(LAMBDA state, item :
                 IF state.ok THEN ParseItem(type, state, item) ELSE state,
             [ok |-> TRUE, message |-> target], items)

\* The texts of a message.
TextsOf(type, m) ==
    UNION {IF type.fields[f] = "strings" THEN {m[f][i] : i \in DOMAIN m[f]} ELSE {m[f]} :
               f \in {g \in DOMAIN m : type.fields[g] \in {"string", "strings"}}}

=============================================================================
