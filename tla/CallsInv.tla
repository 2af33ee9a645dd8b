------------------------------ MODULE CallsInv ------------------------------
(***************************************************************************)
(* The inductive invariant of MessageCalls: in each direction, what was    *)
(* written is what was read, the message that was refused if there is one, *)
(* and what is on the wire, in this order.  Nothing is put on the wire any *)
(* more once the server has refused a request.                             *)
(***************************************************************************)
EXTENDS MessageCalls

\* What may stand in a field of a kind.
FieldValue(kind, v) ==
    CASE kind = "string"  -> v \in Texts \cup Seq(Bytes)
      [] kind = "strings" -> v \in Seq(Texts)
      [] kind = "ints"    -> v \in Seq(Int)
      [] kind = "message" -> v \in Seq(Int) /\ Len(v) <= 1
      [] OTHER            -> v \in Int

\* An object with the fields of a type, and a message of that type.
Object(type, m) == DOMAIN m = DOMAIN type.fields /\ m = [f \in DOMAIN m |-> m[f]]

MessageOf(type, m) ==
    Object(type, m) /\ \A f \in DOMAIN type.fields : FieldValue(type.fields[f], m[f])

IsSequence(s) == s \in Seq(ToSet(s))

(***************************************************************************)
(* How what was read, r, and what is on the wire, x, are made of what was  *)
(* written, w.  A message was refused if bad, and nothing goes on the wire *)
(* any more if over.                                                       *)
(***************************************************************************)
Carried(type, w, r, x, bad, over) ==
    LET n == Len(r)
        taken == n + (IF bad THEN 1 ELSE 0)
    IN  /\ IsSequence(w) /\ IsSequence(r) /\ IsSequence(x)
        /\ taken + Len(x) <= Len(w)
        /\ ~over => taken + Len(x) = Len(w)
        /\ \A i \in 1..Len(w) : MessageOf(type, w[i])
        /\ \A i \in 1..n : r[i] = w[i] /\ ~HasBadText(type, w[i])
        /\ bad => HasBadText(type, w[n + 1])
        /\ \A j \in 1..Len(x) : x[j] = Serialize(type, w[taken + j])

CallInv ==
    /\ service \in DOMAIN Handlers /\ method \in DOMAIN Handlers[service]
    /\ refused \in [Directions -> BOOLEAN]
    /\ DOMAIN target = Directions /\ DOMAIN written = Directions
    /\ DOMAIN received = Directions /\ DOMAIN wire = Directions

ObjectsInv == \A d \in Directions : Object(Type(d), target[d])

CarriedInv ==
    \A d \in Directions :
        Carried(Type(d), written[d], received[d], wire[d], refused[d], refused["request"])

TerminalInv ==
    /\ lines \in Seq(Lines) /\ Len(lines) <= MaxLines
    /\ stdin \in Seq(Bytes) /\ ended \in BOOLEAN

\* The texts of the messages of a stream, after the first one.
PostTexts(ms) == [i \in 1..(Len(ms) - 1) |-> ms[i + 1].msg]

Filled == {line \in Lines : Len(line) > 1}

(***************************************************************************)
(* How the posts, and the input that is not yet read, are made of what was *)
(* typed: together they are its text, and if all lines fit the buffer, the *)
(* first of them were posted whole and the others are in the input.        *)
(***************************************************************************)
MadeOf(typed, posts, input) ==
    /\ posts \in Seq(Seq(Bytes))
    /\ Printed(FlattenSeq(posts)) \o Printed(input) = Printed(FlattenSeq(typed))
    /\ (\A i \in DOMAIN typed : Len(typed[i]) < MAX_DATA) =>
           \E k \in 0..Len(typed) :
               /\ posts = Kept(SubSeq(typed, 1, k), Filled)
               /\ input = FlattenSeq(SubSeq(typed, k + 1, Len(typed)))

\* The stream begins with the message that opens it, and posts follow.
PostsOnly(ms) ==
    \A i \in 1..Len(ms) : ms[i] = Post(ms[i].msg) /\ (i = 1 => ms[i].msg = SetStream)

PostedInv ==
    Posting /\ ~ended =>
        /\ PostsOnly(written["request"])
        /\ MadeOf(lines, PostTexts(written["request"]), stdin)

CallsInvariant == CallInv /\ ObjectsInv /\ CarriedInv /\ TerminalInv

=============================================================================
