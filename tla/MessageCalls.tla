---------------------------- MODULE MessageCalls ----------------------------
(***************************************************************************)
(* One call of a method of the four services: a program fills messages and *)
(* writes them, the other end reads them, in both directions.  The posts   *)
(* of the social network's timeline come from a terminal, through the      *)
(* buffer of getPostMessage.                                               *)
(***************************************************************************)
EXTENDS MessageCodec

CONSTANTS
    MAX_DATA,    \* the size of that buffer
    Lines,       \* what a user may type, each line with its end
    MaxLines,    \* bound: lines typed
    Texts,       \* other texts in messages
    MaxWrites,   \* bound: messages written to a stream, posts aside
    MaxGarbage,  \* bound: posts after which none is written at the end of the input
    MaxAdds      \* bound: elements of a repeated field

ASSUME CallsAssumption ==
    /\ MAX_DATA \in Nat /\ MAX_DATA > 1
    /\ Lines \subseteq Seq(Bytes)
    /\ \A line \in Lines :
           /\ line # <<>>
           /\ \A i \in 1..Len(line) : line[i] = "newline" <=> i = Len(line)
    /\ MaxLines \in Nat /\ MaxWrites \in Nat
    /\ MaxGarbage \in Nat /\ MaxAdds \in Nat

SNS == INSTANCE SNSMessages
FileSNS == INSTANCE FileSNSMessages
Coord == INSTANCE CoordinatorMessages
FollowSync == INSTANCE FollowSyncMessages

Handlers == [sns |-> SNS!SNSService, files |-> FileSNS!SNSService,
             coord |-> Coord!SNSCoordinator, sync |-> FollowSync!SNSFollowSync]

Stub == [sns |-> SNS!SNSServiceStub, files |-> FileSNS!SNSServiceStub,
         coord |-> Coord!SNSCoordinatorStub, sync |-> FollowSync!SNSFollowSyncStub]

\* The methods that a server of the repository overrides.
Overridden ==
    [sns |-> {"Login", "List", "Follow", "UnFollow", "Timeline"},
     files |-> {"Login", "List", "Follow", "UnFollow", "Timeline"},
     coord |-> {"HandleHeartBeats", "GetServer", "GetSlave"},
     sync |-> {}]

Directions == {"request", "reply"}

VARIABLES
    service, method,   \* the call
    wire,        \* messages under way
    target,      \* the message that the reader reads into
    refused,     \* did a message fail to parse?
    written,     \* all that was written so far
    received,    \* all that was read
    lines,       \* what the user has typed
    stdin,       \* what of it is not yet read
    ended        \* has the user ended the input?

call == <<service, method>>
terminal == <<lines, stdin, ended>>
vars == <<call, wire, target, refused, written, received, terminal>>

Type(d) == Handlers[service][method][d]
Streams == Stub[service][method] = "BIDI_STREAMING"
Served == method \in Overridden[service]

\* Posts are the requests of the social network's Timeline.
Posting == service = "sns" /\ method = "Timeline"

MessageCallsInit ==
    /\ service \in DOMAIN Handlers
    /\ method \in DOMAIN Handlers[service]
    /\ target = [d \in Directions |-> Cleared(Type(d))]
    /\ wire = [d \in Directions |-> <<>>]
    /\ refused = [d \in Directions |-> FALSE]
    /\ written = [d \in Directions |-> <<>>]
    /\ received = [d \in Directions |-> <<>>]
    /\ lines = <<>> /\ stdin = <<>> /\ ended = FALSE

-----------------------------------------------------------------------------
(***************************************************************************)
(* Writers.                                                                *)
(***************************************************************************)

\* A request is written once.  The reply follows its reading, if the method is
\* overridden: the generated one returns UNIMPLEMENTED.  A stream is written at
\* will, but the coordinator writes nothing to the heartbeats' one.
MayWrite(d) ==
    IF Streams THEN /\ d = "reply" => method = "Timeline" /\ ~refused["request"]
                    /\ Len(written["request"]) + Len(written["reply"]) < MaxWrites
               ELSE /\ written[d] = <<>>
                    /\ d = "reply" => Served /\ received["request"] # <<>>

\* What the accessors leave in a field, from one that was never set on.  A name
\* may come from a terminal that uses another encoding.
Values(kind) ==
    CASE kind = "int32"   -> {0, 1}
      [] kind = "ints"    -> SeqOf({0, 1}, MaxAdds)
      [] kind = "enum"    -> {0, 1, 2}
      [] kind = "message" -> {<<>>, <<0>>, <<1>>}
      [] kind = "string"  -> Texts
      [] kind = "strings" -> SeqOf(Texts, MaxAdds)

\* What the accessors of one field make of some messages.
Setters(type, ms, f) == {[m EXCEPT ![f] = v] : m \in ms, v \in Values(type.fields[f])}

\* The messages that accessors make of a new one, field by field.
Messages(type) ==
    FoldLeft(LAMBDA ms, f : Setters(type, ms, f), {Cleared(type)}, type.order)

\* Mutant: the message is sent twice.
SendTwice(d, m) ==
    /\ written' = [written EXCEPT ![d] = Append(@, m)]
    /\ wire' = [wire EXCEPT ![d] = @ \o <<Serialize(Type(d), m), Serialize(Type(d), m)>>]

\* What Write does with a message: nothing once the server's method has ended.
Send(d, m) ==
    /\ written' = [written EXCEPT ![d] = Append(@, m)]
    /\ wire' = IF refused["request"] THEN wire
               ELSE [wire EXCEPT ![d] = Append(@, Serialize(Type(d), m))]

\* A writer goes on with the same message or takes a new one: any may follow any.
Write(d) ==
    /\ MayWrite(d)
    /\ ~Posting
    /\ \E m \in Messages(Type(d)) : Send(d, m)
    /\ UNCHANGED <<call, target, refused, received, terminal>>

-----------------------------------------------------------------------------
(***************************************************************************)
(* The writer thread of the social network's timeline.  What the server    *)
(* writes back is of the same type as in the other Timeline, and is looked *)
(* at there.                                                               *)
(***************************************************************************)

TypeLine ==
    /\ Posting /\ ~ended /\ Len(lines) < MaxLines
    /\ \E line \in Lines : lines' = Append(lines, line) /\ stdin' = stdin \o line
    /\ UNCHANGED <<call, wire, target, refused, written, received, ended>>

EndInput ==
    /\ Posting /\ ~ended
    /\ ended' = TRUE
    /\ UNCHANGED <<call, wire, target, refused, written, received, lines, stdin>>

\* Mutant: one byte less than the buffer holds.
ShortFgets ==
    LET end == SelectInSeq(stdin, LAMBDA b : b = "newline")
    IN  SubSeq(stdin, 1, IF end < MAX_DATA - 1 THEN end ELSE MAX_DATA - 2)

\* fgets: up to the end of the line, or as much of it as the buffer holds.
Fgets ==
    LET end == SelectInSeq(stdin, LAMBDA b : b = "newline")
    IN  SubSeq(stdin, 1, IF end < MAX_DATA THEN end ELSE MAX_DATA - 1)

\* Mutant: the rest of a line that does not fit is thrown away.
RestOfInput ==
    SubSeq(stdin, SelectInSeq(stdin, LAMBDA b : b = "newline") + 1, Len(stdin))

\* What fgets leaves for the next time.
Rest == SubSeq(stdin, Len(Fgets) + 1, Len(stdin))

\* MakeMessage
Post(text) ==
    [username |-> <<"letter">>, msg |-> text, timestamp |-> <<1>>]

\* Stands for the text "Set Stream".
SetStream == <<"letter", "letter">>

OpenTimeline ==
    /\ Posting /\ written["request"] = <<>>
    /\ Send("request", Post(SetStream))
    /\ UNCHANGED <<call, target, refused, received, terminal>>

\* getPostMessage skips what begins with the end of a line.
WritePost ==
    /\ Posting /\ written["request"] # <<>>
    /\ stdin # <<>>
    /\ stdin' = Rest
    /\ IF Fgets[1] = "newline" THEN UNCHANGED <<written, wire>>
                               ELSE Send("request", Post(Fgets))
    /\ UNCHANGED <<call, target, refused, received, lines, ended>>

\* At the end of the input fgets leaves the buffer as it is, which is whatever the
\* stack holds: getPostMessage returns that, at once and over and over.
WriteGarbage ==
    /\ Posting /\ written["request"] # <<>>
    /\ ended /\ stdin = <<>>
    /\ Len(written["request"]) <= MaxGarbage
    /\ \E text \in Texts : Send("request", Post(text))
    /\ UNCHANGED <<call, target, refused, received, terminal>>

-----------------------------------------------------------------------------
(***************************************************************************)
(* Readers.  Reading clears the target first.  A message that does not     *)
(* parse ends the direction: a unary call fails, the loop around Read ends *)
(* and with it the method, and nothing more is read.                       *)
(***************************************************************************)
Read(d) ==
    /\ wire[d] # <<>> /\ ~refused[d]
    /\ LET parsed == Parse(Type(d), Clear(Type(d), target[d]), Head(wire[d]))
       IN  /\ target' = [target EXCEPT ![d] = parsed.message]
           /\ IF parsed.ok
              THEN /\ received' = [received EXCEPT ![d] = Append(@, parsed.message)]
                   /\ UNCHANGED refused
              ELSE /\ refused' = [refused EXCEPT ![d] = TRUE]
                   /\ UNCHANGED received
    /\ wire' = [wire EXCEPT ![d] = Tail(@)]
    /\ UNCHANGED <<call, written, terminal>>

MessageCallsNext ==
    \/ \E d \in Directions : Write(d) \/ Read(d)
    \/ TypeLine \/ EndInput \/ OpenTimeline \/ WritePost \/ WriteGarbage

MessageCallsSpec == MessageCallsInit /\ [][MessageCallsNext]_vars

-----------------------------------------------------------------------------
(***************************************************************************)
(* Properties.                                                             *)
(***************************************************************************)

\* The types of the variables: an object that is read into keeps the fields of its
\* message type, and nothing arrives that was not written.
CallsTypeOK ==
    /\ service \in DOMAIN Handlers /\ method \in DOMAIN Handlers[service]
    /\ refused \in [Directions -> BOOLEAN]
    /\ \A d \in Directions :
           /\ DOMAIN target[d] = DOMAIN Type(d).fields
           /\ Len(received[d]) + Len(wire[d]) <= Len(written[d])
    /\ \A i \in DOMAIN stdin : stdin[i] \in Bytes
    /\ Len(lines) <= MaxLines /\ ended \in BOOLEAN

(***************************************************************************)
(* Whatever is read is what was written, in order, although fields in      *)
(* their initial state are not sent and all messages of a stream are read  *)
(* into one object (coord.cc:102, tsd.cc:255, tsc.cc:373): the posts of    *)
(* the history carry neither name nor time (tsd.cc:290), and must not show *)
(* those of the post before (snsCoordinator.pb.cc:1485, sns.pb.cc:896).    *)
(***************************************************************************)
ReadsAreExact ==
    \A d \in Directions : IsPrefix(received[d], written[d])

HasBadText(type, m) == \E text \in TextsOf(type, m) : ~WellFormed(text)

(***************************************************************************)
(* A message is refused, and what comes after it is lost, exactly if one   *)
(* of its texts is not UTF-8 (sns.pb.cc:922): never for what it leaves     *)
(* out, nor for what was read before; and no such text gets into a server. *)
(***************************************************************************)
OnlyBadTextIsRefused ==
    \A d \in Directions :
        LET n == Len(received[d])
        IN  /\ \A i \in 1..n : ~HasBadText(Type(d), received[d][i])
            /\ refused[d] => HasBadText(Type(d), written[d][n + 1])

Posts == [i \in 1..(Len(received["request"]) - 1) |-> received["request"][i + 1].msg]

\* The elements of a sequence that are in a set.
Kept(s, S) == FlattenSeq([i \in DOMAIN s |-> IF s[i] \in S THEN <<s[i]>> ELSE <<>>])

Printed(text) == Kept(text, Bytes \ {"newline"})

(***************************************************************************)
(* Until the user ends the input, the posts that reach the server are,     *)
(* joined, what the user typed from the beginning on (client.h:193): a     *)
(* line that does not fit the buffer is cut into several posts, of which   *)
(* none is lost before one is refused.                                     *)
(***************************************************************************)
PostsAreTheText ==
    Posting /\ ~ended => IsPrefix(Printed(FlattenSeq(Posts)), Printed(FlattenSeq(lines)))

(***************************************************************************)
(* A user whose lines all fit the buffer posts exactly them, but for the   *)
(* empty ones, and is not refused if they are UTF-8 (client.h:193,         *)
(* tsc.cc:361).                                                            *)
(***************************************************************************)
ShortLinesAreWhole ==
    Posting /\ ~ended /\ (\A i \in DOMAIN lines : Len(lines[i]) < MAX_DATA) =>
        /\ (\A i \in DOMAIN lines : WellFormed(lines[i])) => ~refused["request"]
        /\ IsPrefix(Posts, Kept(lines, {line \in Lines : Len(line) > 1}))

=============================================================================
