--------------------------- MODULE MCMessageCalls ---------------------------
EXTENDS MessageCalls

\* Lines of at most four bytes before their end, and one that is not UTF-8.
Line(text) == Append(text, "newline")
MCLines == {Line(text) : text \in {s \in SeqOf(Bytes \ {"newline"}, 4) : WellFormed(s)}}
             \cup {Line(<<"lead">>)}

MCTexts == {<<>>, <<"letter">>, <<"lead">>}
=============================================================================
