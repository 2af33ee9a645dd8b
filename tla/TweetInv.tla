------------------------------ MODULE TweetInv ------------------------------
(***************************************************************************)
(* The inductive invariant of TweetCount: a task has written one pair for  *)
(* each line it is to count among those it has read, under the hour that   *)
(* the T line two lines above gives, when that line is of its split.       *)
(***************************************************************************)
EXTENDS TweetCount

\* The lines of a split, and those of it that its task has read.
Lines(t) == first[t]..(End(t) - 1)
Read(t) == first[t]..(line[t] - 1)

\* The hour under which ReadTweetMapper counts a W line of a split.
HourOfWords(t, i) == IF i - 2 >= first[t] THEN Tweet(i).hour ELSE 0

\* The lines that a task has counted under an hour.
CountedLines(t, h) ==
    {i \in Read(t) : IF job = "lines"
                     THEN Kind(i) = "T" /\ Tweet(i).hour = h
                     ELSE Kind(i) = "W" /\ Tweet(i).sleep /\ HourOfWords(t, i) = h}

\* Hadoop's splits are in order, each from where the one before it ends.
SplitsInOrder ==
    /\ first[1] = 1
    /\ \A s, t \in Tasks : s < t => End(s) <= first[t]

WrittenInv == \A t \in Tasks : \A h \in Hours : written[t][h] = Cardinality(CountedLines(t, h))

(***************************************************************************)
(* Records of four lines hold one T line each, and the mapper's field is   *)
(* the hour of the last one; no T line without a time has been passed.     *)
(***************************************************************************)
FieldInv ==
    job = "tweets" =>
        \A t \in Tasks :
            /\ (line[t] - first[t]) % tweet_length = 0
            /\ line[t] = first[t] => hour_of_day[t] = 0
            /\ \A i \in Read(t) :
                  Kind(i) = "T" => /\ Tweet(i).hour # NoTime
                                   /\ i + tweet_length >= line[t] => hour_of_day[t] = Tweet(i).hour

\* A task that is done has read its split, up to a record that is not whole.
DoneInv ==
    \A t \in Tasks :
        task[t] = "done" => IF job = "lines" THEN line[t] = End(t)
                                             ELSE line[t] + tweet_length > End(t)

\* The lines that all tasks have counted under an hour.
AllCounted(h) == UNION {CountedLines(t, h) : t \in Tasks}

\* The output has the number of lines that were counted, once all tasks are done.
OutputInv ==
    Finished => /\ \A t \in Tasks : task[t] = "done"
                /\ \A h \in Hours : output[h] = Cardinality(AllCounted(h))

TweetInvariant ==
    TweetTypeOK /\ SplitsInOrder /\ WrittenInv /\ FieldInv /\ DoneInv /\ OutputInv

=============================================================================
