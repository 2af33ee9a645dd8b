----------------------------- MODULE TweetCount -----------------------------
(***************************************************************************)
(* The jobs of WordCount.java: tweets by the hour (ReadLineMapper, line by *)
(* line) and tweets that mention sleep by the hour (ReadTweetMapper, four  *)
(* lines at a time).                                                       *)
(*                                                                         *)
(* A tweet is four lines, T time, U user, W words and an empty one.        *)
(* Hadoop cuts the input into splits without regard to them                *)
(* (TweetInputFormat leaves isSplitable alone), gives each line to exactly *)
(* one split, runs a task on each split in any order, and gives a failed   *)
(* task another attempt, whose predecessor's output it drops.              *)
(***************************************************************************)
EXTENDS Integers, FiniteSets, FiniteSetsExt

CONSTANTS
    NumTweets,     \* bound: tweets in the input
    Hours,         \* the hours of the day, with 0
    NoTime,        \* a T line without a time
    NumSplits,     \* bound: splits of the input
    MaxAttempts    \* attempts that Hadoop gives a task

ASSUME TweetAssumption ==
    /\ NumTweets \in Nat \ {0}
    /\ NumSplits \in Nat \ {0}
    /\ MaxAttempts \in Nat \ {0}
    /\ IsFiniteSet(Hours) /\ 0 \in Hours
    /\ NoTime \notin Hours

VARIABLES
    job,          \* which mapper main was compiled with: "lines" or "tweets"
    tweets,       \* the input: the hour of each tweet and whether it mentions sleep
    first,        \* task -> the first line of its split; the last split ends the input
    line,         \* task -> the line its record reader is at
    hour_of_day,  \* task -> the field of its mapper
    written,      \* task -> hour -> pairs it has written
    attempts,     \* task -> attempts begun
    task,         \* task -> "running", "done" or "failed"
    output        \* hour -> count, as the reducer writes it, or <<>> before

tweetVars == <<job, tweets, first, line, hour_of_day, written, attempts, task, output>>
input == <<job, tweets, first>>

Tasks == 1..NumSplits
NumLines == 4 * NumTweets
tweet_length == 4

\* Line i of the input: its kind, and the tweet it is of.
Kind(i) == <<"T", "U", "W", "empty">>[((i - 1) % 4) + 1]
Tweet(i) == tweets[((i - 1) \div 4) + 1]

End(t) == IF t = NumSplits THEN NumLines + 1 ELSE first[t + 1]

None == [h \in Hours |-> 0]

TweetTypeOK ==
    /\ job \in {"lines", "tweets"}
    /\ tweets \in [1..NumTweets -> [hour : Hours \cup {NoTime}, sleep : BOOLEAN]]
    /\ first \in [Tasks -> 1..(NumLines + 1)]
    /\ line \in [Tasks -> 1..(NumLines + 1)] /\ \A t \in Tasks : line[t] \in first[t]..End(t)
    /\ hour_of_day \in [Tasks -> Hours]
    /\ written \in [Tasks -> [Hours -> Nat]]
    /\ attempts \in [Tasks -> 1..MaxAttempts]
    /\ task \in [Tasks -> {"running", "done", "failed"}]
    /\ output = <<>> \/ output \in [Hours -> Nat]

TweetInit ==
    /\ job \in {"lines", "tweets"}
    /\ tweets \in [1..NumTweets -> [hour : Hours \cup {NoTime}, sleep : BOOLEAN]]
    /\ first \in {f \in [Tasks -> 1..(NumLines + 1)] :
                    f[1] = 1 /\ \A t \in Tasks \ {1} : f[t - 1] <= f[t]}
    /\ line = first
    /\ hour_of_day = [t \in Tasks |-> 0]
    /\ written = [t \in Tasks |-> None]
    /\ attempts = [t \in Tasks |-> 1]
    /\ task = [t \in Tasks |-> "running"]
    /\ output = <<>>

-----------------------------------------------------------------------------
\* context.write(<<h, 1>>) for every element of a record's hours.
Write(t, h) == written' = [written EXCEPT ![t][h] = @ + 1]

\* Mutant of MapLine: the kind of the line is not looked at.
CountingMapLine(t) ==
    /\ job = "lines"
    /\ line[t] < End(t)
    /\ line' = [line EXCEPT ![t] = @ + 1]
    /\ IF Kind(line[t]) \in {"T", "W"} /\ Tweet(line[t]).hour # NoTime
       THEN Write(t, Tweet(line[t]).hour)
       ELSE UNCHANGED written
    /\ UNCHANGED <<input, hour_of_day, attempts, task, output>>

\* ReadLineMapper.map: it ignores a T line that is too short to hold a time.
MapLine(t) ==
    /\ job = "lines"
    /\ line[t] < End(t)
    /\ line' = [line EXCEPT ![t] = @ + 1]
    /\ IF Kind(line[t]) = "T" /\ Tweet(line[t]).hour # NoTime
       THEN Write(t, Tweet(line[t]).hour)
       ELSE UNCHANGED written
    /\ UNCHANGED <<input, hour_of_day, attempts, task, output>>

\* The lines of the record that TweetRecordReader.nextKeyValue reads.
Record(t) == line[t]..(line[t] + tweet_length - 1)

TimeLine(t) == {i \in Record(t) : Kind(i) = "T"}

\* Mutant of HourAt: the mapper's field is a local variable.
LocalHourAt(t, i) ==
    LET before == {j \in TimeLine(t) : j < i}
    IN IF before = {} THEN 0 ELSE Tweet(Max(before)).hour

\* The hour with which line i of a record is counted: the field holds the time of
\* the T line before it in this record, or what an earlier record has left.
HourAt(t, i) ==
    LET before == {j \in TimeLine(t) : j < i}
    IN IF before = {} THEN hour_of_day[t] ELSE Tweet(Max(before)).hour

\* Mutant of SleepLines: only words after the time in their own record.
GuardedSleepLines(t) ==
    {i \in Record(t) : Kind(i) = "W" /\ Tweet(i).sleep /\ \E j \in TimeLine(t) : j < i}

\* The W lines of the record that are counted, which four lines hold one of.
SleepLines(t) == {i \in Record(t) : Kind(i) = "W" /\ Tweet(i).sleep}

\* Mutant of Throws: a T line without a time is let through.
NeverThrows(t) == FALSE

\* time_str = tweet_tokens[2] is out of bounds.
Throws(t) == \E i \in TimeLine(t) : Tweet(i).hour = NoTime

\* ReadTweetMapper.map on a whole record.
MapTweet(t) ==
    /\ job = "tweets"
    /\ line[t] + tweet_length <= End(t)
    /\ ~Throws(t)
    /\ line' = [line EXCEPT ![t] = @ + tweet_length]
    /\ hour_of_day' = [hour_of_day EXCEPT ![t] = HourAt(t, line[t] + tweet_length)]
    /\ IF SleepLines(t) = {} THEN UNCHANGED written
                             ELSE Write(t, HourAt(t, Max(SleepLines(t))))
    /\ UNCHANGED <<input, attempts, task, output>>

\* The input of the task ends, maybe within a record: nextKeyValue returns false
\* and the lines it has read so far are in no record.
EndTask(t) ==
    /\ IF job = "lines" THEN line[t] = End(t) ELSE line[t] + tweet_length > End(t)
    /\ task' = [task EXCEPT ![t] = "done"]
    /\ UNCHANGED <<input, line, hour_of_day, written, attempts, output>>

\* Hadoop: an attempt fails, with the exception or with its node, and the next
\* one has a mapper of its own.
FailAttempt(t) ==
    /\ IF attempts[t] < MaxAttempts
       THEN /\ attempts' = [attempts EXCEPT ![t] = @ + 1]
            /\ line' = [line EXCEPT ![t] = first[t]]
            /\ hour_of_day' = [hour_of_day EXCEPT ![t] = 0]
            /\ written' = [written EXCEPT ![t] = None]
            /\ UNCHANGED task
       ELSE /\ task' = [task EXCEPT ![t] = "failed"]
            /\ UNCHANGED <<attempts, line, hour_of_day, written>>
    /\ UNCHANGED <<input, output>>

Map(t) ==
    /\ task[t] = "running"
    /\ MapLine(t) \/ MapTweet(t) \/ EndTask(t) \/ FailAttempt(t)

\* PassThroughReducer: the sum of the values of each key.
Total(h) == MapThenSumSet(LAMBDA t : written[t][h], Tasks)

\* The job writes its output when every task is done, and none if one failed.
Reduce ==
    /\ \A t \in Tasks : task[t] = "done"
    /\ output = <<>>
    /\ output' = [h \in Hours |-> Total(h)]
    /\ UNCHANGED <<input, line, hour_of_day, written, attempts, task>>

TweetNext == Reduce \/ \E t \in Tasks : Map(t)

TweetSpec == TweetInit /\ [][TweetNext]_tweetVars

-----------------------------------------------------------------------------
\* The tweets of hour h that the job is to count.
Counted(h) ==
    {i \in 1..NumTweets : tweets[i].hour = h /\ (job = "lines" \/ tweets[i].sleep)}

Finished == output # <<>>

\* A split that begins between the T line and the W line of a tweet, with which
\* the first W line of its task comes before any T line.
Beheads(t) == first[t] < End(t) /\ Kind(first[t]) \in {"U", "W"}

(***************************************************************************)
(* Each line is of one split, so that tweets by the hour are counted       *)
(* exactly, wherever the input is cut and however often a task begins      *)
(* again (WordCount.java:30-47, 81-87).                                    *)
(***************************************************************************)
LinesAreExact ==
    Finished /\ job = "lines" => \A h \in Hours : output[h] = Cardinality(Counted(h))

(***************************************************************************)
(* Records of four lines lose track of tweets at the ends of splits alone: *)
(* a task drops at most the one tweet whose words are in its last, partial *)
(* record (WordCount.java:109-113).                                        *)
(***************************************************************************)
MissedPerSplit ==
    Finished /\ job = "tweets" =>
        LET all == UNION {Counted(h) : h \in Hours}
            dropping == {t \in Tasks : (End(t) - first[t]) % tweet_length # 0}
        IN MapThenSumSet(LAMBDA h : output[h], Hours)
             >= Cardinality(all) - Cardinality(dropping)

(***************************************************************************)
(* A record that is out of step with the tweets counts them under the      *)
(* right hour, thanks to the mapper's field (WordCount.java:68), and only  *)
(* a split that begins within a tweet has one counted, wrongly, under      *)
(* hour 0.  With splits of whole tweets the counts are exact.              *)
(***************************************************************************)
HoursAreTrue ==
    Finished /\ job = "tweets" =>
        /\ \A h \in Hours \ {0} : output[h] <= Cardinality(Counted(h))
        /\ output[0] <= Cardinality(Counted(0)) + Cardinality({t \in Tasks : Beheads(t)})

=============================================================================
