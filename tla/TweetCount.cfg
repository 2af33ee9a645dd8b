\* Three tweets of four lines, cut in two anywhere; a task may fail once.
CONSTANTS
    NumTweets = 3
    Hours = {0, 9}
    NoTime = NoTime
    NumSplits = 2
    MaxAttempts = 2
SPECIFICATION TweetSpec
INVARIANTS TweetTypeOK LinesAreExact MissedPerSplit HoursAreTrue
CHECK_DEADLOCK FALSE
