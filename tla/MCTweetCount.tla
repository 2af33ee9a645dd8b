---------------------------- MODULE MCTweetCount ----------------------------
EXTENDS TweetCount
=============================================================================
