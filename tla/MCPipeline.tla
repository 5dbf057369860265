----------------------------- MODULE MCPipeline -----------------------------
(* Small instances of the pipeline for TLC: a bucket with two keys, their jobs, and     *)
(* clients that post URLs of those objects and others.                                  *)
EXTENDS Pipeline

CONSTANTS
  first, second,   \* the URLs the scanner makes of the two keys
  http,            \* the second object again, as an http(s) URL
  slash, text,     \* URLs of no recording
  silence, talk, sales

AllWords == {silence, talk}

TheBucket == <<Plain("a")>>

\* "a/#.mp3" and "a.mp3"
TwoNames == [k \in Keys |-> IF k = 1 THEN <<"a", "/", "#", ".mp3">> ELSE <<"a", ".mp3">>]
\* (a skipped key needs an id, which no job gets)
TwoKeyIds == [k \in Keys |-> IF 2 \in Ids THEN k ELSE 1]
TwoUrls == [k \in Keys |-> IF k = 1 THEN first ELSE second]

AllContents == [Keys -> Kinds]
SpeechOnly == {[k \in Keys |-> "speech"]}

Url(scheme, path) == [scheme |-> scheme, host |-> TheBucket, path |-> path]

\* "https://a/a/a.mp3"; "s3://a/a%2F.mp3", whose name is a%2F.mp3 as long as it is quoted
\* and .mp3 afterwards; "s3://a/a", which is answered 400
Spellings ==
  [u \in Urls |->
     CASE u = first -> ObjectUrl(TheBucket, TwoNames[1])
       [] u = second -> ObjectUrl(TheBucket, TwoNames[2])
       [] u = http -> Url("http", <<Plain("/"), Plain("a"), Plain("/"), Plain("a"), Plain(".mp3")>>)
       [] u = slash -> Url("s3", <<Plain("/"), Plain("a"), [char |-> "/", quoted |-> TRUE], Plain(".mp3")>>)
       [] u = text -> Url("s3", <<Plain("/"), Plain("a")>>)]

RejectedUrls == Urls \cap {text}
StuckUrls == Urls \cap {slash}

OnlyEmail == {[enabled |-> {"email"}, mailbox |-> sales]}
=============================================================================
