--------------------------- MODULE RecordUrlProofs ---------------------------
(***************************************************************************)
(* Proofs about RecordUrl: the URL that object_url makes of a key leads    *)
(* parse_call_record_url back to it, for every key of any length that does *)
(* not begin with a slash.                                                 *)
(***************************************************************************)
EXTENDS RecordUrl, TLAPS

Path(key) == <<Plain("/")>> \o Quote(key)

\* Quoting keeps length and characters; unquoting takes it back.
LEMMA QuoteIsUndone ==
  ASSUME NEW key \in Keyed
  PROVE  /\ Quote(key) \in Quoted
         /\ Len(Quote(key)) = Len(key)
         /\ Unquote(Quote(key)) = key
<1>1. /\ key \in Seq(Chars) /\ DOMAIN key = 1 .. Len(key) /\ Len(key) \in Nat
      /\ \A i \in 1 .. Len(key) : key[i] \in Chars
  BY DEF Keyed
<1>2. Quote(key) \in [1 .. Len(key) -> [char : Chars, quoted : BOOLEAN]]
  BY <1>1 DEF Quote
<1>3. Quote(key) \in Quoted /\ DOMAIN Quote(key) = 1 .. Len(key) /\ Len(Quote(key)) = Len(key)
  <2> DEFINE C == [char : Chars, quoted : BOOLEAN]
  <2>1. Quote(key) \in [1 .. Len(key) -> C]
    BY <1>2
  <2> HIDE DEF C
  <2>2. Quote(key) \in Seq(C) /\ DOMAIN Quote(key) = 1 .. Len(key)
    BY <1>1, <2>1
  <2>3. Len(Quote(key)) = Len(key)
    BY <1>1, <2>2
  <2> QED
    BY <2>2, <2>3 DEF Quoted, C
<1>4. Unquote(Quote(key)) = [i \in 1 .. Len(key) |-> key[i]]
  BY <1>1, <1>3 DEF Unquote, Quote
<1> QED
  BY <1>1, <1>3, <1>4

\* The path of an object's URL: one slash, then the key's characters, no "#" of the key
\* left as it is.
LEMMA PathOfObject ==
  ASSUME NEW key \in Keyed
  PROVE  /\ Path(key) \in Quoted
         /\ Len(Path(key)) = Len(key) + 1
         /\ Path(key)[1] = Plain("/")
         /\ \A i \in 1 .. Len(key) :
              Path(key)[i + 1] = [char |-> key[i], quoted |-> key[i] = "#"]
<1>1. Quote(key) \in Quoted /\ Len(Quote(key)) = Len(key)
  BY QuoteIsUndone
<1>2. Plain("/") \in [char : Chars, quoted : BOOLEAN]
  BY DEF Plain, Chars
<1>3. <<Plain("/")>> \in Quoted
  BY <1>2 DEF Quoted
<1>4. Path(key) \in Quoted /\ Len(Path(key)) = Len(key) + 1 /\ Path(key)[1] = Plain("/")
  BY <1>1, <1>2, <1>3 DEF Path, Quoted
<1>5. ASSUME NEW i \in 1 .. Len(key)
      PROVE  Path(key)[i + 1] = [char |-> key[i], quoted |-> key[i] = "#"]
  <2>1. key \in Seq(Chars) /\ DOMAIN key = 1 .. Len(key)
    BY DEF Keyed
  <2>2. Path(key)[i + 1] = Quote(key)[i]
    BY <1>1, <1>2, <2>1 DEF Path, Quoted
  <2> QED
    BY <2>1, <2>2 DEF Quote
<1> QED
  BY <1>4, <1>5

\* Nothing of the path is taken for a fragment or a query.
LEMMA PathIsWhole ==
  ASSUME NEW key \in Keyed
  PROVE  UpTo(Path(key), "#") = Path(key)
<1> DEFINE n == Len(Path(key))
<1>1. Path(key) \in Quoted /\ n \in Nat /\ n = Len(key) + 1
  <2>1. Path(key) \in Quoted /\ n = Len(key) + 1
    BY PathOfObject
  <2>2. Len(key) \in Nat
    BY DEF Keyed
  <2> QED
    BY <2>1, <2>2
<1>2. ASSUME NEW k \in 1 .. n
      PROVE  Path(key)[k] # Plain("#")
  <2>1. CASE k = 1
    BY <2>1, PathOfObject DEF Plain
  <2>2. CASE k # 1
    <3>1. k - 1 \in 1 .. Len(key) /\ k = (k - 1) + 1
      BY <1>1, <2>2 DEF Keyed
    <3>2. Path(key)[k] = [char |-> key[k - 1], quoted |-> key[k - 1] = "#"]
      BY <3>1, PathOfObject
    <3>3. Path(key)[k].char = key[k - 1] /\ Path(key)[k].quoted = (key[k - 1] = "#")
      BY <3>2
    <3>4. Plain("#").char = "#" /\ Plain("#").quoted = FALSE
      BY DEF Plain
    <3> QED
      BY <3>3, <3>4
  <2> QED
    BY <2>1, <2>2
<1>3. FirstAt(Path(key), "#") = n + 1
  <2> DEFINE P(i) == /\ i <= n => Path(key)[i] = Plain("#")
                     /\ \A k \in 1 .. i - 1 : Path(key)[k] # Plain("#")
  <2>1. n + 1 \in 1 .. n + 1 /\ P(n + 1)
    BY <1>1, <1>2
  <2>2. \A i \in 1 .. n + 1 : P(i) => i = n + 1
    BY <1>1, <1>2
  <2>3. FirstAt(Path(key), "#") = CHOOSE i \in 1 .. n + 1 : P(i)
    BY DEF FirstAt
  <2> HIDE DEF P
  <2> QED
    BY <2>1, <2>2, <2>3
<1>4. UpTo(Path(key), "#") = SubSeq(Path(key), 1, n)
  BY <1>1, <1>3 DEF UpTo
<1> QED
  BY <1>1, <1>4 DEF Quoted

\* lstrip takes the slash that object_url puts before the key, and no more.
LEMMA SlashIsStripped ==
  ASSUME NEW key \in Keyed, key # <<>>, key[1] # "/"
  PROVE  LStrip(Path(key)) = Quote(key)
<1> DEFINE n == Len(Path(key))
<1>1. /\ Path(key) \in Quoted /\ n = Len(key) + 1 /\ Len(key) \in Nat /\ Len(key) >= 1
      /\ Quote(key) \in Quoted /\ Len(Quote(key)) = Len(key)
  BY PathOfObject, QuoteIsUndone DEF Keyed
<1>2. Path(key)[1] = Plain("/")
  BY PathOfObject
<1>3. Path(key)[2] # Plain("/")
  <2>1. 1 \in 1 .. Len(key)
    BY <1>1
  <2>2. Path(key)[1 + 1] = [char |-> key[1], quoted |-> key[1] = "#"]
    BY <2>1, PathOfObject
  <2>3. Path(key)[2].char = key[1]
    BY <2>2
  <2>4. Plain("/").char = "/"
    BY DEF Plain
  <2> QED
    BY <2>3, <2>4
<1> DEFINE P(i) == /\ i <= n => Path(key)[i] # Plain("/")
                   /\ \A k \in 1 .. i - 1 : Path(key)[k] = Plain("/")
<1>4. (CHOOSE i \in 1 .. n + 1 : P(i)) = 2
  <2>1. 2 \in 1 .. n + 1 /\ P(2)
    BY <1>1, <1>2, <1>3
  <2>2. ASSUME NEW i \in 1 .. n + 1, P(i)
        PROVE  i = 2
    <3>1. i # 1
      BY <1>1, <1>2, <2>2
    <3>2. ~(i > 2)
      BY <1>1, <1>3, <2>2
    <3> QED
      BY <1>1, <3>1, <3>2
  <2> HIDE DEF P
  <2> QED
    BY <2>1, <2>2
<1>5. LStrip(Path(key)) = SubSeq(Path(key), 2, n)
  BY <1>4 DEF LStrip
<1>6. Path(key) = <<Plain("/")>> \o Quote(key)
  BY DEF Path
<1>7. Plain("/") \in [char : Chars, quoted : BOOLEAN]
  BY DEF Plain, Chars
<1> QED
  BY <1>1, <1>5, <1>6, <1>7 DEF Quoted

\* A scanned key is never lost on the way to its download: the URL that object_url makes
\* of it names the very object again, whatever its length and characters - unless it
\* begins with a slash, which lstrip would take as well.
THEOREM ScannedKeysComeBack ==
  ASSUME NEW bucket \in Quoted, NEW key \in Keyed, key # <<>>, key[1] # "/"
  PROVE  RecordingOf(ObjectUrl(bucket, key)) = [bucket |-> bucket, key |-> key]
<1> DEFINE u == ObjectUrl(bucket, key)
<1>1. u.scheme = "s3" /\ u.host = bucket /\ u.path = Path(key)
  BY DEF ObjectUrl, Path
<1>2. KeyPart(u) = Quote(key)
  BY <1>1, PathIsWhole, SlashIsStripped DEF KeyPart, UrlPath
<1>3. BucketPart(u) = bucket
  BY <1>1 DEF BucketPart
<1> QED
  BY <1>2, <1>3, QuoteIsUndone DEF RecordingOf

\* Quoting changes neither the slashes nor the extensions that the suffix test looks at.
LEMMA QuotedKeyIsAudio ==
  ASSUME NEW key \in Keyed
  PROVE  IsAudio(AsWritten(Quote(key))) <=> IsAudio(key)
<1> DEFINE w == AsWritten(Quote(key))
<1>1. key \in Seq(Chars) /\ DOMAIN key = 1 .. Len(key)
  BY DEF Keyed
<1>2. w = [i \in DOMAIN key |-> IF key[i] = "#" THEN "a" ELSE key[i]]
  BY DEF AsWritten, Quote
<1>3. DOMAIN w = DOMAIN key
  BY <1>2
<1>4. \A i \in DOMAIN key : (w[i] = "/" <=> key[i] = "/") /\ (w[i] = ".mp3" <=> key[i] = ".mp3")
  BY <1>2
<1> HIDE DEF w
<1>5. \A i \in DOMAIN key \ {1} : i - 1 \in DOMAIN key
  BY <1>1 DEF Keyed
<1>6. IsAudio(w) <=> \E i \in DOMAIN key \ {1} :
                       /\ w[i] = ".mp3" /\ w[i - 1] # "/"
                       /\ \A k \in DOMAIN key : k > i => w[k] = "/"
  BY <1>3 DEF IsAudio
<1> QED
  BY <1>4, <1>5, <1>6 DEF IsAudio, w

\* parse_call_record_url accepts the URL of a scanned key exactly when the scanner takes
\* the key for a recording: no discovered object becomes a job that fails by its URL alone,
\* or one whose processing raises for ever.
THEOREM ScannedKeysParse ==
  ASSUME NEW bucket \in Quoted, bucket # <<>>, NEW key \in Keyed, key # <<>>, key[1] # "/"
  PROVE  Parses(ObjectUrl(bucket, key)) <=> IsAudio(key)
<1> DEFINE u == ObjectUrl(bucket, key)
<1>1. u.scheme = "s3" /\ u.host = bucket /\ u.path = Path(key)
  BY DEF ObjectUrl, Path
<1>2. KeyPart(u) = Quote(key)
  BY <1>1, PathIsWhole, SlashIsStripped DEF KeyPart, UrlPath
<1>3. BucketPart(u) = bucket
  BY <1>1 DEF BucketPart
<1>4. Quote(key) # <<>>
  <2>1. Quote(key) \in Quoted /\ Len(Quote(key)) = Len(key) /\ Len(key) >= 1
    BY QuoteIsUndone DEF Keyed
  <2> QED
    BY <2>1 DEF Quoted
<1> QED
  BY <1>1, <1>2, <1>3, <1>4, QuotedKeyIsAudio DEF Parses
=============================================================================
