----------------------------- MODULE RecordUrl ------------------------------
(***************************************************************************)
(* From an object key to the URL of its job and back: object_url of        *)
(* ai_service/scanner.py, parse_call_record_url and audio_suffix of        *)
(* ai_service/s3io.py.                                                     *)
(*                                                                         *)
(* A text is a sequence of characters, of which the code tells apart the   *)
(* slash, the characters that end the path of a URL ("#" stands for "#"    *)
(* and "?"), the extension of a recording (".mp3" stands for both) and the *)
(* others ("a").  In a URL each of them may be written as it is or quoted  *)
(* (%2F for a slash); a quoted ".mp3" has at least one of its letters      *)
(* quoted.                                                                 *)
(***************************************************************************)
EXTENDS Naturals, Sequences

Chars == {"a", "/", "#", ".mp3"}

Keyed == Seq(Chars)                                    \* object keys
Quoted == Seq([char : Chars, quoted : BOOLEAN])        \* texts inside a URL

RecordUrls == [scheme : {"s3", "http", "other"}, host : Quoted, path : Quoted]

Plain(c) == [char |-> c, quoted |-> FALSE]

\* urllib.parse.quote(key, safe='/'): letters, digits, '.', '-', '_', '~' stay as they are
Quote(key) == [i \in DOMAIN key |-> [char |-> key[i], quoted |-> key[i] = "#"]]

Unquote(text) == [i \in DOMAIN text |-> text[i].char]

\* what a text reads like before it is unquoted: a quoted character is just another letter
AsWritten(text) == [i \in DOMAIN text |-> IF text[i].quoted THEN "a" ELSE text[i].char]

\* Path(key).suffix.lower() in AUDIO_CONTENT_TYPES: the last component, trailing slashes
\* left out, ends in the extension and has something before it
IsAudio(key) ==
  \E i \in DOMAIN key \ {1} :
    /\ key[i] = ".mp3" /\ key[i - 1] # "/"
    /\ \A k \in DOMAIN key : k > i => key[k] = "/"

\* the first position where the text reads c, or the one behind its end
FirstAt(text, c) ==
  CHOOSE i \in 1 .. Len(text) + 1 :
    /\ i <= Len(text) => text[i] = Plain(c)
    /\ \A k \in 1 .. i - 1 : text[k] # Plain(c)

UpTo(text, c) == SubSeq(text, 1, FirstAt(text, c) - 1)
After(text, c) == SubSeq(text, FirstAt(text, c) + 1, Len(text))

\* str.lstrip("/")
LStrip(text) ==
  SubSeq(text, CHOOSE i \in 1 .. Len(text) + 1 :
                 /\ i <= Len(text) => text[i] # Plain("/")
                 /\ \A k \in 1 .. i - 1 : text[k] = Plain("/"),
         Len(text))

ObjectUrl(bucket, key) ==
  [scheme |-> "s3", host |-> bucket, path |-> <<Plain("/")>> \o Quote(key)]

-----------------------------------------------------------------------------
(* parse_call_record_url: an s3:// URL names bucket and key, the path of   *)
(* an http(s):// URL holds both (its host is ignored).                     *)

UrlPath(u) == LStrip(UpTo(u.path, "#"))

BucketPart(u) == IF u.scheme = "s3" THEN u.host ELSE UpTo(UrlPath(u), "/")
KeyPart(u) == IF u.scheme = "s3" THEN UrlPath(u) ELSE After(UrlPath(u), "/")

\* it returns; otherwise it raises ValueError
Parses(u) ==
  /\ u.scheme \in {"s3", "http"}
  /\ BucketPart(u) # <<>> /\ KeyPart(u) # <<>>
  /\ IsAudio(AsWritten(KeyPart(u)))

RecordingOf(u) == [bucket |-> BucketPart(u), key |-> Unquote(KeyPart(u))]
=============================================================================
