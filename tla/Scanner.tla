------------------------------ MODULE Scanner -------------------------------
(***************************************************************************)
(* The bucket scanner of ai_service/scanner.py: its thread reads the known *)
(* keys once, lists the bucket and enqueues each key it has not seen.      *)
(***************************************************************************)
EXTENDS JobStore

CONSTANT Skipped     \* keys that are no recordings, or older than S3_SCAN_MODIFIED_AFTER

ASSUME SkippedAssumption == Skipped \subseteq Keys /\ Keys \subseteq Nat

VARIABLES
  bucket,   \* the objects present in the bucket (written by others)
  spc,      \* "wait", "list" or "insert"
  known,    \* scan_once's local `known`: s3_objects as it was when the scan began
  listing,  \* the listed keys scan_once has not visited yet
  stamp     \* the clock reading of enqueue_discovered, taken before the lock

scanVars == <<spc, known, listing, stamp>>
scannerVars == <<bucket, scanVars>>

ScannerTypeOK ==
  /\ bucket \subseteq Keys
  /\ spc \in {"wait", "list", "insert"}
  /\ known \subseteq Keys
  /\ listing \subseteq Keys
  /\ stamp \in Nat

ScannerInit ==
  /\ bucket = {}
  /\ spc = "wait" /\ known = {} /\ listing = {} /\ stamp = 0

Upload(k) ==
  /\ k \notin bucket
  /\ bucket' = bucket \cup {k}
  /\ UNCHANGED <<storeVars, scanVars>>

\* the thread waits for the interval, or for its first scan after a restart
ScanEnds == spc' = "wait" /\ known' = {} /\ listing' = {} /\ stamp' = 0

\* known_s3_keys, then the listing
ScanBegins ==
  /\ spc = "wait"
  /\ spc' = "list" /\ known' = objects /\ listing' = bucket
  /\ UNCHANGED <<storeVars, bucket, stamp>>

\* the listing is in key order
IsNextKey(k) == k \in listing /\ \A l \in listing : k <= l

\* a key that was known when the scan began, or needs no job
SkipKey(k) ==
  /\ spc = "list" /\ IsNextKey(k)
  /\ k \in known \cup Skipped
  /\ listing' = listing \ {k}
  /\ UNCHANGED <<storeVars, bucket, spc, known, stamp>>

TakeKeyRemembersFirst(k) ==
  /\ spc = "list" /\ IsNextKey(k)
  /\ k \notin known \cup Skipped
  /\ stamp' = now /\ now' = now + 1
  /\ objects' = objects \cup {k}
  /\ spc' = "insert"
  /\ UNCHANGED <<jobs, bucket, known, listing>>

\* enqueue_discovered is called: it reads the clock, then waits for the lock
TakeKey(k) ==
  /\ spc = "list" /\ IsNextKey(k)
  /\ k \notin known \cup Skipped
  /\ stamp' = now /\ now' = now + 1
  /\ spc' = "insert"
  /\ UNCHANGED <<jobs, objects, bucket, known, listing>>

InsertKey(k) ==
  /\ spc = "insert" /\ IsNextKey(k)
  /\ EnqueueDiscovered(k, stamp)
  /\ listing' = listing \ {k}
  /\ stamp' = 0
  /\ spc' = "list"
  /\ UNCHANGED <<now, bucket, known>>

\* every page is read; the thread waits for the interval
ScanDone ==
  /\ spc = "list" /\ listing = {}
  /\ ScanEnds
  /\ UNCHANGED <<storeVars, bucket>>

\* the listing fails between two keys: the rest is left to the next scan
ScanFails ==
  /\ spc = "list" /\ listing # {}
  /\ ScanEnds
  /\ UNCHANGED <<storeVars, bucket>>

ScannerNext ==
  \/ ScanBegins \/ ScanDone \/ ScanFails
  \/ \E k \in Keys : SkipKey(k) \/ TakeKey(k) \/ InsertKey(k)
=============================================================================
