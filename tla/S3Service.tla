------------------------------ MODULE S3Service ------------------------------
(***************************************************************************)
(* The object storage behind attachments: the bucket that the constructor  *)
(* of S3Service finds or makes before the server takes requests, and the   *)
(* kinds of files that a message may carry.  Presigned links are pure      *)
(* functions of an object key and keep no state.                           *)
(***************************************************************************)
EXTENDS Naturals

CONSTANT MaxAttempts  \* kMaxRetries

ASSUME S3Assumption == MaxAttempts \in Nat \ {0}

VARIABLES
  bucket,   \* the bucket exists
  server,   \* where the constructor stands, or "up", or "dead": it threw
  attempt   \* of the constructor

s3 == <<bucket, server, attempt>>

(* starting: before BucketExists.  absent: it said that there is no bucket. *)
(* unknown: it failed with an error that names a missing bucket.            *)
Making == {"absent", "unknown"}

S3TypeOK ==
  /\ bucket \in BOOLEAN
  /\ server \in {"starting", "up", "dead"} \cup Making
  /\ attempt \in 1 .. MaxAttempts

S3Init == bucket = FALSE /\ server = "starting" /\ attempt = 1

-----------------------------------------------------------------------------
NextAttempt ==
  IF attempt < MaxAttempts
    THEN attempt' = attempt + 1 /\ server' = "starting"
    ELSE server' = "dead" /\ UNCHANGED attempt

BucketFound ==
  /\ server = "starting" /\ bucket
  /\ server' = "up"
  /\ UNCHANGED <<bucket, attempt>>

BucketMissing ==
  /\ server = "starting" /\ ~bucket
  /\ server' \in Making
  /\ UNCHANGED <<bucket, attempt>>

(* Any other error: MakeBucket is not tried *)
BucketExistsFails == server = "starting" /\ NextAttempt /\ UNCHANGED bucket

(* A second server, or an administrator, makes the bucket *)
MadeElsewhere == ~bucket /\ bucket' = TRUE /\ UNCHANGED <<server, attempt>>

MakeBucketAnswered ==
  /\ server \in Making /\ ~bucket
  /\ server' = "up" /\ bucket' = TRUE
  /\ UNCHANGED attempt

(* What an error of MakeBucket leads to: a throw, or the next attempt *)
AfterError == IF server = "absent" THEN server' = "dead" /\ UNCHANGED attempt
                                   ELSE NextAttempt

(* Mutant of MakeBucketFails: any error passes for "already exists" *)
AnyErrorPasses ==
  /\ server \in Making
  /\ server' = "up"
  /\ bucket' \in {bucket, TRUE}
  /\ UNCHANGED attempt

(* The error says that the bucket exists, which only one branch asks for *)
MakeBucketRefused ==
  /\ server \in Making /\ bucket
  /\ IF server = "unknown" THEN server' = "up" /\ UNCHANGED attempt ELSE AfterError
  /\ UNCHANGED bucket

(* The call fails, or its answer is lost *)
MakeBucketFails ==
  /\ server \in Making
  /\ AfterError
  /\ bucket' \in {bucket, TRUE}

(* The process is started again *)
RestartServer ==
  /\ server' = "starting" /\ attempt' = 1
  /\ UNCHANGED bucket

-----------------------------------------------------------------------------
MessageTypes == {"text", "media", "voice", "round", "sticker"}

(* File names stand for their extensions *)
Extensions == {".png", ".mp4", ".ogg", ".pdf", ""}

(* getExtension and getMimeType, up to the part of the type before the slash *)
MimeOf(extension) ==
  CASE extension = ".png" -> "image"
    [] extension = ".mp4" -> "video"
    [] extension = ".ogg" -> "audio"
    [] OTHER -> "application"

ValidateFileType(type, mime) ==
  /\ type = "media" => mime \in {"image", "video"}
  /\ type = "voice" => mime = "audio"

-----------------------------------------------------------------------------
(* The server takes requests only once the bucket is there, by whichever   *)
(* of the three ways the constructor returned, although an answer that was *)
(* lost, or another server, may have made the bucket behind its back.      *)
UpMeansBucket == server = "up" => bucket
=============================================================================
