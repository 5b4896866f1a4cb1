----------------------------- MODULE ClientFiles -----------------------------
(***************************************************************************)
(* Files between two clients: voice recording, the chain of requests that  *)
(* uploads a file and posts its message (MediaManager for ordinary chats,  *)
(* SecretChatManager for secret ones, which encrypts first), and the two   *)
(* caches of the receiver (MediaCacheManager, the directory of secret      *)
(* attachments).  Storage takes an object under the link it gave out.      *)
(***************************************************************************)
EXTENDS Naturals, FiniteSets

CONSTANTS
  Files,      \* files a user may send, each at most once
  Clip,       \* the one that the voice recorder makes
  Messages,   \* messages with files
  Scenarios   \* bounds a behaviour may choose from

Limits == {"faults", "full", "stops"}

(* full: disks that run full *)
Scenario == [kinds : SUBSET {"ordinary", "secret"}, files : SUBSET Files,
             limits : [Limits -> Nat]]

ASSUME FilesAssumption ==
  /\ Clip \in Files /\ IsFiniteSet(Files)
  /\ Scenarios \subseteq Scenario

(***************************************************************************)
(* What a file holds, or what an encrypted one holds: "part" of its source *)
(* and well-formed; "cut" between two chunks, before the final one; "short"*)
(* of a header; "broken" within a chunk; "empty" as open() made it.        *)
(***************************************************************************)
Forms == {"none", "empty", "part", "whole", "cut", "short", "broken"}

(* pending counts the uploads of a secret message that did not finish yet  *)
Send == [kind : {"ordinary", "secret"}, files : SUBSET Files,
         stage : {"new", "encrypting", "links", "put", "post", "sent", "received", "failed"},
         jobs : SUBSET Files, putting : SUBSET Files, pending : Nat,
         payload : SUBSET Files]

VARIABLES
  recording,  \* m_isRecording
  finishing,  \* the recorder has stopped, its file is not complete yet
  source,     \* the files on the disk of the sender
  read,       \* what an upload read of them, encrypted if it is secret
  sends,      \* messages under way
  saved,      \* rows of secret_attachments of the sender
  missed,     \* history: files whose encryption or upload failed
  object,     \* what storage holds
  rows,       \* rows of secret_attachments of the receiver
  path,       \* the ones with a local path
  disk,       \* the directory of secret attachments of the receiver
  temp,       \* its .enc files
  active,     \* its m_activeDownloads
  stage,      \* where each of its downloads is
  media,      \* the media cache of the receiver
  mediaActive, fetching,  \* its m_activeDownloads, and the requests behind
  served,     \* files that getOrPut answered from the cache
  torn,       \* history: files hit by a full disk, a stop or an early read
  left, scenario

sender == <<recording, finishing, source, read, sends, saved, missed, object>>
secret == <<rows, path, disk, temp, active, stage>>
cache == <<media, mediaActive, fetching, served>>
vars == <<sender, secret, cache, torn, left, scenario>>

TypeOK ==
  /\ {recording, finishing} \subseteq BOOLEAN
  /\ {source, read, object, disk, temp, media} \subseteq [Files -> Forms]
  /\ sends \in [Messages -> Send]
  /\ saved \subseteq Files /\ missed \subseteq Files /\ torn \subseteq Files
  /\ rows \subseteq Files /\ path \subseteq Files /\ active \subseteq Files
  /\ mediaActive \subseteq Files /\ fetching \subseteq Files /\ served \subseteq Files
  /\ stage \in [Files -> {"idle", "url", "get", "decrypt"}]
  /\ scenario \in Scenarios /\ left \in [Limits -> Nat]

NoSend == [kind |-> "ordinary", files |-> {}, stage |-> "new", jobs |-> {},
           putting |-> {}, pending |-> 0, payload |-> {}]

Init ==
  /\ recording = FALSE /\ finishing = FALSE
  /\ source = [f \in Files |-> IF f = Clip THEN "none" ELSE "whole"]
  /\ read = [f \in Files |-> "none"] /\ object = read /\ disk = read
  /\ temp = read /\ media = read
  /\ sends = [m \in Messages |-> NoSend]
  /\ saved = {} /\ missed = {} /\ rows = {} /\ path = {} /\ active = {}
  /\ stage = [f \in Files |-> "idle"]
  /\ mediaActive = {} /\ fetching = {} /\ served = {}
  /\ torn = {}
  /\ scenario \in Scenarios /\ left = scenario.limits

-----------------------------------------------------------------------------
Spend(limit) == left[limit] > 0 /\ left' = [left EXCEPT ![limit] = @ - 1]

Free == UNCHANGED left

(* A disk takes all of a file, or it is full, which no caller notices       *)
Written(form, result, damaged) ==
  \/ result = form /\ Free
  \/ form \notin {"none", "empty"} /\ result \in damaged /\ Spend("full")

Encrypted == {"cut", "short", "broken"}

Plain == {"empty", "part"}

(* What nobody can tell from a whole file; "broken" fails to decrypt        *)
Tear(f, form) ==
  torn' = IF form \in {"empty", "part", "cut", "short"} THEN torn \cup {f} ELSE torn

SetSend(m, send) == sends' = [sends EXCEPT ![m] = send]

Unsent == Files \ UNION {sends[m].files : m \in Messages}

-----------------------------------------------------------------------------
(* VoiceManager *)

(* record() may fail: that is logged, and nothing is written *)
StartRecording ==
  /\ ~recording /\ Clip \in scenario.files \cap Unsent /\ source[Clip] = "none"
  /\ recording' = TRUE
  /\ \/ source' = [source EXCEPT ![Clip] = "part"] /\ Free
     \/ source' = source /\ Spend("faults")
  /\ UNCHANGED <<finishing, read, sends, saved, missed, object, secret, cache,
                 torn, scenario>>

CancelRecording ==
  /\ recording
  /\ recording' = FALSE
  /\ source' = [source EXCEPT ![Clip] = "none"]
  /\ UNCHANGED <<finishing, read, sends, saved, missed, object, secret, cache,
                 torn, left, scenario>>

(* stop() is asynchronous: the file is completed later *)
RecorderFinishes ==
  /\ finishing
  /\ finishing' = FALSE
  /\ source' = [source EXCEPT ![Clip] = "whole"]
  /\ UNCHANGED <<recording, read, sends, saved, missed, object, secret, cache,
                 torn, left, scenario>>

(* uploadFile reads the file at once; without a file it stops there *)
UploadFile(m, f) ==
  /\ "ordinary" \in scenario.kinds /\ sends[m].stage = "new"
  /\ read' = [read EXCEPT ![f] = source[f]]
  /\ Tear(f, source[f])
  /\ SetSend(m, [NoSend EXCEPT !.files = {f}, !.stage =
                   IF source[f] = "none" THEN "failed" ELSE "links"])

(* sendSecretMessage saves the message and starts a worker *)
SendSecretMessage(m, fs) ==
  /\ "secret" \in scenario.kinds /\ sends[m].stage = "new"
  /\ SetSend(m, [NoSend EXCEPT !.kind = "secret", !.files = fs, !.stage = "encrypting"])
  /\ UNCHANGED <<read, torn>>

StopRecordingAndSend(m) ==
  /\ recording
  /\ recording' = FALSE
  /\ finishing' = (source[Clip] # "none")
  /\ UploadFile(m, Clip) \/ SendSecretMessage(m, {Clip})
  /\ UNCHANGED <<source, saved, missed, object, secret, cache, left, scenario>>

Choose(m, fs) ==
  /\ fs \subseteq (scenario.files \ {Clip}) \cap Unsent
  /\ \/ \E f \in fs : fs = {f} /\ UploadFile(m, f)
     \/ fs # {} /\ SendSecretMessage(m, fs)
  /\ UNCHANGED <<recording, finishing, source, saved, missed, object, secret,
                 cache, left, scenario>>

-----------------------------------------------------------------------------
(* MediaManager: links, PUT and message, each after the reply before it *)

(* A request of message m fails, or is refused, and the chain ends *)
OrdinaryFails(m) ==
  /\ sends[m].kind = "ordinary" /\ sends[m].stage \in {"links", "put", "post"}
  /\ Spend("faults")
  /\ SetSend(m, [sends[m] EXCEPT !.stage = "failed"])
  /\ UNCHANGED <<recording, finishing, source, read, saved, missed, object,
                 secret, cache, torn, scenario>>

NextStage(s) == CASE s = "links" -> "put" [] s = "put" -> "post" [] s = "post" -> "sent"

OrdinaryAnswered(m) ==
  /\ sends[m].kind = "ordinary" /\ sends[m].stage \in {"links", "put", "post"}
  /\ SetSend(m, [sends[m] EXCEPT !.stage = NextStage(@), !.payload =
                   IF sends[m].stage = "post" THEN sends[m].files ELSE {}])
  /\ object' = [f \in Files |-> IF f \in sends[m].files /\ sends[m].stage = "put"
                                  THEN read[f] ELSE object[f]]
  /\ UNCHANGED <<recording, finishing, source, read, saved, missed, secret, cache,
                 torn, left, scenario>>

-----------------------------------------------------------------------------
(* SecretChatManager: the worker, links, and all PUTs at once.  What fails  *)
(* is left out, and the message is posted with the rest.                    *)

EncryptFile(m, f) ==
  /\ sends[m].stage = "encrypting" /\ f \in sends[m].files \ (sends[m].jobs \cup missed)
  /\ \/ /\ source[f] # "none"
        /\ \E form \in Forms : /\ Written(source[f], form, Encrypted)
                               /\ read' = [read EXCEPT ![f] = form]
                               /\ Tear(f, form)
        /\ SetSend(m, [sends[m] EXCEPT !.jobs = @ \cup {f}])
        /\ UNCHANGED missed
     \/ /\ IF source[f] = "none" THEN Free ELSE Spend("faults")
        /\ missed' = missed \cup {f}
        /\ UNCHANGED <<read, sends, torn>>
  /\ UNCHANGED <<recording, finishing, source, saved, object, secret, cache, scenario>>

EncryptionEnds(m) ==
  /\ sends[m].stage = "encrypting" /\ sends[m].files \subseteq sends[m].jobs \cup missed
  /\ SetSend(m, [sends[m] EXCEPT !.stage =
                   IF sends[m].jobs = {} THEN "post" ELSE "links"])
  /\ UNCHANGED <<recording, finishing, source, read, saved, missed, object, secret,
                 cache, torn, left, scenario>>

LinksFail(m) ==
  /\ sends[m].kind = "secret" /\ sends[m].stage = "links"
  /\ Spend("faults")
  /\ SetSend(m, [sends[m] EXCEPT !.stage = "post"])
  /\ missed' = missed \cup sends[m].jobs
  /\ UNCHANGED <<recording, finishing, source, read, saved, object, secret, cache,
                 torn, scenario>>

(* A file whose row cannot be saved is skipped, and pending counts it still *)
LinksAnswered(m) ==
  /\ sends[m].kind = "secret" /\ sends[m].stage = "links"
  /\ \E unsaved \in SUBSET sends[m].jobs :
       LET kept == sends[m].jobs \ unsaved
       IN /\ Cardinality(unsaved) <= left.faults
          /\ left' = [left EXCEPT !.faults = @ - Cardinality(unsaved)]
          /\ saved' = saved \cup kept
          /\ SetSend(m, [sends[m] EXCEPT !.stage = "put", !.putting = kept,
                           !.pending = Cardinality(sends[m].jobs)])
  /\ UNCHANGED <<recording, finishing, source, read, missed, object, secret, cache,
                 torn, scenario>>

(* Mutant: the first upload that ends posts the message *)
AfterPutFirst(send, f, done) ==
  [send EXCEPT !.putting = @ \ {f}, !.pending = @ - 1,
               !.payload = IF done THEN @ \cup {f} ELSE @, !.stage = "post"]

(* Mutant: a failed upload is not counted down *)
AfterPutUncounted(send, f, done) ==
  [send EXCEPT !.putting = @ \ {f}, !.pending = IF done THEN @ - 1 ELSE @,
               !.payload = IF done THEN @ \cup {f} ELSE @,
               !.stage = IF send.pending = 1 THEN "post" ELSE @]

AfterPut(send, f, done) ==
  [send EXCEPT !.putting = @ \ {f}, !.pending = @ - 1,
               !.payload = IF done THEN @ \cup {f} ELSE @,
               !.stage = IF send.pending = 1 THEN "post" ELSE @]

PutEnds(m, f) ==
  /\ sends[m].stage = "put" /\ f \in sends[m].putting
  /\ \/ /\ object' = [object EXCEPT ![f] = read[f]] /\ Free
        /\ SetSend(m, AfterPut(sends[m], f, TRUE))
        /\ UNCHANGED missed
     \/ /\ Spend("faults")
        /\ SetSend(m, AfterPut(sends[m], f, FALSE))
        /\ missed' = missed \cup {f}
        /\ UNCHANGED object
  /\ UNCHANGED <<recording, finishing, source, read, saved, secret, cache, torn,
                 scenario>>

(* An error deletes the message and the rows of its files, also when only   *)
(* the reply was lost and the relay has taken the message                   *)
PostEnds(m) ==
  /\ sends[m].kind = "secret" /\ sends[m].stage = "post"
  /\ \/ SetSend(m, [sends[m] EXCEPT !.stage = "sent"]) /\ Free /\ UNCHANGED saved
     \/ /\ \E end \in {"sent", "failed"} : SetSend(m, [sends[m] EXCEPT !.stage = end])
        /\ Spend("faults")
        /\ saved' = saved \ sends[m].files
  /\ UNCHANGED <<recording, finishing, source, read, missed, object, secret, cache,
                 torn, scenario>>

StopSender ==
  /\ Spend("stops")
  /\ recording' = FALSE /\ finishing' = FALSE
  /\ sends' = [m \in Messages |->
        IF sends[m].stage \in {"new", "sent", "received", "failed"} THEN sends[m]
          ELSE [sends[m] EXCEPT !.stage = "failed"]]
  /\ UNCHANGED <<source, read, saved, missed, object, secret, cache, torn, scenario>>

-----------------------------------------------------------------------------
(* The receiver of a secret message *)

(* A row that cannot be saved is left out *)
Receive(m) ==
  /\ sends[m].kind = "secret" /\ sends[m].stage = "sent"
  /\ SetSend(m, [sends[m] EXCEPT !.stage = "received"])
  /\ \/ rows' = rows \cup sends[m].payload /\ Free
     \/ \E f \in sends[m].payload :
          rows' = rows \cup (sends[m].payload \ {f}) /\ Spend("faults")
  /\ UNCHANGED <<recording, finishing, source, read, saved, missed, object, path,
                 disk, temp, active, stage, cache, torn, scenario>>

(* Files under way are skipped.  A file that is there is not loaded again,  *)
(* whatever it holds.                                                       *)
Download(fs) ==
  LET asked == fs \ active
      there == {f \in asked : disk[f] # "none"}
  IN /\ asked # {}
     /\ path' = path \cup there
     /\ active' = active \cup (asked \ there)
     /\ stage' = [f \in Files |-> IF f \in asked \ there THEN "url" ELSE stage[f]]
     /\ UNCHANGED <<sender, rows, disk, temp, cache, torn, left, scenario>>

(* The user taps on a file, with or without a local path *)
DownloadSecretAttachment(f) == f \in rows /\ Download({f})

Missing == rows \ path

(* The page of a chat loads whatever has no local path *)
FetchSecretChatHistory == Download(Missing)

Leave(f) == active' = active \ {f} /\ stage' = [stage EXCEPT ![f] = "idle"]

(* No link: an error, an empty array or an empty link *)
UrlFails(f) ==
  /\ stage[f] = "url" /\ Spend("faults")
  /\ Leave(f)
  /\ UNCHANGED <<sender, rows, path, disk, temp, cache, torn, scenario>>

(* Mutant: the one return without a signal forgets m_activeDownloads, too   *)
OpenForgets(f) ==
  /\ stage[f] = "url" /\ Spend("faults")
  /\ stage' = [stage EXCEPT ![f] = "idle"]
  /\ UNCHANGED <<sender, rows, path, disk, temp, active, cache, torn, scenario>>

(* A link, but no .enc file; one of an earlier run stays as it is *)
OpenFails(f) ==
  /\ stage[f] = "url" /\ Spend("faults")
  /\ Leave(f)
  /\ UNCHANGED <<sender, rows, path, disk, temp, cache, torn, scenario>>

UrlAnswered(f) ==
  /\ stage[f] = "url"
  /\ stage' = [stage EXCEPT ![f] = "get"]
  /\ temp' = [temp EXCEPT ![f] = "empty"]
  /\ UNCHANGED <<sender, rows, path, disk, active, cache, torn, left, scenario>>

GetAnswered(f) ==
  /\ stage[f] = "get"
  /\ \E form \in Forms : /\ Written(object[f], form, Encrypted)
                         /\ temp' = [temp EXCEPT ![f] = form]
                         /\ Tear(f, form)
  /\ stage' = [stage EXCEPT ![f] = "decrypt"]
  /\ UNCHANGED <<sender, rows, path, disk, active, cache, scenario>>

(* No object, or not all of it *)
GetFails(f) ==
  /\ stage[f] = "get" /\ Spend("faults")
  /\ Leave(f)
  /\ temp' = [temp EXCEPT ![f] = "none"]
  /\ UNCHANGED <<sender, rows, path, disk, cache, torn, scenario>>

(* Mutant: what was decrypted before the broken chunk stays on the disk *)
DecryptedLeft(form) ==
  CASE form \in {"whole", "part"} -> form
    [] form = "cut" -> "part"
    [] form = "broken" -> "part"
    [] OTHER -> "empty"

(* decryptFile: a stream that ends early passes; one that is broken is      *)
(* removed; one without a header leaves the file that was opened for it     *)
Decrypted(form) ==
  CASE form \in {"whole", "part"} -> form
    [] form = "cut" -> "part"
    [] form = "broken" -> "none"
    [] OTHER -> "empty"

DecryptEnds(f) ==
  /\ stage[f] = "decrypt"
  /\ \/ /\ temp[f] \in {"whole", "part", "cut"}
        /\ \E form \in Forms : /\ Written(Decrypted(temp[f]), form, Plain)
                               /\ disk' = [disk EXCEPT ![f] = form]
                               /\ Tear(f, form)
        /\ path' = path \cup {f}
     \/ /\ temp[f] \in {"broken", "short"} /\ Free
        /\ disk' = [disk EXCEPT ![f] = Decrypted(temp[f])]
        /\ UNCHANGED <<path, torn>>
     \/ Spend("faults") /\ UNCHANGED <<path, disk, torn>>
  /\ temp' = [temp EXCEPT ![f] = "none"]
  /\ Leave(f)
  /\ UNCHANGED <<sender, rows, cache, scenario>>

Callback(f) ==
  \/ UrlAnswered(f) \/ UrlFails(f) \/ OpenFails(f)
  \/ GetAnswered(f) \/ GetFails(f) \/ DecryptEnds(f)

-----------------------------------------------------------------------------
(* MediaCacheManager *)

Posted == UNION {sends[m].payload : m \in {n \in Messages :
                   sends[n].stage \in {"sent", "received"}}}

Kept(f) == media[f] \notin {"none", "empty"}

GetOrPut(f) ==
  /\ f \in Posted /\ \E m \in Messages : f \in sends[m].files /\ sends[m].kind = "ordinary"
  /\ \/ Kept(f) /\ served' = served \cup {f} /\ UNCHANGED <<media, mediaActive, fetching>>
     \/ /\ ~Kept(f) /\ f \notin mediaActive
        /\ media' = [media EXCEPT ![f] = "empty"]
        /\ mediaActive' = mediaActive \cup {f} /\ fetching' = fetching \cup {f}
        /\ UNCHANGED served
  /\ UNCHANGED <<sender, secret, torn, left, scenario>>

OnFinished(f) ==
  /\ f \in fetching
  /\ \/ \E form \in Forms : /\ Written(object[f], form, Plain)
                            /\ media' = [media EXCEPT ![f] = form]
                            /\ Tear(f, form)
     \/ Spend("faults") /\ UNCHANGED <<media, torn>>
  /\ mediaActive' = mediaActive \ {f} /\ fetching' = fetching \ {f}
  /\ UNCHANGED <<sender, secret, served, scenario>>

(* Files that are being written when the receiver stops hold some of it *)
StopReceiver ==
  /\ Spend("stops")
  /\ LET writing == {f \in Files : stage[f] = "decrypt"}
     IN \E part \in SUBSET writing, half \in SUBSET fetching :
          /\ disk' = [f \in Files |-> IF f \in part THEN "part" ELSE disk[f]]
          /\ media' = [f \in Files |-> IF f \in half THEN "part" ELSE media[f]]
          /\ torn' = torn \cup part \cup half
  /\ active' = {} /\ stage' = [f \in Files |-> "idle"]
  /\ mediaActive' = {} /\ fetching' = {}
  /\ UNCHANGED <<sender, rows, path, temp, served, scenario>>

-----------------------------------------------------------------------------
Next ==
  \/ StartRecording \/ CancelRecording \/ RecorderFinishes
  \/ \E m \in Messages :
       \/ StopRecordingAndSend(m) \/ \E fs \in SUBSET Files : Choose(m, fs)
       \/ OrdinaryAnswered(m) \/ OrdinaryFails(m)
       \/ \E f \in Files : EncryptFile(m, f) \/ PutEnds(m, f)
       \/ EncryptionEnds(m) \/ LinksAnswered(m) \/ LinksFail(m) \/ PostEnds(m)
       \/ Receive(m)
  \/ \E f \in Files :
       \/ DownloadSecretAttachment(f) \/ Callback(f)
       \/ GetOrPut(f) \/ OnFinished(f)
  \/ FetchSecretChatHistory \/ StopSender \/ StopReceiver

Spec == Init /\ [][Next]_vars

(* Replies and workers of the receiver come to an end, and the user opens   *)
(* the chat again and again                                                 *)
Fairness ==
  /\ \A f \in Files : WF_vars(Callback(f))
  /\ WF_vars(FetchSecretChatHistory)

LiveSpec == Spec /\ Fairness

-----------------------------------------------------------------------------
(* A secret message is posted with every file that could be encrypted and  *)
(* uploaded, and it is not posted while one of them is still on its way.   *)
PostedWithTheRest ==
  \A m \in Messages : sends[m].kind = "secret" /\ sends[m].stage \in {"post", "sent"} =>
    sends[m].payload = sends[m].files \ missed

(* A secret message waits for an upload, or for ever if the row of one of  *)
(* its files could not be saved.                                           *)
StallsOnlyUnsaved ==
  \A m \in Messages : sends[m].stage = "put" /\ sends[m].putting = {} /\ sends[m].kind = "secret"
    => ~(sends[m].jobs \subseteq saved)

(* However often a download fails or is cut short, the file gets a local   *)
(* path, unless what its sender has uploaded does not decrypt: no way out  *)
(* of a download blocks the next one.                                      *)
FetchedInTheEnd ==
  \A f \in Files : f \in rows ~> f \in path \/ object[f] = "broken"

(* A secret file with a local path, and what the media cache serves, is    *)
(* the whole file that was sent, never because a download failed in part;  *)
(* unless a disk ran full, the application stopped while it decrypted the  *)
(* file, or the upload read the voice before the recorder had finished it. *)
WholeOrTorn ==
  /\ \A f \in path : disk[f] = "whole" \/ f \in torn
  /\ \A f \in served : media[f] = "whole" \/ f \in torn
=============================================================================
