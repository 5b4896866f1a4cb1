-------------------------- MODULE ClientFilesProofs --------------------------
(***************************************************************************)
(* Proofs about ClientFiles, for any files, messages, faults and stops.    *)
(***************************************************************************)
EXTENDS ClientFiles, FiniteSetTheorems, TLAPS

LEMMA SendFields ==
  ASSUME NEW s \in Send
  PROVE  /\ s.kind \in {"ordinary", "secret"}
         /\ s.files \in SUBSET Files /\ s.jobs \in SUBSET Files
         /\ s.putting \in SUBSET Files /\ s.payload \in SUBSET Files
         /\ s.pending \in Nat
BY DEF Send

LEMMA SpendType ==
  ASSUME left \in [Limits -> Nat], NEW limit \in Limits, Spend(limit)
  PROVE  left' \in [Limits -> Nat]
BY DEF Spend

LEMMA WrittenType ==
  ASSUME left \in [Limits -> Nat], NEW form, NEW result, NEW damaged,
         Written(form, result, damaged)
  PROVE  /\ left' \in [Limits -> Nat]
         /\ \/ result = form
            \/ form \notin {"none", "empty"} /\ result \in damaged
BY SpendType DEF Written, Free, Limits

LEMMA TearType ==
  ASSUME torn \subseteq Files, NEW f \in Files, NEW form, Tear(f, form)
  PROVE  torn' \subseteq Files
BY DEF Tear

LEMMA PostedType ==
  ASSUME TypeOK
  PROVE  Posted \subseteq Files
BY DEF TypeOK, Posted, Send

-----------------------------------------------------------------------------
(* Downloads: m_activeDownloads and the steps under way                    *)
UnderWay ==
  /\ active = {f \in Files : stage[f] # "idle"}
  /\ mediaActive = fetching

LEMMA InitUnderWay == Init => UnderWay
BY DEF Init, UnderWay

LEMMA NextUnderWay ==
  ASSUME TypeOK, UnderWay, [Next]_vars
  PROVE  UnderWay'
<1>1. ASSUME NEW fs \in SUBSET Files, Download(fs) PROVE UnderWay'
  BY <1>1 DEF Download, TypeOK, UnderWay, cache
<1>2. ASSUME NEW f \in Files, UrlFails(f) \/ OpenFails(f) \/ GetFails(f) \/ DecryptEnds(f)
      PROVE  UnderWay'
  BY <1>2 DEF UrlFails, OpenFails, GetFails, DecryptEnds, Leave, TypeOK, UnderWay, cache
<1>3. ASSUME NEW f \in Files, UrlAnswered(f) \/ GetAnswered(f)
      PROVE  UnderWay'
  BY <1>3 DEF UrlAnswered, GetAnswered, TypeOK, UnderWay, cache
<1>4. ASSUME NEW f \in Files, GetOrPut(f) \/ OnFinished(f) PROVE UnderWay'
  BY <1>4 DEF GetOrPut, OnFinished, UnderWay, secret
<1>5. CASE StopReceiver
  BY <1>5 DEF StopReceiver, UnderWay
<1>6. CASE UNCHANGED <<active, stage, mediaActive, fetching>>
  BY <1>6 DEF UnderWay
<1>7. ASSUME NEW m \in Messages, NEW fs \in SUBSET Files, Choose(m, fs)
      PROVE  UNCHANGED <<active, stage, mediaActive, fetching>>
  BY <1>7 DEF Choose, secret, cache
<1>8. ASSUME NEW m \in Messages, NEW f \in Files, EncryptFile(m, f) \/ PutEnds(m, f)
      PROVE  UNCHANGED <<active, stage, mediaActive, fetching>>
  BY <1>8 DEF EncryptFile, PutEnds, secret, cache
<1>9. ASSUME NEW m \in Messages,
             \/ StopRecordingAndSend(m) \/ OrdinaryAnswered(m) \/ OrdinaryFails(m)
             \/ EncryptionEnds(m) \/ LinksAnswered(m) \/ LinksFail(m)
             \/ PostEnds(m) \/ Receive(m)
      PROVE  UNCHANGED <<active, stage, mediaActive, fetching>>
  BY <1>9 DEF StopRecordingAndSend, OrdinaryAnswered, OrdinaryFails,
    EncryptionEnds, LinksAnswered, LinksFail, PostEnds, Receive, secret, cache
<1>10. CASE StartRecording \/ CancelRecording \/ RecorderFinishes \/ StopSender
              \/ UNCHANGED vars
  BY <1>10, <1>6 DEF StartRecording, CancelRecording, RecorderFinishes, StopSender,
    vars, secret, cache
<1>11. Missing \in SUBSET Files
  BY DEF Missing, TypeOK
<1>. QED
  BY <1>1, <1>2, <1>3, <1>4, <1>5, <1>6, <1>7, <1>8, <1>9, <1>10, <1>11
    DEF Next, Callback, DownloadSecretAttachment, FetchSecretChatHistory

-----------------------------------------------------------------------------
(***************************************************************************)
(* The strengthening for the sender.  No two messages share a file; and of *)
(* the files of a secret message, each is about to be encrypted, about to  *)
(* be uploaded, uploaded, missed, or without a row, which pending counts   *)
(* for ever.                                                               *)
(***************************************************************************)
Disjoint ==
  \A m, n \in Messages : m # n => sends[m].files \cap sends[n].files = {}

SavedAreSent == saved \subseteq UNION {sends[m].files : m \in Messages}

Parts(s) ==
  /\ s.jobs \subseteq s.files /\ s.putting \subseteq s.jobs
  /\ s.payload \subseteq s.files
  /\ s.stage = "new" => s = NoSend
  /\ s.kind = "ordinary" => s.jobs = {} /\ s.stage # "encrypting"

Preparing(s) ==
  s.kind = "secret" /\ s.stage \in {"encrypting", "links"} =>
    /\ s.putting = {} /\ s.payload = {}
    /\ s.jobs \cap missed = {} /\ s.files \cap saved = {}
    /\ s.stage = "links" => s.jobs # {} /\ s.files \subseteq s.jobs \cup missed

Uploading(s) ==
  s.kind = "secret" /\ s.stage = "put" =>
    /\ s.files \subseteq s.jobs \cup missed
    /\ s.putting \subseteq saved \ missed
    /\ s.payload = (s.jobs \cap saved) \ (s.putting \cup missed)
    /\ s.pending = Cardinality(s.putting) + Cardinality(s.jobs \ saved)
    /\ s.pending # 0

Posting(s) ==
  s.kind = "secret" /\ s.stage \in {"post", "sent"} => s.payload = s.files \ missed

Upload(s) == Parts(s) /\ Preparing(s) /\ Uploading(s) /\ Posting(s)

SenderInv ==
  /\ TypeOK /\ Disjoint /\ SavedAreSent
  /\ \A m \in Messages : Upload(sends[m])

-----------------------------------------------------------------------------
LEMMA InitSender == Init => SenderInv
<1>1. Init => TypeOK
  <2>1. NoSend \in Send
    BY DEF NoSend, Send
  <2>2. Init => sends \in [Messages -> Send] /\ left \in [Limits -> Nat]
    BY <2>1, FilesAssumption DEF Init, Scenario
  <2>3. Init => {source, read, object, disk, temp, media} \subseteq [Files -> Forms]
    BY DEF Init, Forms
  <2>. QED
    BY <2>2, <2>3 DEF Init, TypeOK
<1>2. Init => Disjoint /\ SavedAreSent
  BY DEF Init, Disjoint, SavedAreSent, NoSend
<1>3. Upload(NoSend)
  BY DEF Upload, Parts, Preparing, Uploading, Posting, NoSend
<1>. QED
  BY <1>1, <1>2, <1>3 DEF Init, SenderInv

(* A message takes its files when it is made, and keeps them               *)
SameFiles(m, s) ==
  \/ s.files = sends[m].files
  \/ sends[m].stage = "new" /\ s.files \subseteq Unsent

(* Messages that a step does not touch are not disturbed by what it does   *)
(* to the files of another                                                 *)
LEMMA OthersUploads ==
  ASSUME SenderInv, NEW m \in Messages, NEW s \in Send, SetSend(m, s),
         SameFiles(m, s),
         saved' \subseteq saved \cup s.files, saved \subseteq saved' \cup s.files,
         missed' \subseteq missed \cup s.files, missed \subseteq missed'
  PROVE  /\ Disjoint' /\ SavedAreSent'
         /\ \A n \in Messages : n # m => Upload(sends[n])'
<1>1. sends' = [sends EXCEPT ![m] = s]
  BY DEF SetSend
<1>2. sends \in [Messages -> Send]
  BY DEF SenderInv, TypeOK
<1>3. ASSUME NEW n \in Messages, n # m
      PROVE  sends'[n] = sends[n] /\ sends[n].files \cap s.files = {}
  BY <1>1, <1>2, <1>3 DEF SenderInv, Disjoint, Unsent, SameFiles
<1>4. sends'[m] = s
  BY <1>1, <1>2
<1>5. Disjoint'
  BY <1>3, <1>4 DEF SenderInv, Disjoint
<1>6. sends[m].files \subseteq s.files
  BY DEF SenderInv, Upload, Parts, NoSend, SameFiles
<1>7. SavedAreSent'
  BY <1>3, <1>4, <1>6 DEF SenderInv, SavedAreSent
<1>8. ASSUME NEW n \in Messages, n # m PROVE Upload(sends[n])'
  <2>1. sends'[n] = sends[n] /\ sends[n].files \cap s.files = {}
    BY <1>3, <1>8
  <2>2. Upload(sends[n])
    BY DEF SenderInv
  <2>3. /\ sends[n].jobs \subseteq sends[n].files
        /\ sends[n].putting \subseteq sends[n].files
    BY <2>2 DEF Upload, Parts
  <2>4. /\ sends[n].jobs \cap missed' = sends[n].jobs \cap missed
        /\ sends[n].files \cap saved' = sends[n].files \cap saved
        /\ sends[n].files \cap missed' = sends[n].files \cap missed
        /\ sends[n].jobs \ saved' = sends[n].jobs \ saved
        /\ sends[n].files \ missed' = sends[n].files \ missed
    BY <2>1, <2>3
  <2>5. Parts(sends[n])' /\ Preparing(sends[n])' /\ Posting(sends[n])'
    BY <2>1, <2>2, <2>3, <2>4 DEF Upload, Parts, Preparing, Posting
  <2>6. Uploading(sends[n])'
    BY <2>1, <2>2, <2>3, <2>4 DEF Upload, Uploading
  <2>. QED
    BY <2>5, <2>6 DEF Upload
<1>. QED
  BY <1>5, <1>7, <1>8

(* One message changes, to one that is in order again                      *)
LEMMA UploadStep ==
  ASSUME SenderInv, TypeOK', NEW m \in Messages, NEW s \in Send, SetSend(m, s),
         SameFiles(m, s),
         saved' \subseteq saved \cup s.files, saved \subseteq saved' \cup s.files,
         missed' \subseteq missed \cup s.files, missed \subseteq missed',
         sends'[m] = s => Upload(sends[m])'
  PROVE  SenderInv'
<1>1. sends'[m] = s
  BY DEF SetSend, SenderInv, TypeOK
<1>. QED
  BY <1>1, OthersUploads DEF SenderInv

LEMMA SameUploads ==
  ASSUME SenderInv, TypeOK', UNCHANGED <<sends, saved, missed>>
  PROVE  SenderInv'
<1>1. ASSUME NEW m \in Messages PROVE Upload(sends[m])'
  <2>1. Upload(sends[m])
    BY DEF SenderInv
  <2>. QED
    BY <2>1 DEF Upload, Parts, Preparing, Uploading, Posting
<1>. QED
  BY <1>1 DEF SenderInv, Disjoint, SavedAreSent

(* A message with files that no message has had                            *)
LEMMA UploadFileInv ==
  ASSUME SenderInv, TypeOK', NEW m \in Messages, NEW f \in Unsent, UploadFile(m, f),
         UNCHANGED <<saved, missed>>
  PROVE  SenderInv'
<1>. DEFINE s == [NoSend EXCEPT !.files = {f},
                    !.stage = IF source[f] = "none" THEN "failed" ELSE "links"]
<1>1. s \in Send /\ s.files \subseteq Unsent
  BY DEF Send, NoSend, Unsent
<1>2. SetSend(m, s) /\ sends[m].stage = "new"
  BY DEF UploadFile
<1>3. sends'[m] = s => Upload(sends[m])'
  BY DEF Upload, Parts, Preparing, Uploading, Posting, NoSend
<1>. HIDE DEF s
<1>4. SameFiles(m, s)
  BY <1>1, <1>2 DEF SameFiles
<1>. QED
  BY <1>1, <1>2, <1>3, <1>4, UploadStep

LEMMA SendSecretInv ==
  ASSUME SenderInv, TypeOK', NEW m \in Messages, NEW fs \in SUBSET Unsent,
         SendSecretMessage(m, fs), UNCHANGED <<saved, missed>>
  PROVE  SenderInv'
<1>. DEFINE s == [NoSend EXCEPT !.kind = "secret", !.files = fs, !.stage = "encrypting"]
<1>1. s \in Send /\ s.files = fs
  BY DEF Send, NoSend, Unsent
<1>2. SetSend(m, s) /\ sends[m].stage = "new"
  BY DEF SendSecretMessage
<1>3. fs \cap saved = {}
  BY DEF SenderInv, SavedAreSent, Unsent
<1>4. sends'[m] = s => Upload(sends[m])'
  BY <1>3 DEF Upload, Parts, Preparing, Uploading, Posting, NoSend
<1>. HIDE DEF s
<1>5. SameFiles(m, s)
  BY <1>1, <1>2 DEF SameFiles
<1>. QED
  BY <1>1, <1>2, <1>4, <1>5, UploadStep

(* Chains of ordinary messages and failures: nothing but the stage and the *)
(* payload of a message that is not posted by them                         *)
LEMMA StageInv ==
  ASSUME SenderInv, TypeOK', NEW m \in Messages, NEW s \in Send, SetSend(m, s),
         sends[m].stage # "new", s.stage \notin {"new", "encrypting"},
         s.kind = sends[m].kind, s.files = sends[m].files,
         s.jobs = sends[m].jobs, s.putting = sends[m].putting,
         s.payload \subseteq s.files,
         s.kind = "secret" => s.stage \in {"failed", "received"},
         UNCHANGED <<saved, missed>>
  PROVE  SenderInv'
<1>1. Upload(sends[m])
  BY DEF SenderInv
<1>2. sends'[m] = s => Upload(sends[m])'
  BY <1>1 DEF Upload, Parts, Preparing, Uploading, Posting, Send
<1>3. /\ saved' \subseteq saved \cup s.files /\ saved \subseteq saved' \cup s.files
      /\ missed' \subseteq missed \cup s.files /\ missed \subseteq missed'
  OBVIOUS
<1>4. SameFiles(m, s)
  BY DEF SameFiles
<1>. QED
  BY <1>2, <1>3, <1>4, UploadStep

LEMMA OrdinaryInv ==
  ASSUME SenderInv, TypeOK', NEW m \in Messages,
         OrdinaryFails(m) \/ OrdinaryAnswered(m)
  PROVE  SenderInv'
<1>0. /\ sends[m] \in Send /\ sends[m].kind = "ordinary"
      /\ sends[m].stage \in {"links", "put", "post"}
      /\ UNCHANGED <<saved, missed>>
  BY DEF OrdinaryFails, OrdinaryAnswered, SenderInv, TypeOK
<1>1. CASE OrdinaryFails(m)
  <2>. DEFINE s == [sends[m] EXCEPT !.stage = "failed"]
  <2>1. /\ s \in Send /\ SetSend(m, s) /\ s.stage = "failed"
        /\ s.kind = sends[m].kind /\ s.files = sends[m].files
        /\ s.jobs = sends[m].jobs /\ s.putting = sends[m].putting
        /\ s.payload = sends[m].payload
    BY <1>0, <1>1 DEF OrdinaryFails, Send
  <2>2. sends[m].payload \subseteq sends[m].files
    BY DEF SenderInv, Upload, Parts
  <2>. HIDE DEF s
  <2>. QED
    BY <1>0, <2>1, <2>2, StageInv
<1>2. CASE OrdinaryAnswered(m)
  <2>. DEFINE load == IF sends[m].stage = "post" THEN sends[m].files ELSE {}
              s == [sends[m] EXCEPT !.stage = NextStage(@), !.payload = load]
  <2>1. NextStage(sends[m].stage) \in {"put", "post", "sent"}
    BY <1>0 DEF NextStage
  <2>2. load \in SUBSET Files /\ load \subseteq sends[m].files
    BY <1>0 DEF Send
  <2>3. SetSend(m, s)
    BY <1>2 DEF OrdinaryAnswered
  <2>. HIDE DEF load
  <2>4. /\ s \in Send /\ s.stage \in {"put", "post", "sent"}
        /\ s.kind = sends[m].kind /\ s.files = sends[m].files
        /\ s.jobs = sends[m].jobs /\ s.putting = sends[m].putting
        /\ s.payload = load
    BY <1>0, <2>1, <2>2 DEF Send
  <2>. HIDE DEF s
  <2>. QED
    BY <1>0, <2>2, <2>3, <2>4, StageInv
<1>. QED
  BY <1>1, <1>2

(* The chain of a secret message                                           *)

LEMMA EncryptInv ==
  ASSUME SenderInv, TypeOK', NEW m \in Messages, NEW f \in Files, EncryptFile(m, f)
  PROVE  SenderInv'
<1>0. /\ sends[m] \in Send /\ Upload(sends[m]) /\ sends[m].kind = "secret"
      /\ sends[m].stage = "encrypting"
      /\ f \in sends[m].files \ (sends[m].jobs \cup missed)
      /\ saved' = saved
  BY DEF EncryptFile, SenderInv, TypeOK, Upload, Parts, Send
<1>1. CASE sends' = sends /\ missed' = missed \cup {f}
  <2>1. SetSend(m, sends[m]) /\ SameFiles(m, sends[m])
    BY <1>1 DEF SetSend, SameFiles, SenderInv, TypeOK
  <2>2. sends'[m] = sends[m] => Upload(sends[m])'
    BY <1>0, <1>1 DEF Upload, Parts, Preparing, Uploading, Posting
  <2>. QED
    BY <1>0, <1>1, <2>1, <2>2, UploadStep
<1>2. CASE SetSend(m, [sends[m] EXCEPT !.jobs = @ \cup {f}]) /\ missed' = missed
  <2>. DEFINE s == [sends[m] EXCEPT !.jobs = @ \cup {f}]
  <2>1. s \in Send /\ SetSend(m, s) /\ SameFiles(m, s)
    BY <1>0, <1>2 DEF Send, SameFiles
  <2>2. sends'[m] = s => Upload(sends[m])'
    BY <1>0, <1>2 DEF Upload, Parts, Preparing, Uploading, Posting, Send
  <2>. HIDE DEF s
  <2>. QED
    BY <1>0, <1>2, <2>1, <2>2, UploadStep
<1>. QED
  BY <1>1, <1>2 DEF EncryptFile

LEMMA EncryptionEndsInv ==
  ASSUME SenderInv, TypeOK', NEW m \in Messages, EncryptionEnds(m)
  PROVE  SenderInv'
<1>. DEFINE s == [sends[m] EXCEPT !.stage = IF sends[m].jobs = {} THEN "post" ELSE "links"]
<1>0. /\ sends[m] \in Send /\ Upload(sends[m]) /\ sends[m].kind = "secret"
      /\ sends[m].stage = "encrypting" /\ sends[m].files \subseteq sends[m].jobs \cup missed
      /\ UNCHANGED <<saved, missed>>
  BY DEF EncryptionEnds, SenderInv, TypeOK, Upload, Parts, Send
<1>1. s \in Send /\ SetSend(m, s) /\ SameFiles(m, s)
  BY <1>0 DEF EncryptionEnds, Send, SameFiles
<1>2. sends'[m] = s => Upload(sends[m])'
  BY <1>0 DEF Upload, Parts, Preparing, Uploading, Posting, Send
<1>. HIDE DEF s
<1>. QED
  BY <1>0, <1>1, <1>2, UploadStep

LEMMA LinksFailInv ==
  ASSUME SenderInv, TypeOK', NEW m \in Messages, LinksFail(m)
  PROVE  SenderInv'
<1>. DEFINE s == [sends[m] EXCEPT !.stage = "post"]
<1>0. /\ sends[m] \in Send /\ Upload(sends[m]) /\ sends[m].kind = "secret"
      /\ sends[m].stage = "links" /\ missed' = missed \cup sends[m].jobs
      /\ UNCHANGED saved
  BY DEF LinksFail, SenderInv, TypeOK
<1>1. s \in Send /\ SetSend(m, s) /\ SameFiles(m, s) /\ s.files = sends[m].files
  BY <1>0 DEF LinksFail, Send, SameFiles
<1>2. sends'[m] = s => Upload(sends[m])'
  BY <1>0 DEF Upload, Parts, Preparing, Uploading, Posting, Send
<1>3. missed' \subseteq missed \cup s.files
  BY <1>0, <1>1 DEF Upload, Parts
<1>. HIDE DEF s
<1>. QED
  BY <1>0, <1>1, <1>2, <1>3, UploadStep

(* pending starts as the number of files, with and without a row           *)
LEMMA LinksAnsweredInv ==
  ASSUME SenderInv, TypeOK', NEW m \in Messages, LinksAnswered(m)
  PROVE  SenderInv'
<1>0. /\ sends[m] \in Send /\ Upload(sends[m]) /\ sends[m].kind = "secret"
      /\ sends[m].stage = "links" /\ UNCHANGED missed
  BY DEF LinksAnswered, SenderInv, TypeOK
<1>1. PICK unsaved \in SUBSET sends[m].jobs :
        /\ saved' = saved \cup (sends[m].jobs \ unsaved)
        /\ SetSend(m, [sends[m] EXCEPT !.stage = "put",
                          !.putting = sends[m].jobs \ unsaved,
                          !.pending = Cardinality(sends[m].jobs)])
  BY DEF LinksAnswered
<1>. DEFINE kept == sends[m].jobs \ unsaved
            s == [sends[m] EXCEPT !.stage = "put", !.putting = kept,
                    !.pending = Cardinality(sends[m].jobs)]
<1>2. /\ IsFiniteSet(sends[m].jobs) /\ IsFiniteSet(kept) /\ IsFiniteSet(unsaved)
      /\ Cardinality(sends[m].jobs) \in Nat /\ Cardinality(kept) \in Nat
      /\ Cardinality(unsaved) \in Nat
      /\ Cardinality(sends[m].jobs) = Cardinality(kept) + Cardinality(unsaved)
      /\ Cardinality(sends[m].jobs) # 0
  <2>1. IsFiniteSet(sends[m].jobs) /\ sends[m].jobs # {}
    BY <1>0, FilesAssumption, FS_Subset DEF Send, Upload, Preparing
  <2>2. IsFiniteSet(kept) /\ IsFiniteSet(unsaved)
    BY <2>1, FS_Subset
  <2>3. kept \cap unsaved = {} /\ sends[m].jobs = kept \cup unsaved
    OBVIOUS
  <2>4. Cardinality(kept \cap unsaved) = 0
    BY <2>3, FS_EmptySet
  <2>5. Cardinality(sends[m].jobs) # 0
    BY <2>1, FS_EmptySet
  <2>6. Cardinality(kept \cup unsaved) = Cardinality(kept) + Cardinality(unsaved)
    <3>1. Cardinality(kept) \in Nat /\ Cardinality(unsaved) \in Nat
      BY <2>2, FS_CardinalityType
    <3>2. Cardinality(kept \cup unsaved)
            = Cardinality(kept) + Cardinality(unsaved) - Cardinality(kept \cap unsaved)
      BY <2>2, FS_Union
    <3>. QED
      BY <2>4, <3>1, <3>2
  <2>. QED
    BY <2>1, <2>2, <2>3, <2>5, <2>6, FS_CardinalityType
<1>3. s \in Send /\ SetSend(m, s) /\ SameFiles(m, s)
  BY <1>0, <1>1, <1>2 DEF Send, SameFiles
<1>4. kept \subseteq sends[m].files /\ sends[m].jobs \cap saved = {}
  BY <1>0 DEF Upload, Parts, Preparing
<1>5. s.files = sends[m].files /\ s.jobs = sends[m].jobs /\ s.putting = kept
      /\ s.kind = "secret" /\ s.stage = "put" /\ s.payload = sends[m].payload
      /\ s.pending = Cardinality(sends[m].jobs)
  BY <1>0 DEF Send
<1>6. sends[m].jobs \ saved' = unsaved
  BY <1>1, <1>4
<1>. HIDE DEF s, kept
<1>7. kept \subseteq sends[m].jobs /\ saved' = saved \cup kept
  BY <1>1 DEF kept
<1>8. sends'[m] = s => Parts(sends[m])' /\ Preparing(sends[m])' /\ Posting(sends[m])'
  BY <1>0, <1>5, <1>7 DEF Upload, Parts, Preparing, Posting
<1>9. sends'[m] = s => Uploading(sends[m])'
  <2>1. (sends[m].jobs \cap saved') \ (kept \cup missed) = {}
    BY <1>4, <1>7
  <2>2. kept \subseteq saved' \ missed
    BY <1>0, <1>7 DEF Upload, Preparing
  <2>3. sends[m].payload = {} /\ sends[m].files \subseteq sends[m].jobs \cup missed
    BY <1>0 DEF Upload, Preparing
  <2>. QED
    BY <1>0, <1>2, <1>5, <1>6, <2>1, <2>2, <2>3 DEF Uploading
<1>10. /\ saved' \subseteq saved \cup s.files /\ saved \subseteq saved' \cup s.files
       /\ missed' \subseteq missed \cup s.files /\ missed \subseteq missed'
  BY <1>0, <1>4, <1>5, <1>7
<1>. QED
  BY <1>3, <1>8, <1>9, <1>10, UploadStep DEF Upload

(* The last upload that ends posts the message, if every row was saved     *)
LEMMA PutEndsInv ==
  ASSUME SenderInv, TypeOK', NEW m \in Messages, NEW f \in Files, PutEnds(m, f)
  PROVE  SenderInv'
<1>0. /\ sends[m] \in Send /\ Upload(sends[m])
      /\ sends[m].stage = "put" /\ f \in sends[m].putting /\ UNCHANGED saved
  BY DEF PutEnds, SenderInv, TypeOK
<1>1. sends[m].kind = "secret" /\ f \in sends[m].jobs /\ f \in sends[m].files
  BY <1>0 DEF Upload, Parts, Send
<1>2. PICK done \in BOOLEAN :
        /\ SetSend(m, AfterPut(sends[m], f, done))
        /\ missed' = IF done THEN missed ELSE missed \cup {f}
  BY DEF PutEnds
<1>. DEFINE s == AfterPut(sends[m], f, done)
            unsaved == sends[m].jobs \ saved
            rest == sends[m].putting \ {f}
<1>3. /\ Cardinality(unsaved) \in Nat /\ Cardinality(rest) \in Nat
      /\ Cardinality(sends[m].putting) = Cardinality(rest) + 1
      /\ Cardinality(unsaved) = 0 => unsaved = {}
      /\ Cardinality(rest) = 0 => rest = {}
  <2>1. /\ IsFiniteSet(sends[m].putting) /\ IsFiniteSet(unsaved) /\ IsFiniteSet(rest)
    BY <1>0, FilesAssumption, FS_Subset DEF Send
  <2>2. Cardinality(rest) = Cardinality(sends[m].putting) - 1
    BY <1>0, <2>1, FS_RemoveElement
  <2>3. /\ Cardinality(unsaved) \in Nat /\ Cardinality(rest) \in Nat
        /\ Cardinality(sends[m].putting) \in Nat
    BY <2>1, FS_CardinalityType
  <2>4. /\ Cardinality(unsaved) = 0 => unsaved = {}
        /\ Cardinality(rest) = 0 => rest = {}
    BY <2>1, FS_EmptySet
  <2>. QED
    BY <2>2, <2>3, <2>4
<1>4. /\ sends[m].pending = Cardinality(rest) + 1 + Cardinality(unsaved)
      /\ sends[m].files \subseteq sends[m].jobs \cup missed
      /\ sends[m].jobs \subseteq sends[m].files
      /\ sends[m].putting \subseteq sends[m].jobs
      /\ sends[m].putting \subseteq saved \ missed
      /\ sends[m].payload = (sends[m].jobs \cap saved) \ (sends[m].putting \cup missed)
      /\ sends[m].payload \subseteq sends[m].files
  BY <1>0, <1>1, <1>3 DEF Upload, Uploading, Parts
<1>5. /\ s.kind = "secret" /\ s.files = sends[m].files /\ s.jobs = sends[m].jobs
      /\ s.putting = rest /\ s.pending = sends[m].pending - 1
      /\ s.payload = IF done THEN sends[m].payload \cup {f} ELSE sends[m].payload
      /\ s.stage = IF sends[m].pending = 1 THEN "post" ELSE "put"
      /\ s \in Send
  <2>1. sends[m].pending - 1 \in Nat /\ rest \in SUBSET Files
    BY <1>0, <1>3, <1>4 DEF Send
  <2>2. (IF done THEN sends[m].payload \cup {f} ELSE sends[m].payload) \in SUBSET Files
    BY <1>0 DEF Send
  <2>. QED
    BY <1>0, <1>1, <2>1, <2>2 DEF AfterPut, Send
<1>. HIDE DEF s, rest, unsaved
<1>6. rest = sends[m].putting \ {f} /\ unsaved = sends[m].jobs \ saved'
  BY <1>0 DEF rest, unsaved
<1>7. s.payload = (s.jobs \cap saved') \ (s.putting \cup missed')
  <2>1. CASE done
    BY <1>0, <1>1, <1>2, <1>4, <1>5, <1>6, <2>1
  <2>2. CASE ~done
    BY <1>0, <1>1, <1>2, <1>4, <1>5, <1>6, <2>2
  <2>. QED
    BY <2>1, <2>2
<1>8. s.files \subseteq s.jobs \cup missed' /\ s.putting \subseteq saved' \ missed'
  BY <1>0, <1>2, <1>4, <1>5, <1>6
<1>9. s.stage = "put" => s.pending # 0
  BY <1>3, <1>4, <1>5
<1>10. s.stage = "post" => s.payload = s.files \ missed'
  <2>. SUFFICES ASSUME sends[m].pending = 1 PROVE s.payload = s.files \ missed'
    BY <1>5
  <2>1. rest = {} /\ unsaved = {}
    BY <1>3, <1>4
  <2>. QED
    BY <1>2, <1>4, <1>5, <1>6, <1>7, <1>8, <2>1
<1>11. sends'[m] = s => Parts(sends[m])' /\ Preparing(sends[m])' /\ Posting(sends[m])'
  <2>1. s.payload \subseteq s.files /\ s.putting \subseteq s.jobs /\ s.jobs \subseteq s.files
    BY <1>0, <1>1, <1>4, <1>5, <1>6
  <2>. QED
    BY <1>5, <1>10, <2>1 DEF Parts, Preparing, Posting
<1>12. sends'[m] = s => Uploading(sends[m])'
  <2>1. s.pending = Cardinality(s.putting) + Cardinality(s.jobs \ saved')
    BY <1>3, <1>4, <1>5, <1>6
  <2>. QED
    BY <1>7, <1>8, <1>9, <2>1 DEF Uploading
<1>13. /\ saved' \subseteq saved \cup s.files /\ saved \subseteq saved' \cup s.files
       /\ missed' \subseteq missed \cup s.files /\ missed \subseteq missed'
  BY <1>0, <1>1, <1>2, <1>5
<1>14. SameFiles(m, s) /\ SetSend(m, s)
  BY <1>2, <1>5 DEF SameFiles, s
<1>. QED
  BY <1>5, <1>11, <1>12, <1>13, <1>14, UploadStep DEF Upload

LEMMA PostEndsInv ==
  ASSUME SenderInv, TypeOK', NEW m \in Messages, PostEnds(m)
  PROVE  SenderInv'
<1>0. /\ sends[m] \in Send /\ Upload(sends[m]) /\ sends[m].kind = "secret"
      /\ sends[m].stage = "post" /\ UNCHANGED missed
  BY DEF PostEnds, SenderInv, TypeOK
<1>1. PICK next \in {"sent", "failed"} :
        /\ SetSend(m, [sends[m] EXCEPT !.stage = next])
        /\ saved' \in {saved, saved \ sends[m].files}
  BY DEF PostEnds
<1>. DEFINE s == [sends[m] EXCEPT !.stage = next]
<1>2. /\ s \in Send /\ SetSend(m, s) /\ SameFiles(m, s) /\ s.files = sends[m].files
      /\ s.stage = next
  BY <1>0, <1>1 DEF Send, SameFiles
<1>3. sends'[m] = s => Upload(sends[m])'
  BY <1>0, <1>2 DEF Upload, Parts, Preparing, Uploading, Posting, Send
<1>4. saved' \subseteq saved \cup s.files /\ saved \subseteq saved' \cup s.files
  BY <1>1, <1>2
<1>. HIDE DEF s
<1>. QED
  BY <1>0, <1>2, <1>3, <1>4, UploadStep

LEMMA ReceiveInv ==
  ASSUME SenderInv, TypeOK', NEW m \in Messages, Receive(m)
  PROVE  SenderInv'
<1>. DEFINE s == [sends[m] EXCEPT !.stage = "received"]
<1>0. /\ sends[m] \in Send /\ SetSend(m, s) /\ sends[m].stage = "sent"
      /\ UNCHANGED <<saved, missed>>
  BY DEF Receive, SenderInv, TypeOK
<1>1. /\ s \in Send /\ SetSend(m, s) /\ s.stage = "received"
      /\ s.kind = sends[m].kind /\ s.files = sends[m].files
      /\ s.jobs = sends[m].jobs /\ s.putting = sends[m].putting
      /\ s.payload = sends[m].payload
      /\ sends[m].stage = "sent" /\ UNCHANGED <<saved, missed>>
  BY <1>0 DEF Send
<1>2. s.payload \subseteq s.files
  BY <1>1 DEF SenderInv, Upload, Parts
<1>. HIDE DEF s
<1>. QED
  BY <1>1, <1>2, StageInv

LEMMA StopSenderInv ==
  ASSUME SenderInv, TypeOK', StopSender
  PROVE  SenderInv'
<1>1. /\ UNCHANGED <<saved, missed>>
      /\ \A m \in Messages : \/ sends'[m] = sends[m]
                             \/ /\ sends[m].stage # "new"
                                /\ sends'[m] = [sends[m] EXCEPT !.stage = "failed"]
  BY DEF StopSender
<1>2. ASSUME NEW m \in Messages
      PROVE  sends'[m].files = sends[m].files /\ Upload(sends[m])'
  <2>1. sends[m] \in Send /\ Upload(sends[m])
    BY DEF SenderInv, TypeOK
  <2>2. CASE sends'[m] = sends[m]
    BY <1>1, <2>1, <2>2 DEF Upload, Parts, Preparing, Uploading, Posting
  <2>3. CASE sends[m].stage # "new"
               /\ sends'[m] = [sends[m] EXCEPT !.stage = "failed"]
    BY <1>1, <2>1, <2>3 DEF Upload, Parts, Preparing, Uploading, Posting, Send
  <2>. QED
    BY <1>1, <2>2, <2>3
<1>. QED
  BY <1>1, <1>2 DEF SenderInv, Disjoint, SavedAreSent

-----------------------------------------------------------------------------
(* Types *)

LEMMA SetSendType ==
  ASSUME sends \in [Messages -> Send], NEW m \in Messages, NEW s \in Send, SetSend(m, s)
  PROVE  sends' \in [Messages -> Send]
BY DEF SetSend

(* What a step of the sender may change, and to what                       *)
SenderTypes ==
  /\ {recording, finishing} \subseteq BOOLEAN
  /\ {source, read, object} \subseteq [Files -> Forms]
  /\ sends \in [Messages -> Send]
  /\ saved \subseteq Files /\ missed \subseteq Files /\ torn \subseteq Files
  /\ left \in [Limits -> Nat]

LEMMA SenderTypesOnly ==
  ASSUME TypeOK, SenderTypes', UNCHANGED <<secret, cache, scenario>>
  PROVE  TypeOK'
BY DEF TypeOK, SenderTypes, secret, cache

LEMMA RecordingTypes ==
  ASSUME SenderInv, StartRecording \/ CancelRecording \/ RecorderFinishes \/ StopSender
  PROVE  TypeOK'
<1>0. TypeOK
  BY DEF SenderInv
<1>1. CASE StartRecording \/ CancelRecording \/ RecorderFinishes
  <2>1. source' \in [Files -> Forms] /\ {recording', finishing'} \subseteq BOOLEAN
    BY <1>0, <1>1 DEF StartRecording, CancelRecording, RecorderFinishes, TypeOK, Forms
  <2>2. left' \in [Limits -> Nat]
    <3>1. left' = left \/ Spend("faults")
      BY <1>1 DEF StartRecording, CancelRecording, RecorderFinishes, Free
    <3>. QED
      BY <1>0, <3>1, SpendType DEF TypeOK, Limits
  <2>3. UNCHANGED <<read, object, sends, saved, missed, torn, secret, cache, scenario>>
    BY <1>1 DEF StartRecording, CancelRecording, RecorderFinishes
  <2>. QED
    BY <1>0, <2>1, <2>2, <2>3, SenderTypesOnly DEF TypeOK, SenderTypes
<1>2. CASE StopSender
  <2>1. ASSUME NEW m \in Messages PROVE [sends[m] EXCEPT !.stage = "failed"] \in Send
    BY <1>0 DEF TypeOK, Send
  <2>2. sends' \in [Messages -> Send]
    BY <1>0, <1>2, <2>1 DEF StopSender, TypeOK
  <2>. QED
    BY <1>0, <1>2, <2>2, SpendType, SenderTypesOnly
      DEF StopSender, TypeOK, SenderTypes, Limits
<1>. QED
  BY <1>1, <1>2

LEMMA NewMessageTypes ==
  ASSUME TypeOK, NEW m \in Messages, NEW fs \in SUBSET Files,
         \/ \E f \in fs : UploadFile(m, f)
         \/ SendSecretMessage(m, fs)
  PROVE  sends' \in [Messages -> Send] /\ read' \in [Files -> Forms] /\ torn' \subseteq Files
<1>1. CASE SendSecretMessage(m, fs)
  <2>1. [NoSend EXCEPT !.kind = "secret", !.files = fs, !.stage = "encrypting"] \in Send
    BY DEF NoSend, Send
  <2>. QED
    BY <1>1, <2>1, SetSendType DEF SendSecretMessage, TypeOK
<1>2. ASSUME NEW f \in fs, UploadFile(m, f)
      PROVE  sends' \in [Messages -> Send] /\ read' \in [Files -> Forms] /\ torn' \subseteq Files
  <2>1. [NoSend EXCEPT !.files = {f}, !.stage =
           IF source[f] = "none" THEN "failed" ELSE "links"] \in Send
    BY DEF NoSend, Send
  <2>2. read' \in [Files -> Forms] /\ torn' \subseteq Files
    BY <1>2, TearType DEF UploadFile, TypeOK
  <2>. QED
    BY <1>2, <2>1, <2>2, SetSendType DEF UploadFile, TypeOK
<1>. QED
  BY <1>1, <1>2

LEMMA ChooseTypes ==
  ASSUME TypeOK, NEW m \in Messages,
         StopRecordingAndSend(m) \/ \E fs \in SUBSET Files : Choose(m, fs)
  PROVE  TypeOK'
<1>1. ASSUME NEW fs \in SUBSET Files, Choose(m, fs) PROVE TypeOK'
  <2>1. sends' \in [Messages -> Send] /\ read' \in [Files -> Forms] /\ torn' \subseteq Files
    BY <1>1, NewMessageTypes DEF Choose
  <2>. QED
    BY <1>1, <2>1, SenderTypesOnly DEF Choose, TypeOK, SenderTypes
<1>2. CASE StopRecordingAndSend(m)
  <2>1. sends' \in [Messages -> Send] /\ read' \in [Files -> Forms] /\ torn' \subseteq Files
    <3>1. {Clip} \in SUBSET Files
      BY FilesAssumption
    <3>. QED
      BY <1>2, <3>1, NewMessageTypes DEF StopRecordingAndSend
  <2>. QED
    BY <1>2, <2>1, SenderTypesOnly DEF StopRecordingAndSend, TypeOK, SenderTypes
<1>. QED
  BY <1>1, <1>2

LEMMA OrdinaryTypes ==
  ASSUME TypeOK, NEW m \in Messages, OrdinaryFails(m) \/ OrdinaryAnswered(m)
  PROVE  TypeOK'
<1>0. sends[m] \in Send
  BY DEF TypeOK
<1>1. CASE OrdinaryFails(m)
  <2>1. [sends[m] EXCEPT !.stage = "failed"] \in Send
    BY <1>0 DEF Send
  <2>. QED
    BY <1>1, <2>1, SetSendType, SpendType, SenderTypesOnly
      DEF OrdinaryFails, TypeOK, SenderTypes, Limits
<1>2. CASE OrdinaryAnswered(m)
  <2>1. NextStage(sends[m].stage) \in {"put", "post", "sent"}
    BY <1>2 DEF OrdinaryAnswered, NextStage
  <2>2. [sends[m] EXCEPT !.stage = NextStage(@), !.payload =
           IF sends[m].stage = "post" THEN sends[m].files ELSE {}] \in Send
    BY <1>0, <2>1 DEF Send
  <2>3. object' \in [Files -> Forms]
    BY <1>2 DEF OrdinaryAnswered, TypeOK
  <2>4. sends' \in [Messages -> Send]
    BY <1>2, <2>2, SetSendType DEF OrdinaryAnswered, TypeOK
  <2>. QED
    BY <1>2, <2>3, <2>4, SenderTypesOnly DEF OrdinaryAnswered, TypeOK, SenderTypes
<1>. QED
  BY <1>1, <1>2

LEMMA EncryptTypes ==
  ASSUME TypeOK, NEW m \in Messages, NEW f \in Files, EncryptFile(m, f)
  PROVE  TypeOK'
<1>1. [sends[m] EXCEPT !.jobs = @ \cup {f}] \in Send
  BY DEF TypeOK, Send
<1>2. CASE \E form \in Forms : /\ Written(source[f], form, Encrypted)
                               /\ read' = [read EXCEPT ![f] = form]
                               /\ Tear(f, form)
  <2>1. /\ left' \in [Limits -> Nat] /\ read' \in [Files -> Forms]
        /\ torn' \subseteq Files
    BY <1>2, WrittenType, TearType DEF TypeOK
  <2>2. sends' \in [Messages -> Send] /\ missed' \subseteq Files
    BY <1>1, SetSendType DEF EncryptFile, TypeOK
  <2>. QED
    BY <2>1, <2>2, SenderTypesOnly DEF EncryptFile, TypeOK, SenderTypes
<1>3. CASE /\ IF source[f] = "none" THEN Free ELSE Spend("faults")
           /\ missed' = missed \cup {f} /\ UNCHANGED <<read, sends, torn>>
  <2>1. left' \in [Limits -> Nat]
    BY <1>3, SpendType DEF Free, TypeOK, Limits
  <2>. QED
    BY <1>3, <2>1, SenderTypesOnly DEF EncryptFile, TypeOK, SenderTypes
<1>. QED
  BY <1>2, <1>3 DEF EncryptFile

LEMMA LinksTypes ==
  ASSUME SenderInv, NEW m \in Messages,
         EncryptionEnds(m) \/ LinksFail(m) \/ LinksAnswered(m)
  PROVE  TypeOK'
<1>0. TypeOK /\ sends[m] \in Send
  BY DEF SenderInv, TypeOK
<1>1. CASE EncryptionEnds(m)
  <2>1. [sends[m] EXCEPT !.stage = IF sends[m].jobs = {} THEN "post" ELSE "links"] \in Send
    BY <1>0 DEF Send
  <2>. QED
    BY <1>0, <1>1, <2>1, SetSendType, SenderTypesOnly
      DEF EncryptionEnds, TypeOK, SenderTypes
<1>2. CASE LinksFail(m)
  <2>1. [sends[m] EXCEPT !.stage = "post"] \in Send /\ sends[m].jobs \subseteq Files
    BY <1>0 DEF Send
  <2>. QED
    BY <1>0, <1>2, <2>1, SetSendType, SpendType, SenderTypesOnly
      DEF LinksFail, TypeOK, SenderTypes, Limits
<1>3. CASE LinksAnswered(m)
  <2>1. PICK unsaved \in SUBSET sends[m].jobs :
          /\ Cardinality(unsaved) <= left.faults
          /\ left' = [left EXCEPT !.faults = @ - Cardinality(unsaved)]
          /\ saved' = saved \cup (sends[m].jobs \ unsaved)
          /\ SetSend(m, [sends[m] EXCEPT !.stage = "put",
                            !.putting = sends[m].jobs \ unsaved,
                            !.pending = Cardinality(sends[m].jobs)])
    BY <1>3 DEF LinksAnswered
  <2>2. sends[m].jobs \in SUBSET Files
    BY <1>0 DEF Send
  <2>3. IsFiniteSet(sends[m].jobs) /\ IsFiniteSet(unsaved)
    BY <2>2, FilesAssumption, FS_Subset
  <2>4. Cardinality(sends[m].jobs) \in Nat /\ Cardinality(unsaved) \in Nat
    BY <2>3, FS_CardinalityType
  <2>5. [sends[m] EXCEPT !.stage = "put", !.putting = sends[m].jobs \ unsaved,
           !.pending = Cardinality(sends[m].jobs)] \in Send
    BY <1>0, <2>2, <2>4 DEF Send
  <2>6. sends' \in [Messages -> Send] /\ saved' \subseteq Files
    BY <1>0, <2>1, <2>2, <2>5, SetSendType DEF TypeOK
  <2>7. left' \in [Limits -> Nat]
    BY <1>0, <2>1, <2>4 DEF TypeOK, Limits
  <2>. QED
    BY <1>0, <1>3, <2>6, <2>7, SenderTypesOnly DEF LinksAnswered, TypeOK, SenderTypes
<1>. QED
  BY <1>1, <1>2, <1>3

LEMMA PutTypes ==
  ASSUME SenderInv, NEW m \in Messages, NEW f \in Files, PutEnds(m, f)
  PROVE  TypeOK'
<1>0. /\ TypeOK /\ sends[m] \in Send /\ Upload(sends[m])
      /\ f \in sends[m].putting /\ sends[m].stage = "put"
  BY DEF SenderInv, TypeOK, PutEnds
<1>1. sends[m].pending # 0
  BY <1>0 DEF Upload, Uploading, Parts, Send
<1>2. ASSUME NEW done \in BOOLEAN PROVE AfterPut(sends[m], f, done) \in Send
  <2>1. sends[m].pending - 1 \in Nat
    BY <1>0, <1>1 DEF Send
  <2>. QED
    BY <1>0, <2>1 DEF AfterPut, Send
<1>3. sends' \in [Messages -> Send] /\ missed' \subseteq Files /\ object' \in [Files -> Forms]
  BY <1>0, <1>2, SetSendType DEF PutEnds, TypeOK
<1>4. left' \in [Limits -> Nat]
  BY <1>0, SpendType DEF PutEnds, Free, TypeOK, Limits
<1>. QED
  BY <1>0, <1>3, <1>4, SenderTypesOnly DEF PutEnds, TypeOK, SenderTypes

LEMMA PostTypes ==
  ASSUME TypeOK, NEW m \in Messages, PostEnds(m)
  PROVE  TypeOK'
<1>1. ASSUME NEW next \in {"sent", "failed"}
      PROVE  [sends[m] EXCEPT !.stage = next] \in Send
  BY DEF TypeOK, Send
<1>2. sends' \in [Messages -> Send] /\ saved' \subseteq Files
  BY <1>1, SetSendType DEF PostEnds, TypeOK
<1>3. left' \in [Limits -> Nat]
  BY SpendType DEF PostEnds, Free, TypeOK, Limits
<1>. QED
  BY <1>2, <1>3, SenderTypesOnly DEF PostEnds, TypeOK, SenderTypes

(* What a step of the receiver may change                                  *)
ReceiverTypes ==
  /\ {disk, temp, media} \subseteq [Files -> Forms]
  /\ rows \subseteq Files /\ path \subseteq Files /\ active \subseteq Files
  /\ mediaActive \subseteq Files /\ fetching \subseteq Files /\ served \subseteq Files
  /\ torn \subseteq Files
  /\ stage \in [Files -> {"idle", "url", "get", "decrypt"}]
  /\ left \in [Limits -> Nat]

LEMMA ReceiverTypesOnly ==
  ASSUME TypeOK, ReceiverTypes', UNCHANGED <<sender, scenario>>
  PROVE  TypeOK'
BY DEF TypeOK, ReceiverTypes, sender

LEMMA ReceiveTypes ==
  ASSUME TypeOK, NEW m \in Messages, Receive(m)
  PROVE  TypeOK'
<1>1. /\ [sends[m] EXCEPT !.stage = "received"] \in Send
      /\ sends[m].payload \subseteq Files
  BY DEF TypeOK, Send
<1>2. sends' \in [Messages -> Send]
  BY <1>1, SetSendType DEF Receive, TypeOK
<1>3. rows' \subseteq Files
  BY <1>1 DEF Receive, TypeOK
<1>4. left' \in [Limits -> Nat]
  BY SpendType DEF Receive, Free, TypeOK, Limits
<1>. QED
  BY <1>2, <1>3, <1>4 DEF Receive, TypeOK, cache

LEMMA DownloadTypes ==
  ASSUME TypeOK, NEW f \in Files,
         \/ DownloadSecretAttachment(f) \/ FetchSecretChatHistory
         \/ UrlAnswered(f) \/ UrlFails(f) \/ OpenFails(f) \/ GetFails(f)
  PROVE  TypeOK'
<1>1. ASSUME NEW fs \in SUBSET Files, Download(fs) PROVE TypeOK'
  BY <1>1, ReceiverTypesOnly DEF Download, TypeOK, ReceiverTypes, cache
<1>2. CASE UrlAnswered(f)
  <2>1. temp' \in [Files -> Forms] /\ stage' \in [Files -> {"idle", "url", "get", "decrypt"}]
    BY <1>2 DEF UrlAnswered, TypeOK, Forms
  <2>. QED
    BY <1>2, <2>1, ReceiverTypesOnly DEF UrlAnswered, TypeOK, ReceiverTypes, cache
<1>3. CASE UrlFails(f) \/ OpenFails(f) \/ GetFails(f)
  <2>1. /\ temp' \in [Files -> Forms] /\ active' \subseteq Files
        /\ stage' \in [Files -> {"idle", "url", "get", "decrypt"}]
    BY <1>3 DEF UrlFails, OpenFails, GetFails, Leave, TypeOK, Forms
  <2>. QED
    BY <1>3, <2>1, SpendType, ReceiverTypesOnly
      DEF UrlFails, OpenFails, GetFails, TypeOK, ReceiverTypes, cache, Limits
<1>4. Missing \in SUBSET Files
  BY DEF Missing, TypeOK
<1>. QED
  BY <1>1, <1>2, <1>3, <1>4 DEF DownloadSecretAttachment, FetchSecretChatHistory

LEMMA FileTypes ==
  ASSUME TypeOK, NEW f \in Files, GetAnswered(f) \/ DecryptEnds(f)
  PROVE  TypeOK'
<1>1. CASE GetAnswered(f)
  <2>1. /\ temp' \in [Files -> Forms] /\ torn' \subseteq Files
        /\ left' \in [Limits -> Nat]
        /\ stage' \in [Files -> {"idle", "url", "get", "decrypt"}]
    BY <1>1, WrittenType, TearType DEF GetAnswered, TypeOK
  <2>. QED
    BY <1>1, <2>1, ReceiverTypesOnly DEF GetAnswered, TypeOK, ReceiverTypes, cache
<1>2. CASE DecryptEnds(f)
  <2>1. /\ temp' \in [Files -> Forms] /\ active' \subseteq Files /\ path' \subseteq Files
        /\ stage' \in [Files -> {"idle", "url", "get", "decrypt"}]
    BY <1>2 DEF DecryptEnds, Leave, TypeOK, Forms
  <2>2. disk' \in [Files -> Forms]
    BY <1>2 DEF DecryptEnds, Decrypted, TypeOK, Forms
  <2>3. torn' \subseteq Files
    BY <1>2, TearType DEF DecryptEnds, TypeOK
  <2>4. left' \in [Limits -> Nat]
    BY <1>2, WrittenType, SpendType DEF DecryptEnds, Free, TypeOK, Limits
  <2>. QED
    BY <1>2, <2>1, <2>2, <2>3, <2>4, ReceiverTypesOnly
      DEF DecryptEnds, TypeOK, ReceiverTypes, cache
<1>. QED
  BY <1>1, <1>2

LEMMA CacheTypes ==
  ASSUME TypeOK, NEW f \in Files, GetOrPut(f) \/ OnFinished(f) \/ StopReceiver
  PROVE  TypeOK'
<1>1. CASE GetOrPut(f)
  <2>1. media' \in [Files -> Forms]
    BY <1>1 DEF GetOrPut, TypeOK, Forms
  <2>. QED
    BY <1>1, <2>1, ReceiverTypesOnly DEF GetOrPut, TypeOK, ReceiverTypes, secret
<1>2. CASE OnFinished(f)
  <2>1. /\ media' \in [Files -> Forms] /\ torn' \subseteq Files
        /\ left' \in [Limits -> Nat]
    BY <1>2, WrittenType, TearType, SpendType DEF OnFinished, TypeOK, Limits
  <2>. QED
    BY <1>2, <2>1, ReceiverTypesOnly DEF OnFinished, TypeOK, ReceiverTypes, secret
<1>3. CASE StopReceiver
  <2>1. PICK part \in SUBSET Files, half \in SUBSET Files :
          /\ disk' = [g \in Files |-> IF g \in part THEN "part" ELSE disk[g]]
          /\ media' = [g \in Files |-> IF g \in half THEN "part" ELSE media[g]]
          /\ torn' = torn \cup part \cup half
    BY <1>3 DEF StopReceiver, TypeOK
  <2>2. {disk', media'} \subseteq [Files -> Forms] /\ torn' \subseteq Files
    BY <2>1 DEF TypeOK, Forms
  <2>3. left' \in [Limits -> Nat]
    BY <1>3, SpendType DEF StopReceiver, TypeOK, Limits
  <2>. QED
    BY <1>3, <2>2, <2>3, ReceiverTypesOnly DEF StopReceiver, TypeOK, ReceiverTypes
<1>. QED
  BY <1>1, <1>2, <1>3

LEMMA NextTypes ==
  ASSUME SenderInv, [Next]_vars
  PROVE  TypeOK'
<1>0. TypeOK
  BY DEF SenderInv
<1>1. ASSUME NEW m \in Messages, NEW f \in Files, EncryptFile(m, f) \/ PutEnds(m, f)
      PROVE  TypeOK'
  BY <1>0, <1>1, EncryptTypes, PutTypes
<1>2. CASE UNCHANGED vars
  BY <1>0, <1>2 DEF TypeOK, vars, sender, secret, cache
<1>3. ASSUME FetchSecretChatHistory \/ StopReceiver PROVE TypeOK'
  BY <1>0, <1>3, DownloadTypes, CacheTypes, FilesAssumption
<1>4. ASSUME NEW m \in Messages,
             StopRecordingAndSend(m) \/ \E fs \in SUBSET Files : Choose(m, fs)
      PROVE  TypeOK'
  BY <1>0, <1>4, ChooseTypes
<1>. QED
  BY <1>0, <1>1, <1>2, <1>3, <1>4, RecordingTypes, OrdinaryTypes, LinksTypes,
    PostTypes, ReceiveTypes, DownloadTypes, FileTypes, CacheTypes DEF Next, Callback

(* The voice that is being recorded belongs to no message yet               *)
ClipIsNew == recording => Clip \in Unsent

LEMMA SameFilesClip ==
  ASSUME ClipIsNew, recording' => recording,
         \A m \in Messages : Clip \in sends'[m].files => Clip \in sends[m].files
  PROVE  ClipIsNew'
BY FilesAssumption DEF ClipIsNew, Unsent

LEMMA NextClip ==
  ASSUME TypeOK, ClipIsNew, [Next]_vars
  PROVE  ClipIsNew'
<1>0. sends \in [Messages -> Send]
  BY DEF TypeOK
<1>1. CASE StartRecording
  BY <1>1, <1>0 DEF StartRecording, ClipIsNew, Unsent
<1>2. CASE CancelRecording \/ StopSender
           \/ \E m \in Messages : StopRecordingAndSend(m)
  BY <1>2 DEF CancelRecording, StopSender, StopRecordingAndSend, ClipIsNew
<1>3. ASSUME NEW m \in Messages, NEW fs \in SUBSET Files, Choose(m, fs)
      PROVE  ClipIsNew'
  <2>1. UNCHANGED recording /\ Clip \notin fs
    BY <1>3 DEF Choose
  <2>2. \A n \in Messages : Clip \in sends'[n].files => Clip \in sends[n].files
    <3>1. ASSUME NEW s, s.files \subseteq fs, SetSend(m, s)
          PROVE  \A n \in Messages : Clip \in sends'[n].files => Clip \in sends[n].files
      BY <1>0, <2>1, <3>1 DEF SetSend
    <3>2. ASSUME NEW f \in fs, UploadFile(m, f)
          PROVE  \E s : s.files \subseteq fs /\ SetSend(m, s)
      <4>. DEFINE s == [NoSend EXCEPT !.files = {f},
                          !.stage = IF source[f] = "none" THEN "failed" ELSE "links"]
      <4>1. s.files \subseteq fs /\ SetSend(m, s)
        BY <3>2 DEF UploadFile, NoSend
      <4>. QED
        BY <4>1
    <3>3. ASSUME SendSecretMessage(m, fs)
          PROVE  \E s : s.files \subseteq fs /\ SetSend(m, s)
      <4>. DEFINE s == [NoSend EXCEPT !.kind = "secret", !.files = fs,
                          !.stage = "encrypting"]
      <4>1. s.files \subseteq fs /\ SetSend(m, s)
        BY <3>3 DEF SendSecretMessage, NoSend
      <4>. QED
        BY <4>1
    <3>. QED
      BY <1>3, <3>1, <3>2, <3>3 DEF Choose
  <2>. QED
    BY <2>1, <2>2, SameFilesClip
<1>4. ASSUME NEW m \in Messages, NEW s, s.files = sends[m].files, SetSend(m, s),
             UNCHANGED recording
      PROVE  ClipIsNew'
  BY <1>0, <1>4, SameFilesClip DEF SetSend
<1>5. ASSUME NEW m \in Messages, OrdinaryFails(m) PROVE ClipIsNew'
  BY <1>0, <1>4, <1>5 DEF OrdinaryFails, Send
<1>6. ASSUME NEW m \in Messages, OrdinaryAnswered(m) PROVE ClipIsNew'
  BY <1>0, <1>4, <1>6 DEF OrdinaryAnswered, Send
<1>7. ASSUME NEW m \in Messages, NEW f \in Files, EncryptFile(m, f) PROVE ClipIsNew'
  BY <1>0, <1>4, <1>7, SameFilesClip DEF EncryptFile, Send
<1>8. ASSUME NEW m \in Messages, EncryptionEnds(m) PROVE ClipIsNew'
  BY <1>0, <1>4, <1>8 DEF EncryptionEnds, Send
<1>9. ASSUME NEW m \in Messages, LinksFail(m) PROVE ClipIsNew'
  BY <1>0, <1>4, <1>9 DEF LinksFail, Send
<1>10. ASSUME NEW m \in Messages, LinksAnswered(m) PROVE ClipIsNew'
  BY <1>0, <1>4, <1>10 DEF LinksAnswered, Send
<1>11. ASSUME NEW m \in Messages, NEW f \in Files, PutEnds(m, f) PROVE ClipIsNew'
  BY <1>0, <1>4, <1>11 DEF PutEnds, AfterPut, Send
<1>12. ASSUME NEW m \in Messages, PostEnds(m) PROVE ClipIsNew'
  BY <1>0, <1>4, <1>12 DEF PostEnds, Send
<1>13. ASSUME NEW m \in Messages, Receive(m) PROVE ClipIsNew'
  BY <1>0, <1>4, <1>13 DEF Receive, Send
<1>14. CASE UNCHANGED <<recording, sends>>
  BY <1>14, SameFilesClip
<1>15. ASSUME NEW f \in Files,
             \/ DownloadSecretAttachment(f) \/ UrlAnswered(f) \/ GetAnswered(f)
             \/ UrlFails(f) \/ OpenFails(f) \/ GetFails(f) \/ DecryptEnds(f)
             \/ GetOrPut(f) \/ OnFinished(f)
      PROVE  UNCHANGED <<recording, sends>>
  BY <1>15 DEF DownloadSecretAttachment, Download, UrlAnswered, GetAnswered,
    UrlFails, OpenFails, GetFails, DecryptEnds, GetOrPut, OnFinished, sender
<1>16. CASE RecorderFinishes \/ FetchSecretChatHistory \/ StopReceiver \/ UNCHANGED vars
  BY <1>14, <1>16 DEF RecorderFinishes, FetchSecretChatHistory, Download,
    StopReceiver, vars, sender
<1>. QED
  BY <1>1, <1>2, <1>3, <1>5, <1>6, <1>7, <1>8, <1>9, <1>10, <1>11, <1>12, <1>13,
    <1>14, <1>15, <1>16 DEF Next, Callback

LEMMA NextSender ==
  ASSUME SenderInv, ClipIsNew, [Next]_vars
  PROVE  SenderInv'
<1>0. TypeOK'
  BY NextTypes
<1>1. ASSUME NEW m \in Messages,
             StopRecordingAndSend(m) \/ \E fs \in SUBSET Files : Choose(m, fs)
      PROVE  SenderInv'
  <2>1. CASE StopRecordingAndSend(m)
    <3>1. Clip \in Unsent
      BY <2>1 DEF StopRecordingAndSend, ClipIsNew
    <3>2. UNCHANGED <<saved, missed>>
      BY <2>1 DEF StopRecordingAndSend
    <3>3. UploadFile(m, Clip) \/ SendSecretMessage(m, {Clip})
      BY <2>1 DEF StopRecordingAndSend
    <3>. QED
      BY <1>0, <3>1, <3>2, <3>3, UploadFileInv, SendSecretInv
  <2>2. ASSUME NEW fs \in SUBSET Files, Choose(m, fs) PROVE SenderInv'
    <3>1. fs \in SUBSET Unsent /\ UNCHANGED <<saved, missed>>
      BY <2>2 DEF Choose
    <3>2. SendSecretMessage(m, fs) \/ \E f \in fs : UploadFile(m, f)
      BY <2>2 DEF Choose
    <3>. QED
      BY <1>0, <3>1, <3>2, UploadFileInv, SendSecretInv
  <2>. QED
    BY <1>1, <2>1, <2>2
<1>2. ASSUME NEW m \in Messages, NEW f \in Files, EncryptFile(m, f) \/ PutEnds(m, f)
      PROVE  SenderInv'
  BY <1>0, <1>2, EncryptInv, PutEndsInv
<1>3. ASSUME NEW m \in Messages,
             \/ OrdinaryAnswered(m) \/ OrdinaryFails(m) \/ EncryptionEnds(m)
             \/ LinksAnswered(m) \/ LinksFail(m) \/ PostEnds(m) \/ Receive(m)
      PROVE  SenderInv'
  BY <1>0, <1>3, OrdinaryInv, EncryptionEndsInv, LinksAnsweredInv, LinksFailInv,
    PostEndsInv, ReceiveInv
<1>4. ASSUME NEW f \in Files,
             \/ DownloadSecretAttachment(f) \/ UrlAnswered(f) \/ GetAnswered(f)
             \/ UrlFails(f) \/ OpenFails(f) \/ GetFails(f) \/ DecryptEnds(f)
             \/ GetOrPut(f) \/ OnFinished(f)
      PROVE  UNCHANGED <<sends, saved, missed>>
  BY <1>4 DEF DownloadSecretAttachment, Download, UrlAnswered, GetAnswered,
    UrlFails, OpenFails, GetFails, DecryptEnds, GetOrPut, OnFinished, sender
<1>5. CASE \/ StartRecording \/ CancelRecording \/ RecorderFinishes
           \/ FetchSecretChatHistory \/ StopReceiver \/ UNCHANGED vars
  <2>1. UNCHANGED <<sends, saved, missed>>
    BY <1>5 DEF StartRecording, CancelRecording, RecorderFinishes,
      FetchSecretChatHistory, Download, StopReceiver, vars, sender
  <2>. QED
    BY <1>0, <2>1, SameUploads
<1>. QED
  BY <1>0, <1>1, <1>2, <1>3, <1>4, <1>5, StopSenderInv, SameUploads
    DEF Next, Callback

LEMMA SenderInvariant == Spec => []SenderInv
<1>1. Init => ClipIsNew
  BY DEF Init, ClipIsNew
<1>2. SenderInv => TypeOK
  BY DEF SenderInv
<1>. QED
  BY <1>1, <1>2, InitSender, NextSender, NextClip, PTL DEF Spec

-----------------------------------------------------------------------------
(***************************************************************************)
(* The strengthening for what files hold: along the whole way, whatever is *)
(* not whole is torn, or nobody takes it for the file.                     *)
(***************************************************************************)
Bad == {"empty", "part", "cut", "short"}

OrdinaryFiles == UNION {sends[m].files : m \in {n \in Messages : sends[n].kind = "ordinary"}}

SentForm(f) ==
  /\ source[f] \notin Encrypted
  /\ read[f] \in Bad => f \in torn
  /\ object[f] \in Bad => f \in torn
  /\ f \in Unsent => read[f] = "none" /\ object[f] = "none"
  /\ f \in OrdinaryFiles => read[f] \notin Encrypted /\ object[f] \notin Encrypted

ReceivedForm(f) ==
  /\ stage[f] = "decrypt" /\ temp[f] \in Bad => f \in torn
  /\ f \in active => disk[f] = "none"
  /\ disk[f] \in {"none", "whole"} \/ f \in torn
  /\ f \in path => disk[f] = "whole" \/ f \in torn
  /\ f \in fetching => media[f] = "empty" /\ f \in OrdinaryFiles
  /\ media[f] \in {"none", "empty", "whole"} \/ f \in torn
  /\ f \in served => media[f] = "whole" \/ f \in torn

FormsInv == \A f \in Files : SentForm(f) /\ ReceivedForm(f)

LEMMA InitForms == Init => FormsInv
<1>1. Init => OrdinaryFiles = {}
  BY DEF Init, OrdinaryFiles, NoSend
<1>. QED
  BY <1>1 DEF Init, FormsInv, SentForm, ReceivedForm, Encrypted, Bad

(* Which files are sent, and how, changes only when a message is made      *)
LEMMA SameOwners ==
  ASSUME NEW m \in Messages, sends \in [Messages -> Send], NEW s,
         s.files = sends[m].files, s.kind = sends[m].kind,
         sends' = [sends EXCEPT ![m] = s]
  PROVE  Unsent' = Unsent /\ OrdinaryFiles' = OrdinaryFiles
<1>1. \A n \in Messages : /\ sends'[n].files = sends[n].files
                          /\ sends'[n].kind = sends[n].kind
  OBVIOUS
<1>. QED
  BY <1>1 DEF Unsent, OrdinaryFiles

LEMMA SameForms ==
  ASSUME FormsInv, Unsent' = Unsent, OrdinaryFiles' = OrdinaryFiles,
         UNCHANGED <<source, read, object, torn, secret, cache>>
  PROVE  FormsInv'
BY DEF FormsInv, SentForm, ReceivedForm, secret, cache

(* A step that changes the forms of files sent, and tears what it damages  *)
LEMMA SentOnly ==
  ASSUME FormsInv, torn \subseteq torn', OrdinaryFiles \subseteq OrdinaryFiles',
         UNCHANGED <<secret, cache>>,
         \A f \in Files : SentForm(f)'
  PROVE  FormsInv'
BY DEF FormsInv, ReceivedForm, secret, cache

LEMMA ReceivedOnly ==
  ASSUME FormsInv, torn \subseteq torn', UNCHANGED <<source, read, object, sends>>,
         \A f \in Files : ReceivedForm(f)'
  PROVE  FormsInv'
BY DEF FormsInv, SentForm, Unsent, OrdinaryFiles

-----------------------------------------------------------------------------
LEMMA RecordingForms ==
  ASSUME TypeOK, FormsInv, StartRecording \/ CancelRecording \/ RecorderFinishes
  PROVE  FormsInv'
<1>1. /\ UNCHANGED <<read, object, torn, sends, secret, cache>>
      /\ \A f \in Files : source'[f] \in {source[f], "part", "none", "whole"}
  BY DEF StartRecording, CancelRecording, RecorderFinishes, TypeOK
<1>2. \A f \in Files : SentForm(f)'
  BY <1>1 DEF FormsInv, SentForm, Encrypted, Unsent, OrdinaryFiles
<1>3. OrdinaryFiles' = OrdinaryFiles
  BY <1>1 DEF OrdinaryFiles
<1>. QED
  BY <1>1, <1>2, <1>3, SentOnly

LEMMA UploadFileForms ==
  ASSUME SenderInv, FormsInv, NEW m \in Messages, NEW f \in Unsent, UploadFile(m, f),
         UNCHANGED <<source, object, secret, cache>>
  PROVE  FormsInv'
<1>0. /\ sends \in [Messages -> Send] /\ read \in [Files -> Forms] /\ f \in Files
      /\ sends[m].files = {}
  BY DEF SenderInv, TypeOK, UploadFile, Upload, Parts, NoSend, Unsent
<1>1. PICK s : /\ s.files = {f} /\ s.kind = "ordinary" /\ sends' = [sends EXCEPT ![m] = s]
  <2>. DEFINE s == [NoSend EXCEPT !.files = {f},
                      !.stage = IF source[f] = "none" THEN "failed" ELSE "links"]
  <2>1. s.files = {f} /\ s.kind = "ordinary" /\ SetSend(m, s)
    BY DEF UploadFile, NoSend
  <2>. QED
    BY <2>1 DEF SetSend
<1>2. /\ Unsent' \subseteq Unsent \ {f}
      /\ OrdinaryFiles \subseteq OrdinaryFiles'
      /\ OrdinaryFiles' \subseteq OrdinaryFiles \cup {f}
  BY <1>0, <1>1 DEF Unsent, OrdinaryFiles
<1>3. /\ read' = [read EXCEPT ![f] = source[f]] /\ torn \subseteq torn'
      /\ source[f] \in Bad => f \in torn'
  BY DEF UploadFile, Tear, Bad
<1>4. ASSUME NEW g \in Files PROVE SentForm(g)'
  <2>1. SentForm(g) /\ source[g] \notin Encrypted /\ f \in Unsent /\ SentForm(f)
    BY <1>0, <1>4 DEF FormsInv, SentForm
  <2>2. CASE g = f
    BY <1>0, <1>2, <1>3, <2>1, <2>2 DEF SentForm, Bad, Encrypted
  <2>3. CASE g # f
    BY <1>0, <1>2, <1>3, <2>1, <2>3 DEF SentForm
  <2>. QED
    BY <2>2, <2>3
<1>. QED
  BY <1>2, <1>3, <1>4, SentOnly

LEMMA SendSecretForms ==
  ASSUME SenderInv, FormsInv, NEW m \in Messages, NEW fs \in SUBSET Unsent,
         SendSecretMessage(m, fs), UNCHANGED <<source, object, secret, cache>>
  PROVE  FormsInv'
<1>0. /\ sends \in [Messages -> Send] /\ sends[m].files = {}
  BY DEF SenderInv, TypeOK, SendSecretMessage, Upload, Parts, NoSend
<1>1. PICK s : s.files = fs /\ s.kind = "secret" /\ sends' = [sends EXCEPT ![m] = s]
  <2>. DEFINE s == [NoSend EXCEPT !.kind = "secret", !.files = fs, !.stage = "encrypting"]
  <2>1. s.files = fs /\ s.kind = "secret" /\ SetSend(m, s)
    BY DEF SendSecretMessage, NoSend
  <2>. QED
    BY <2>1 DEF SetSend
<1>2. Unsent' \subseteq Unsent /\ OrdinaryFiles' = OrdinaryFiles
  BY <1>0, <1>1 DEF Unsent, OrdinaryFiles
<1>3. UNCHANGED <<read, torn>>
  BY DEF SendSecretMessage
<1>4. \A g \in Files : SentForm(g)'
  BY <1>2, <1>3 DEF FormsInv, SentForm
<1>. QED
  BY <1>2, <1>3, <1>4, SentOnly

(* Steps of a chain that neither read nor write a file                     *)
LEMMA ChainForms ==
  ASSUME SenderInv, FormsInv, NEW m \in Messages,
         \/ OrdinaryFails(m) \/ EncryptionEnds(m) \/ LinksFail(m) \/ LinksAnswered(m)
         \/ PostEnds(m)
  PROVE  FormsInv'
<1>0. sends \in [Messages -> Send]
  BY DEF SenderInv, TypeOK
<1>1. \E s : /\ s.files = sends[m].files /\ s.kind = sends[m].kind
             /\ sends' = [sends EXCEPT ![m] = s]
  <2>1. CASE OrdinaryFails(m)
    BY <1>0, <2>1 DEF OrdinaryFails, SetSend, Send
  <2>2. CASE EncryptionEnds(m)
    BY <1>0, <2>2 DEF EncryptionEnds, SetSend, Send
  <2>3. CASE LinksFail(m)
    BY <1>0, <2>3 DEF LinksFail, SetSend, Send
  <2>4. CASE LinksAnswered(m)
    BY <1>0, <2>4 DEF LinksAnswered, SetSend, Send
  <2>5. CASE PostEnds(m)
    BY <1>0, <2>5 DEF PostEnds, SetSend, Send
  <2>. QED
    BY <2>1, <2>2, <2>3, <2>4, <2>5
<1>2. UNCHANGED <<source, read, object, torn, secret, cache>>
  BY DEF OrdinaryFails, EncryptionEnds, LinksFail, LinksAnswered, PostEnds
<1>. QED
  BY <1>0, <1>1, <1>2, SameOwners, SameForms

LEMMA OrdinaryForms ==
  ASSUME SenderInv, FormsInv, NEW m \in Messages, OrdinaryAnswered(m)
  PROVE  FormsInv'
<1>0. sends \in [Messages -> Send]
  BY DEF SenderInv, TypeOK
<1>1. PICK s : /\ s.files = sends[m].files /\ s.kind = sends[m].kind
               /\ sends' = [sends EXCEPT ![m] = s]
  BY <1>0 DEF OrdinaryAnswered, SetSend, Send
<1>2. Unsent' = Unsent /\ OrdinaryFiles' = OrdinaryFiles
  BY <1>0, <1>1, SameOwners
<1>3. /\ UNCHANGED <<source, read, torn, secret, cache>>
      /\ object' = [f \in Files |-> IF f \in sends[m].files /\ sends[m].stage = "put"
                                      THEN read[f] ELSE object[f]]
  BY DEF OrdinaryAnswered
<1>4. \A f \in sends[m].files : f \notin Unsent
  BY DEF Unsent
<1>5. ASSUME NEW f \in Files PROVE SentForm(f)'
  BY <1>2, <1>3, <1>4, <1>5 DEF FormsInv, SentForm
<1>. QED
  BY <1>2, <1>3, <1>5, SentOnly

(* The files of a secret message are not those of an ordinary one          *)
LEMMA SecretFiles ==
  ASSUME SenderInv, NEW m \in Messages, sends[m].kind = "secret", NEW f \in sends[m].files
  PROVE  f \notin OrdinaryFiles /\ f \notin Unsent
<1>1. \A n \in Messages : f \in sends[n].files => n = m
  BY DEF SenderInv, Disjoint
<1>. QED
  BY <1>1 DEF OrdinaryFiles, Unsent

LEMMA EncryptForms ==
  ASSUME SenderInv, FormsInv, NEW m \in Messages, NEW f \in Files,
         EncryptFile(m, f) \/ PutEnds(m, f)
  PROVE  FormsInv'
<1>0. /\ sends \in [Messages -> Send] /\ read \in [Files -> Forms]
      /\ object \in [Files -> Forms] /\ Upload(sends[m]) /\ sends[m] \in Send
  BY DEF SenderInv, TypeOK
<1>1. sends[m].kind = "secret" /\ f \in sends[m].files
  BY <1>0 DEF EncryptFile, PutEnds, Upload, Parts, Send
<1>2. Unsent' = Unsent /\ OrdinaryFiles' = OrdinaryFiles
  <2>1. \/ sends' = sends
        \/ \E s : /\ s.files = sends[m].files /\ s.kind = sends[m].kind
                  /\ sends' = [sends EXCEPT ![m] = s]
    BY <1>0 DEF EncryptFile, PutEnds, AfterPut, SetSend, Send
  <2>. QED
    BY <1>0, <2>1, SameOwners DEF Unsent, OrdinaryFiles
<1>3. f \notin OrdinaryFiles /\ f \notin Unsent
  BY <1>1, SecretFiles
<1>4. UNCHANGED <<source, secret, cache>> /\ torn \subseteq torn'
  BY DEF EncryptFile, PutEnds, Tear
<1>5. /\ \/ read' = read
         \/ \E form : read' = [read EXCEPT ![f] = form] /\ (form \in Bad => f \in torn')
      /\ \/ object' = object
         \/ object' = [object EXCEPT ![f] = read[f]]
      /\ read' = read \/ object' = object
  BY DEF EncryptFile, PutEnds, Tear, Bad
<1>6. ASSUME NEW g \in Files PROVE SentForm(g)'
  <2>1. SentForm(g)
    BY DEF FormsInv
  <2>2. CASE g = f
    BY <1>0, <1>2, <1>3, <1>4, <1>5, <2>1, <2>2 DEF SentForm
  <2>3. CASE g # f
    BY <1>0, <1>2, <1>4, <1>5, <2>1, <2>3 DEF SentForm
  <2>. QED
    BY <2>2, <2>3
<1>. QED
  BY <1>2, <1>4, <1>6, SentOnly

LEMMA MessageForms ==
  ASSUME SenderInv, FormsInv, StopSender \/ \E m \in Messages : Receive(m)
  PROVE  FormsInv'
<1>0. sends \in [Messages -> Send]
  BY DEF SenderInv, TypeOK
<1>1. CASE StopSender
  <2>1. \A n \in Messages : /\ sends'[n].files = sends[n].files
                            /\ sends'[n].kind = sends[n].kind
    BY <1>0, <1>1 DEF StopSender, Send
  <2>2. Unsent' = Unsent /\ OrdinaryFiles' = OrdinaryFiles
    BY <2>1 DEF Unsent, OrdinaryFiles
  <2>. QED
    BY <1>1, <2>2, SameForms DEF StopSender
<1>2. ASSUME NEW m \in Messages, Receive(m) PROVE FormsInv'
  <2>1. \E s : /\ s.files = sends[m].files /\ s.kind = sends[m].kind
               /\ sends' = [sends EXCEPT ![m] = s]
    <3>. DEFINE s == [sends[m] EXCEPT !.stage = "received"]
    <3>1. /\ s.files = sends[m].files /\ s.kind = sends[m].kind
          /\ sends' = [sends EXCEPT ![m] = s]
      BY <1>0, <1>2 DEF Receive, SetSend, Send
    <3>. QED
      BY <3>1
  <2>2. Unsent' = Unsent /\ OrdinaryFiles' = OrdinaryFiles
    BY <1>0, <2>1, SameOwners
  <2>3. UNCHANGED <<source, read, object, torn, path, disk, temp, active, stage, cache>>
    BY <1>2 DEF Receive
  <2>. QED
    BY <2>2, <2>3 DEF FormsInv, SentForm, ReceivedForm, cache
<1>. QED
  BY <1>1, <1>2

-----------------------------------------------------------------------------
LEMMA DownloadForms ==
  ASSUME TypeOK, FormsInv, NEW fs \in SUBSET Files, Download(fs)
  PROVE  FormsInv'
<1>1. ASSUME NEW f \in Files PROVE ReceivedForm(f)'
  <2>1. ReceivedForm(f)
    BY DEF FormsInv
  <2>2. /\ UNCHANGED <<disk, temp, cache, torn, sends>>
        /\ f \in path' => f \in path \/ disk[f] # "none"
        /\ f \in active' => f \in active \/ disk[f] = "none"
        /\ stage'[f] = "decrypt" => stage[f] = "decrypt"
    BY DEF Download, TypeOK, sender
  <2>. QED
    BY <2>1, <2>2 DEF ReceivedForm, OrdinaryFiles, cache
<1>. QED
  BY <1>1, ReceivedOnly DEF Download, sender

LEMMA GetForms ==
  ASSUME TypeOK, FormsInv, NEW f \in Files,
         UrlAnswered(f) \/ UrlFails(f) \/ OpenFails(f) \/ GetFails(f) \/ GetAnswered(f)
  PROVE  FormsInv'
<1>1. ASSUME NEW g \in Files PROVE ReceivedForm(g)'
  <2>1. ReceivedForm(g)
    BY DEF FormsInv
  <2>2. /\ UNCHANGED <<disk, path, cache, sends>> /\ torn \subseteq torn'
        /\ active' \subseteq active
        /\ stage'[g] = "decrypt" /\ temp'[g] \in Bad =>
             (stage[g] = "decrypt" /\ temp[g] \in Bad) \/ g \in torn'
    BY DEF UrlAnswered, UrlFails, OpenFails, GetFails, GetAnswered, Leave, Tear, Bad,
      TypeOK, sender
  <2>. QED
    BY <2>1, <2>2 DEF ReceivedForm, OrdinaryFiles, cache
<1>2. torn \subseteq torn' /\ UNCHANGED sender
  BY DEF UrlAnswered, UrlFails, OpenFails, GetFails, GetAnswered, Tear
<1>. QED
  BY <1>1, <1>2, ReceivedOnly DEF sender

LEMMA DecryptForms ==
  ASSUME TypeOK, FormsInv, UnderWay, NEW f \in Files, DecryptEnds(f)
  PROVE  FormsInv'
<1>0. /\ UNCHANGED <<sender, cache>> /\ torn \subseteq torn'
      /\ active' = active \ {f} /\ stage' = [stage EXCEPT ![f] = "idle"]
      /\ temp' = [temp EXCEPT ![f] = "none"] /\ stage[f] = "decrypt"
  BY DEF DecryptEnds, Leave, Tear
<1>1. f \in active /\ ReceivedForm(f)
  BY <1>0 DEF UnderWay, FormsInv
<1>2. \A g \in Files : g # f => disk'[g] = disk[g] /\ (g \in path' => g \in path)
  BY DEF DecryptEnds, TypeOK
<1>3. /\ disk'[f] \in {"none", "whole"} \/ f \in torn'
      /\ f \in path' => disk'[f] = "whole" \/ f \in torn'
  <2>0. temp[f] \in Bad => f \in torn
    BY <1>0, <1>1 DEF ReceivedForm
  <2>00. disk[f] = "none" /\ (f \in path => f \in torn)
    BY <1>1 DEF ReceivedForm
  <2>1. ASSUME temp[f] \in {"whole", "part", "cut"}, NEW form \in Forms,
               Written(Decrypted(temp[f]), form, Plain),
               disk' = [disk EXCEPT ![f] = form], Tear(f, form)
        PROVE  disk'[f] = "whole" \/ f \in torn'
    BY <1>0, <2>0, <2>1 DEF Written, Decrypted, Plain, Tear, Bad, TypeOK
  <2>2. CASE temp[f] \in {"broken", "short"} /\ disk' = [disk EXCEPT ![f] = Decrypted(temp[f])]
               /\ UNCHANGED <<path, torn>>
    BY <2>0, <2>00, <2>2 DEF Decrypted, Bad, TypeOK
  <2>3. CASE UNCHANGED <<path, disk, torn>>
    BY <2>00, <2>3
  <2>. QED
    BY <2>1, <2>2, <2>3 DEF DecryptEnds
<1>4. ASSUME NEW g \in Files PROVE ReceivedForm(g)'
  <2>1. ReceivedForm(g)
    BY DEF FormsInv
  <2>2. CASE g = f
    BY <1>0, <1>3, <2>1, <2>2 DEF ReceivedForm, OrdinaryFiles, cache, sender, TypeOK
  <2>3. CASE g # f
    BY <1>0, <1>2, <2>1, <2>3 DEF ReceivedForm, OrdinaryFiles, cache, sender, TypeOK
  <2>. QED
    BY <2>2, <2>3
<1>. QED
  BY <1>0, <1>4, ReceivedOnly DEF sender

LEMMA CacheForms ==
  ASSUME TypeOK, FormsInv, UnderWay, NEW f \in Files, GetOrPut(f) \/ OnFinished(f)
  PROVE  FormsInv'
<1>0. ReceivedForm(f) /\ SentForm(f) /\ UNCHANGED <<sender, secret>> /\ torn \subseteq torn'
  BY DEF FormsInv, GetOrPut, OnFinished, Tear
<1>1. CASE GetOrPut(f)
  <2>1. f \in OrdinaryFiles
    BY <1>1 DEF GetOrPut, OrdinaryFiles
  <2>2. ASSUME NEW g \in Files PROVE ReceivedForm(g)'
    <3>1. ReceivedForm(g) /\ torn' = torn /\ OrdinaryFiles' = OrdinaryFiles
      BY <1>0, <1>1 DEF FormsInv, GetOrPut, OrdinaryFiles, sender
    <3>2. CASE Kept(f) /\ served' = served \cup {f} /\ UNCHANGED <<media, mediaActive, fetching>>
      BY <1>0, <3>1, <3>2 DEF ReceivedForm, Kept, secret
    <3>3. CASE /\ ~Kept(f) /\ media' = [media EXCEPT ![f] = "empty"]
               /\ fetching' = fetching \cup {f} /\ UNCHANGED served
      BY <1>0, <2>1, <3>1, <3>3 DEF ReceivedForm, Kept, secret, TypeOK
    <3>. QED
      BY <1>1, <3>2, <3>3 DEF GetOrPut
  <2>. QED
    BY <1>0, <2>2, ReceivedOnly DEF sender
<1>2. CASE OnFinished(f)
  <2>1. /\ f \in fetching /\ media[f] = "empty" /\ f \in OrdinaryFiles
        /\ f \in served => f \in torn
    BY <1>0, <1>2 DEF OnFinished, ReceivedForm
  <2>2. media'[f] \in {"none", "empty", "whole"} \/ f \in torn'
    <3>1. ASSUME NEW form \in Forms, Written(object[f], form, Plain), Tear(f, form)
          PROVE  form \in {"none", "whole"} \/ f \in torn'
      BY <1>0, <2>1, <3>1 DEF Written, Plain, Tear, SentForm, Encrypted, Forms
    <3>. QED
      BY <1>2, <2>1, <3>1 DEF OnFinished, TypeOK
  <2>3. /\ fetching' = fetching \ {f} /\ UNCHANGED served
        /\ \A g \in Files : g # f => media'[g] = media[g]
    BY <1>2 DEF OnFinished, TypeOK
  <2>4. ASSUME NEW g \in Files PROVE ReceivedForm(g)'
    BY <1>0, <2>1, <2>2, <2>3 DEF FormsInv, ReceivedForm, OrdinaryFiles, secret, sender
  <2>. QED
    BY <1>0, <2>4, ReceivedOnly DEF sender
<1>. QED
  BY <1>1, <1>2

LEMMA StopReceiverForms ==
  ASSUME TypeOK, FormsInv, StopReceiver
  PROVE  FormsInv'
<1>1. PICK part \in SUBSET Files, half \in SUBSET Files :
        /\ disk' = [g \in Files |-> IF g \in part THEN "part" ELSE disk[g]]
        /\ media' = [g \in Files |-> IF g \in half THEN "part" ELSE media[g]]
        /\ torn' = torn \cup part \cup half
  BY DEF StopReceiver, TypeOK
<1>2. /\ active' = {} /\ fetching' = {} /\ stage' = [g \in Files |-> "idle"]
      /\ UNCHANGED <<sender, path, temp, served>>
  BY DEF StopReceiver
<1>3. ASSUME NEW g \in Files PROVE ReceivedForm(g)'
  <2>1. ReceivedForm(g)
    BY DEF FormsInv
  <2>. QED
    BY <1>1, <1>2, <2>1 DEF ReceivedForm
<1>. QED
  BY <1>1, <1>2, <1>3, ReceivedOnly DEF sender

-----------------------------------------------------------------------------
(* Recording, uploads, downloads, faults, full disks and stops keep the    *)
(* types of all variables; pending never goes below zero.                  *)
THEOREM TypeCorrect == Spec => []TypeOK
<1>1. SenderInv => TypeOK
  BY DEF SenderInv
<1>. QED
  BY <1>1, SenderInvariant, PTL

(* A secret message is posted with every file that was neither lost in     *)
(* encryption nor in its upload, and not before the last of them ended.    *)
THEOREM PostedWithAllTheRest == Spec => []PostedWithTheRest
<1>1. SenderInv => PostedWithTheRest
  BY DEF SenderInv, Upload, Posting, PostedWithTheRest
<1>. QED
  BY <1>1, SenderInvariant, PTL

(* A secret message hangs between its uploads and its posting only if the  *)
(* row of one of its files could not be saved.                             *)
THEOREM StallsForUnsavedOnly == Spec => []StallsOnlyUnsaved
<1>1. ASSUME SenderInv, NEW m \in Messages, sends[m].stage = "put",
             sends[m].putting = {}, sends[m].kind = "secret",
             sends[m].jobs \subseteq saved
      PROVE  FALSE
  <2>1. sends[m].jobs \ saved = {}
    BY <1>1
  <2>2. sends[m].pending = Cardinality({}) + Cardinality({}) /\ sends[m].pending # 0
    BY <1>1, <2>1 DEF SenderInv, Upload, Uploading
  <2>. QED
    BY <2>2, FS_EmptySet
<1>2. SenderInv => StallsOnlyUnsaved
  BY <1>1 DEF StallsOnlyUnsaved
<1>. QED
  BY <1>2, SenderInvariant, PTL

LEMMA NextForms ==
  ASSUME SenderInv, ClipIsNew, UnderWay, FormsInv, [Next]_vars
  PROVE  FormsInv'
<1>0. TypeOK
  BY DEF SenderInv
<1>1. ASSUME NEW m \in Messages, StopRecordingAndSend(m) PROVE FormsInv'
  <2>1. Clip \in Unsent /\ UNCHANGED <<source, object, secret, cache>>
    BY <1>1 DEF StopRecordingAndSend, ClipIsNew
  <2>. QED
    BY <1>1, <2>1, UploadFileForms, SendSecretForms DEF StopRecordingAndSend
<1>2. ASSUME NEW m \in Messages, NEW fs \in SUBSET Files, Choose(m, fs)
      PROVE  FormsInv'
  <2>1. fs \in SUBSET Unsent /\ UNCHANGED <<source, object, secret, cache>>
    BY <1>2 DEF Choose
  <2>. QED
    BY <1>2, <2>1, UploadFileForms, SendSecretForms DEF Choose
<1>3. ASSUME NEW m \in Messages, NEW f \in Files, EncryptFile(m, f) \/ PutEnds(m, f)
      PROVE  FormsInv'
  BY <1>3, EncryptForms
<1>4. ASSUME NEW m \in Messages,
             \/ OrdinaryAnswered(m) \/ OrdinaryFails(m) \/ EncryptionEnds(m)
             \/ LinksAnswered(m) \/ LinksFail(m) \/ PostEnds(m) \/ Receive(m)
      PROVE  FormsInv'
  BY <1>4, ChainForms, OrdinaryForms, MessageForms
<1>5. ASSUME NEW f \in Files,
             \/ UrlAnswered(f) \/ GetAnswered(f)
             \/ UrlFails(f) \/ OpenFails(f) \/ GetFails(f) \/ DecryptEnds(f)
             \/ GetOrPut(f) \/ OnFinished(f)
      PROVE  FormsInv'
  BY <1>0, <1>5, GetForms, DecryptForms, CacheForms
<1>6. ASSUME NEW f \in Files, DownloadSecretAttachment(f) PROVE FormsInv'
  BY <1>0, <1>6, DownloadForms DEF DownloadSecretAttachment
<1>7. CASE FetchSecretChatHistory
  <2>1. Missing \in SUBSET Files
    BY <1>0 DEF Missing, TypeOK
  <2>. QED
    BY <1>0, <1>7, <2>1, DownloadForms DEF FetchSecretChatHistory
<1>8. CASE UNCHANGED vars
  BY <1>8, SameForms DEF vars, sender, Unsent, OrdinaryFiles
<1>. QED
  BY <1>0, <1>1, <1>2, <1>3, <1>4, <1>5, <1>6, <1>7, <1>8, RecordingForms,
    MessageForms, StopReceiverForms DEF Next, Callback

(* A secret file with a local path, and what the media cache serves, is    *)
(* the whole file that was sent, or it is known where it was torn.         *)
THEOREM FilesAreWholeOrTorn == Spec => []WholeOrTorn
<1>1. Init => ClipIsNew
  BY DEF Init, ClipIsNew
<1>2. SenderInv => TypeOK
  BY DEF SenderInv
<1>3. TypeOK /\ FormsInv => WholeOrTorn
  BY DEF TypeOK, FormsInv, ReceivedForm, WholeOrTorn
<1>. QED
  BY <1>1, <1>2, <1>3, InitSender, NextSender, InitUnderWay, NextUnderWay,
    InitForms, NextClip, NextForms, PTL DEF Spec
=============================================================================
