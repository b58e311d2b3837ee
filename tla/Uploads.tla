------------------------------- MODULE Uploads --------------------------------
(***************************************************************************)
(* Files.  A client asks for a place in the bucket, sends the file there   *)
(* itself, in one piece or in parts, and then names the place as the url   *)
(* of a photo or a video.  When a video has no cover, the program takes a  *)
(* frame of the file, stores it under a key of its own, and only then      *)
(* saves the video.  The bucket and the database are separate: a behaviour *)
(* is about one photo or video, saved by overlapping requests that may be  *)
(* cut short between any two calls.  The bucket (S3) is external.          *)
(***************************************************************************)
EXTENDS Integers

CONSTANTS
  MaxKeys, \* bound: uploads and covers
  Parts,   \* parts of a file sent in parts
  Savers,  \* running requests that save the photo or video
  MaxSaves \* bound: such requests

ASSUME UploadsBoundsAssumption == MaxKeys \in Nat /\ MaxSaves \in Nat

VARIABLES
  medium,  \* "photo" or "video"; does not change
  object,  \* key |-> what the bucket holds there
  place,   \* key |-> what was made of it: "free", "single", "multi", "closed"
           \* or "cover"
  sent,    \* key |-> parts that were sent
  film,    \* the photo or video
  urls,    \* every url it was saved with (for the properties)
  cleared, \* some request took its cover away (for the properties)
  save,    \* saver |-> where its request is and what it holds
  saves    \* requests received (bounded by MaxSaves)

bucket == <<object, place, sent>>
written == <<film, urls, cleared>>
uploadVars == <<medium, bucket, written, save, saves>>

-----------------------------------------------------------------------------
(* Keys of the bucket, numbered as they are drawn.                         *)
Keys == 1 .. MaxKeys
NoKey == 0  \* no url or no cover

NoObject == [kind |-> "none"]
File == [kind |-> "file"]
Frame(k) == [kind |-> "frame", of |-> k]
NoFilm == [life |-> "none", url |-> NoKey, publicUrl |-> NoKey, cover |-> NoKey]
NoSave == [pc |-> "none"]

AtSave(p, pc) == save[p].pc = pc
SaveGoesOn(p, s) == save' = [save EXCEPT ![p] = s]
SaveEnds(p) == SaveGoesOn(p, NoSave)

UploadsInit ==
  /\ medium \in {"photo", "video"}
  /\ object = [k \in Keys |-> NoObject]
  /\ place = [k \in Keys |-> "free"]
  /\ sent = [k \in Keys |-> {}]
  /\ film = NoFilm
  /\ urls = {}
  /\ cleared = FALSE
  /\ save = [p \in Savers |-> NoSave]
  /\ saves = 0

-----------------------------------------------------------------------------
(* The bucket                                                              *)

(* Forty random letters: a key that was never used.                        *)
GenerateKey(k, use) ==
  /\ place[k] = "free"
  /\ \A other \in Keys : place[other] = "free" => k <= other
  /\ place' = [place EXCEPT ![k] = use]

(* Pictures are sent in one piece, videos in parts.                        *)
GetSignedUrl ==
  /\ medium = "photo"
  /\ \E k \in Keys : GenerateKey(k, "single")
  /\ UNCHANGED <<object, sent, medium, written, save, saves>>

CreateMultipartUpload ==
  /\ medium = "video"
  /\ \E k \in Keys : GenerateKey(k, "multi")
  /\ UNCHANGED <<object, sent, medium, written, save, saves>>

(* The client sends the picture to the signed url, before it expires.      *)
PutObject ==
  /\ \E k \in Keys :
       /\ place[k] = "single"
       /\ object' = [object EXCEPT ![k] = File]
  /\ UNCHANGED <<place, sent, medium, written, save, saves>>

(* The client asks for the url of a part and sends the part there.         *)
SendPart ==
  /\ \E k \in Keys, n \in Parts :
       /\ place[k] = "multi"
       /\ sent' = [sent EXCEPT ![k] = @ \cup {n}]
  /\ UNCHANGED <<object, place, medium, written, save, saves>>

(* The parts the client lists must have been sent.                         *)
CompleteMultipartUpload ==
  /\ \E k \in Keys, list \in SUBSET Parts \ {{}} :
       /\ place[k] = "multi"
       /\ list \subseteq sent[k]
       /\ object' = [object EXCEPT ![k] = File]
       /\ place' = [place EXCEPT ![k] = "closed"]
  /\ UNCHANGED <<sent, medium, written, save, saves>>

-----------------------------------------------------------------------------
(* Saving the photo or video                                               *)

Given == {k \in Keys : place[k] \notin {"free", "cover"}}

UrlModified(s) == s.url # s.read.url

(* A video whose url changes and that has no cover needs one.              *)
BeforeSave(s) ==
  IF medium = "video" /\ UrlModified(s) /\ s.cover = NoKey
  THEN "download" ELSE "save"

(* A request names the url, of a file sent or not yet sent, and keeps the  *)
(* cover, takes it away or names one; an update reads the document first.  *)
ReceiveSave(p) ==
  /\ AtSave(p, "none")
  /\ saves < MaxSaves
  /\ saves' = saves + 1
  /\ \E url \in (Given \cup {film.url}) \ {NoKey},
        cover \in {film.cover, NoKey} \cup Given :
       LET s == [pc |-> "save", read |-> [url |-> film.url, cover |-> film.cover],
                 url |-> url, cover |-> cover]
       IN /\ medium = "photo" => cover = NoKey
          /\ SaveGoesOn(p, [s EXCEPT !.pc = BeforeSave(s)])
  /\ UNCHANGED <<medium, bucket, written>>

(* The file is copied and a frame of it taken; without file the request    *)
(* fails.                                                                  *)
DownloadFile(p) ==
  LET s == save[p]
  IN
    /\ AtSave(p, "download")
    /\ IF object[s.url] = NoObject
       THEN SaveEnds(p)
       ELSE SaveGoesOn(p, [s EXCEPT !.pc = "upload"])
    /\ UNCHANGED <<medium, bucket, written, saves>>

(* A frame of the file becomes an object of its own.                       *)
ExtractCover(k, url) ==
  /\ GenerateKey(k, "cover")
  /\ object' = [object EXCEPT ![k] = Frame(url)]

(* Mutant: the cover is in the document as soon as it is in the bucket.    *)
UploadAndSaveCover(p) ==
  LET s == save[p]
  IN
    /\ AtSave(p, "upload")
    /\ \E k \in Keys :
         /\ ExtractCover(k, s.url)
         /\ film' = [film EXCEPT !.cover = k]
         /\ SaveGoesOn(p, [s EXCEPT !.pc = "save", !.cover = k])
    /\ UNCHANGED <<sent, medium, urls, cleared, saves>>

(* The frame is stored under a new key.                                    *)
UploadFile(p) ==
  LET s == save[p]
  IN
    /\ AtSave(p, "upload")
    /\ \E k \in Keys :
         /\ ExtractCover(k, s.url)
         /\ SaveGoesOn(p, [s EXCEPT !.pc = "save", !.cover = k])
    /\ UNCHANGED <<sent, medium, written, saves>>

(* One insert, or one update of what differs from the document read.       *)
SaveFilm(p) ==
  LET s == save[p]
      covered == [film EXCEPT !.cover =
                    IF s.cover = s.read.cover THEN @ ELSE s.cover]
  IN
    /\ AtSave(p, "save")
    /\ IF s.read.url = NoKey
       THEN /\ film = NoFilm
            /\ film' = [life |-> "stored", url |-> s.url, publicUrl |-> s.url,
                        cover |-> s.cover]
       ELSE film' = IF UrlModified(s)
                    THEN [covered EXCEPT !.url = s.url, !.publicUrl = s.url]
                    ELSE covered
    /\ urls' = urls \cup {film'.url}
    /\ cleared' = (cleared \/ (film'.cover = NoKey /\ s.read.url # NoKey))
    /\ SaveEnds(p)
    /\ UNCHANGED <<medium, bucket, saves>>

(* The request fails or the program stops.                                 *)
CutSave(p) ==
  /\ ~AtSave(p, "none")
  /\ SaveEnds(p)
  /\ UNCHANGED <<medium, bucket, written, saves>>

UploadController ==
  \/ GetSignedUrl \/ CreateMultipartUpload
  \/ SendPart \/ CompleteMultipartUpload

UploadsNext ==
  \/ UploadController
  \/ PutObject
  \/ \E p \in Savers :
       \/ ReceiveSave(p) \/ DownloadFile(p)
       \/ UploadFile(p) \/ SaveFilm(p) \/ CutSave(p)
=============================================================================
