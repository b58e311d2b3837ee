-------------------------- MODULE UploadsProperties ---------------------------
(* What saving a photo or video promises, over module Uploads.             *)
EXTENDS Uploads

(* Requests overlap and are cut short between the bucket and the database, *)
(* yet a stored photo or video is whole: its two urls agree, a video has a *)
(* cover unless a request took it away, and a cover that the program made  *)
(* is in the bucket and is a frame of a file that was there and that the   *)
(* video had as its url (video.controller.ts:422-431,                      *)
(* ffmpeg.service.ts:10-30).                                               *)
FilmWhole ==
  film.life = "stored" =>
    /\ film.url # NoKey
    /\ film.publicUrl = film.url
    /\ medium = "video" =>
         /\ film.cover = NoKey => cleared
         /\ film.cover # NoKey /\ place[film.cover] = "cover" =>
              \E k \in urls :
                object[film.cover] = Frame(k) /\ object[k] = File
=============================================================================
