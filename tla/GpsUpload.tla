-------------------------------- MODULE GpsUpload --------------------------------
(***************************************************************************)
(* The position of the camera on its way to the platform: UploadGpsThread  *)
(* of the gateway asks the camera for its device information and uploads   *)
(* the position it finds in g_DevInfo; the event thread stores there, in   *)
(* GetDevInfo, what the camera answers, first the longitude and then the   *)
(* latitude.  Nothing orders the two threads.                              *)
(*                                                                         *)
(* A position is known by its number; 0 stands for the zeroes of a         *)
(* g_DevInfo nobody has filled yet.                                        *)
(***************************************************************************)
EXTENDS Naturals

CONSTANT MaxMoves   \* bound: positions the camera has

VARIABLES
  here,        \* the camera's position
  asked,       \* a request for device information is under way
  answer,      \* the position in an answer under way, 0: none
  storing,     \* GetDevInfo has stored the longitude of this answer, 0: none
  lng, lat,    \* g_DevInfo.lng, g_DevInfo.lat
  bGpsUpload,  \* the flag
  gps,         \* where UploadGpsThread is
  readLat,     \* the latitude it has read
  sent         \* the last upload, latitude and longitude

vars == <<here, asked, answer, storing, lng, lat, bGpsUpload, gps, readLat, sent>>

Positions == 0..MaxMoves

Init ==
  /\ here = 1 /\ asked = FALSE /\ answer = 0 /\ storing = 0
  /\ lng = 0 /\ lat = 0 /\ bGpsUpload = FALSE
  /\ gps = "none" /\ readLat = 0 /\ sent = [lat |-> 0, lng |-> 0]

-------------------------------------------------------------------------------
(* Steps with a plausible bug.  They are not part of the specification: each   *)
(* one in the place of its original is what some property has to catch.        *)

\* GetDevInfo stores the latitude twice and the longitude never.
StoreLatitudeTwice ==
  /\ answer # 0 /\ storing = 0
  /\ lat' = answer /\ storing' = answer /\ answer' = 0
  /\ UNCHANGED <<here, asked, lng, bGpsUpload, gps, readLat, sent>>

\* The thread asks once and then uploads what it has.
AskOnce ==
  /\ gps = "test" /\ bGpsUpload
  /\ gps' = "lat" /\ asked' = (asked \/ sent.lat = 0)
  /\ UNCHANGED <<here, answer, storing, lng, lat, bGpsUpload, readLat, sent>>

-------------------------------------------------------------------------------
(* The camera *)

Moves ==
  /\ here < MaxMoves
  /\ here' = here + 1
  /\ UNCHANGED <<asked, answer, storing, lng, lat, bGpsUpload, gps, readLat, sent>>

Answers ==
  /\ asked /\ answer = 0
  /\ asked' = FALSE /\ answer' = here
  /\ UNCHANGED <<here, storing, lng, lat, bGpsUpload, gps, readLat, sent>>

\* An answer with a result other than 0 is ignored, like one that never comes.
AnswerUnused ==
  /\ answer # 0 /\ storing = 0
  /\ answer' = 0
  /\ UNCHANGED <<here, asked, storing, lng, lat, bGpsUpload, gps, readLat, sent>>

-------------------------------------------------------------------------------
(* pfnEventCB, GetDevInfo *)

StoreLongitude ==
  /\ answer # 0 /\ storing = 0
  /\ lng' = answer /\ storing' = answer /\ answer' = 0
  /\ UNCHANGED <<here, asked, lat, bGpsUpload, gps, readLat, sent>>

StoreLatitude ==
  /\ storing # 0
  /\ lat' = storing /\ storing' = 0
  /\ UNCHANGED <<here, asked, answer, lng, bGpsUpload, gps, readLat, sent>>

-------------------------------------------------------------------------------
(* dsjet_gb_StartUploadGps, UploadGpsThread *)

StartUpload ==
  /\ gps = "none" /\ ~bGpsUpload
  /\ bGpsUpload' = TRUE /\ gps' = "test"
  /\ UNCHANGED <<here, asked, answer, storing, lng, lat, readLat, sent>>

\* The request may be refused; the thread does not look at the result.
Ask ==
  /\ gps = "test" /\ bGpsUpload
  /\ gps' = "lat" /\ asked' \in {TRUE, asked}
  /\ UNCHANGED <<here, answer, storing, lng, lat, bGpsUpload, readLat, sent>>

ReadLatitude ==
  /\ gps = "lat"
  /\ gps' = "lng" /\ readLat' = lat
  /\ UNCHANGED <<here, asked, answer, storing, lng, lat, bGpsUpload, sent>>

Upload ==
  /\ gps = "lng"
  /\ sent' = [lat |-> readLat, lng |-> lng]
  /\ gps' = "test"
  /\ UNCHANGED <<here, asked, answer, storing, lng, lat, bGpsUpload, readLat>>

\* One failed upload ends the thread, and nobody starts it again.
UploadFails ==
  /\ gps = "lng"
  /\ gps' = "ended" /\ bGpsUpload' = FALSE
  /\ UNCHANGED <<here, asked, answer, storing, lng, lat, readLat, sent>>

-------------------------------------------------------------------------------

GpsStep == Ask \/ ReadLatitude \/ Upload
Next == \/ Moves \/ Answers \/ AnswerUnused \/ StoreLongitude \/ StoreLatitude
        \/ StartUpload \/ GpsStep \/ UploadFails

Spec == Init /\ [][Next]_vars

(* Fairness: both threads run; a request that is made again and again gets    *)
(* through, and so does an answer.                                            *)
Fairness == /\ WF_vars(GpsStep) /\ SF_vars(Ask /\ asked') /\ WF_vars(Answers)
            /\ SF_vars(StoreLongitude) /\ WF_vars(StoreLatitude)

-------------------------------------------------------------------------------
(* Properties *)

\* An upload may mix two positions, but only one way: with the longitude of a
\* later answer, because writer and reader take the two halves in opposite order.
MixedOneWay == sent.lat <= sent.lng /\ (gps = "lng" => readLat <= lng)

\* Every position the camera stays at is uploaded, unless an upload failed before.
StandsAt(p) == gps = "test" /\ here = p
Uploaded(p) == sent.lat >= p \/ gps = "ended"
PositionArrives == \A p \in Positions : StandsAt(p) ~> Uploaded(p)
-------------------------------------------------------------------------------
(* The invariant the proof needs *)

Counts ==
  /\ here \in Nat /\ answer \in Nat /\ storing \in Nat
  /\ lng \in Nat /\ lat \in Nat /\ readLat \in Nat
  /\ sent \in [lat : Nat, lng : Nat]

\* A position is stored no later than it is asked for and the longitude first:
\* what is read of the latitude is never ahead of the longitude.
InOrder ==
  /\ readLat <= lat /\ lat <= lng /\ lng <= here
  /\ storing # 0 => storing = lng
  /\ answer # 0 => (lng <= answer /\ answer <= here)
  /\ sent.lat <= sent.lng

Ordered == Counts /\ InOrder
===============================================================================
