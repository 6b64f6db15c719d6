----------------------------- MODULE ImageAnalysis -----------------------------
(***************************************************************************)
(* What processing does with one image: the configuration it works with,   *)
(* the quality check, and the embedding.  Pure operators; the images are   *)
(* described by what OFIQ and DeepFace answer about them.                  *)
(*                                                                         *)
(* Numbers: a value the settings and the API hold between 0 and 1 is       *)
(* counted in hundredths here (0..100); the configuration of a run keeps   *)
(* the duplicate and the quality thresholds a hundred times larger, and    *)
(* DeepFace reports the confidence of a match on that larger scale.        *)
(***************************************************************************)
EXTENDS Naturals

CONSTANTS
  None,     \* null
  Images,   \* files of the storage, by what is on them
  Metrics,  \* OFIQ metrics that have a threshold in the settings
  Photo     \* Photo[i]: what OFIQ and DeepFace answer for image i

\* quality is what OFIQ measures (a metric may stay unmeasured), or None when it finds no
\* face; faces and confidence are the answer of DeepFace.represent.
PhotoRecord ==
  [quality : [Metrics -> (0..100) \cup {None}] \cup {None},
   faces : 0..2, confidence : 0..100]

Settings == [face : 0..100, duplicate : 0..100, quality : [Metrics -> 0..100]]

ASSUME PhotoAssumption == Photo \in [Images -> PhotoRecord]

FACE_DETECT == {"FACE_NOT_ACCEPTED", "NO_FACE_DETECTED", "MULTIPLE_FACES_DETECTED"}
IMAGE_QUALITY == {"BAD_IMAGE_QUALITY"}
SYSTEM == {"FILE_NOT_FOUND", "GENERIC_ERROR"}
StatusCode == {"DEDUPLICATE_SUCCESS"} \cup FACE_DETECT \cup IMAGE_QUALITY \cup SYSTEM

-----------------------------------------------------------------------------
(***************************************************************************)
(* The configuration of a run.                                             *)
(***************************************************************************)

from_deduplication_set(settings) ==
  [settings EXCEPT !.duplicate = 100 * @,
                   !.quality = [m \in Metrics |-> 100 * @[m]]]

\* The snapshot that findings and the log carry, back on the scale of the settings.
as_dict(config) ==
  [config EXCEPT !.duplicate = @ \div 100,
                 !.quality = [m \in Metrics |-> @[m] \div 100]]

get_active_thresholds(config) == {m \in Metrics : config.quality[m] > 0}

-----------------------------------------------------------------------------
(***************************************************************************)
(* One image.  Scores are named by the image they were measured on.        *)
(***************************************************************************)

evaluate_quality_thresholds(scores, config) ==
  \A m \in get_active_thresholds(config) :
    /\ scores[m] # None
    /\ scores[m] >= config.quality[m] \div 100

\* What the quality check makes of the scores measured on image i.
QualityCode(i, config) ==
  CASE Photo[i].quality = None -> "NO_FACE_DETECTED"
    [] Photo[i].quality # None
         /\ ~evaluate_quality_thresholds(Photo[i].quality, config) -> "BAD_IMAGE_QUALITY"
    [] OTHER -> None

\* The status DeepFace's answer leads to; None when the face is accepted.
FaceCode(i, config) ==
  LET photo == Photo[i] IN
  CASE photo.faces > 1 -> "MULTIPLE_FACES_DETECTED"
    [] photo.faces = 0 -> "NO_FACE_DETECTED"
    [] photo.faces = 1 /\ photo.confidence = 0 -> "NO_FACE_DETECTED"
    [] photo.faces = 1 /\ photo.confidence \in 1..(config.face - 1) -> "FACE_NOT_ACCEPTED"
    [] OTHER -> None

\* A row of Encoding; an embedding is named by the image and the settings it comes from.
Embedding == [image : Images, settings : Settings]
Row == { r \in [filename : Images, embedding : Embedding \cup {None},
                code : StatusCode \cup {None}, scores : Images \cup {None}] :
           r.embedding = None \/ r.code = None }

encode_face(row, config) ==
  LET code == FaceCode(row.filename, config) IN
  [row EXCEPT !.code = code,
              !.embedding = IF code = None
                            THEN [image |-> row.filename, settings |-> as_dict(config)]
                            ELSE @]

\* The row after process_encoding and the handlers around it: one result for every way
\* loading the image or a library may fail (with an error of Errors).  Cached scores are
\* used as they are, and what was assigned before an error stays assigned.
process_encoding(row, config, Errors) ==
  LET active == get_active_thresholds(config) # {}
      measures == active /\ row.scores = None
      checked == IF measures THEN [row EXCEPT !.scores = row.filename] ELSE row
      quality == IF active THEN QualityCode(checked.scores, config) ELSE None
  IN
  { [row EXCEPT !.code = e] : e \in IF measures THEN Errors ELSE {} }
    \cup IF quality # None
         THEN { [checked EXCEPT !.code = quality] }
         ELSE { encode_face(checked, config) }
                \cup { [checked EXCEPT !.code = e] : e \in Errors }

\* Mutant: images that have an embedding are encoded again.
NeedsEncodingAll(row) == row.code \notin FACE_DETECT \cup IMAGE_QUALITY

\* encodings_without_embeddings: what a run encodes.  Faces and quality are final
\* verdicts, errors of the system are tried again.
NeedsEncoding(row) ==
  row.embedding = None /\ row.code \notin FACE_DETECT \cup IMAGE_QUALITY
================================================================================
