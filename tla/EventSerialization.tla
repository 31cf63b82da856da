------------------------- MODULE EventSerialization -------------------------
(***************************************************************************)
(* The JSON form of the four events that travel through Redis streams      *)
(* (infrastructure/redis/serialization.py).  An object is a function of    *)
(* its field names, a sequence of objects stands for a tuple, a time is    *)
(* [at, aware]: its instant and whether it carries a time zone.  Values    *)
(* that JSON and base64 give back unchanged are left as they are.          *)
(***************************************************************************)
EXTENDS Integers, Sequences, Functions

CONSTANT None   (* Python's None *)

TopicToEventType == [
  frames     |-> "frame.ingested",       \* ingestion.frames
  detections |-> "detection.created",    \* inference.detections
  alerts     |-> "compliance.alert",
  evidence   |-> "evidence.capture" ]

(* The fields of the four events, and of what is in them. *)
EventFields == [
  frames     |-> {"camera_id", "frame_id", "captured_at", "received_at", "topic",
                  "correlation_id", "session_id", "source_fps"},
  detections |-> {"camera_id", "zone_id", "frame_id", "captured_at", "processed_at", "detections",
                  "thumbnail", "correlation_id", "source_fps", "frame_shape"},
  alerts     |-> {"camera_id", "zone_id", "person_id", "timestamp", "outcome", "rule_name",
                  "group_id"},
  evidence   |-> {"group_id", "camera_id", "zone_id", "payload", "timestamp"} ]

DetectionFields == {"class_id", "class_name", "bbox", "confidence", "use_case", "track_id"}
PayloadFields == {"group_id", "camera_id", "zone_id", "items"}
ItemFields == {"frame_id", "timestamp", "thumbnail", "camera_id", "zone_id", "person_id"}

TimeFields == [
  frames |-> {"captured_at", "received_at"}, detections |-> {"captured_at", "processed_at"},
  alerts |-> {"timestamp"}, evidence |-> {"timestamp"} ]

IsObject(obj, fields) == obj = [f \in fields |-> obj[f]]
IsTime(dt) == dt = [at |-> dt.at, aware |-> dt.aware]

IsEvent(topic, message) ==
  /\ IsObject(message, EventFields[topic])
  /\ \A f \in TimeFields[topic] : IsTime(message[f])
  /\ topic = "detections" =>
       \A i \in DOMAIN message.detections : IsObject(message.detections[i], DetectionFields)
  /\ topic = "evidence" =>
       /\ IsObject(message.payload, PayloadFields)
       /\ \A i \in DOMAIN message.payload.items :
            /\ IsObject(message.payload.items[i], ItemFields)
            /\ IsTime(message.payload.items[i].timestamp)

(* A time without a zone is taken for UTC, on the way in and out. *)
DtToStr(dt) == dt.at
StrToDt(s) == [at |-> s, aware |-> TRUE]

Without(obj, fields) == Restrict(obj, DOMAIN obj \ fields)

(* obj with the defaults of a decoder for the fields that are not there. *)
WithDefaults(obj, defaults) ==
  [f \in DOMAIN obj \cup DOMAIN defaults |->
     IF f \in DOMAIN obj THEN obj[f] ELSE defaults[f]]

EncodeFrameEnvelope(obj) ==
  [obj EXCEPT !.captured_at = DtToStr(@), !.received_at = DtToStr(@)]

DecodeFrameEnvelope(data) ==
  WithDefaults([data EXCEPT !.captured_at = StrToDt(@), !.received_at = StrToDt(@)],
               [correlation_id |-> "", session_id |-> "", source_fps |-> 0])

(* The track id given by ByteTrack is not written. *)
EncodeDetection(d) == Without(d, {"track_id"})
DecodeDetection(d) == WithDefaults(d, [track_id |-> None])

(* Nor is the shape of the frame. *)
EncodeDetectionEvent(obj) ==
  Without([obj EXCEPT !.captured_at = DtToStr(@), !.processed_at = DtToStr(@),
                      !.detections = [i \in DOMAIN @ |-> EncodeDetection(@[i])]],
          {"frame_shape"})

DecodeDetectionEvent(data) ==
  WithDefaults([data EXCEPT !.captured_at = StrToDt(@), !.processed_at = StrToDt(@),
                            !.detections = [i \in DOMAIN @ |-> DecodeDetection(@[i])]],
               [thumbnail |-> None, correlation_id |-> "", source_fps |-> 0,
                frame_shape |-> <<0, 0>>])

EncodeComplianceEvent(obj) == [obj EXCEPT !.timestamp = DtToStr(@)]
DecodeComplianceEvent(data) == [data EXCEPT !.timestamp = StrToDt(@)]

(* Mutant: the thumbnail is not written. *)
EncodeEvidenceItemNoThumbnail(item) ==
  [Without(item, {"thumbnail"}) EXCEPT !.timestamp = DtToStr(@)]

EncodeEvidenceItem(item) == [item EXCEPT !.timestamp = DtToStr(@)]
DecodeEvidenceItem(d) ==
  WithDefaults([d EXCEPT !.timestamp = StrToDt(@)], [thumbnail |-> None])

EncodeEvidenceCaptureEvent(obj) ==
  [obj EXCEPT !.timestamp = DtToStr(@),
     !.payload.items = [i \in DOMAIN @ |-> EncodeEvidenceItem(@[i])]]
DecodeEvidenceCaptureEvent(data) ==
  [data EXCEPT !.timestamp = StrToDt(@),
     !.payload.items = [i \in DOMAIN @ |-> DecodeEvidenceItem(@[i])]]

(* The encoder goes by the topic; the data says its event type. *)
Serialize(topic, message) ==
  LET event_type == TopicToEventType[topic] IN
  [event_type |-> event_type,
   data |-> CASE event_type = "frame.ingested"    -> EncodeFrameEnvelope(message)
              [] event_type = "detection.created" -> EncodeDetectionEvent(message)
              [] event_type = "compliance.alert"  -> EncodeComplianceEvent(message)
              [] event_type = "evidence.capture"  -> EncodeEvidenceCaptureEvent(message)]

(* The decoder goes by the event type in the data, not by the topic; None   *)
(* for a type it does not know, and for data that is not what the type says *)
(* (here: data that is None).                                               *)
Deserialize(payload) ==
  CASE payload.data = None -> None
    [] payload.event_type = "frame.ingested"    -> DecodeFrameEnvelope(payload.data)
    [] payload.event_type = "detection.created" -> DecodeDetectionEvent(payload.data)
    [] payload.event_type = "compliance.alert"  -> DecodeComplianceEvent(payload.data)
    [] payload.event_type = "evidence.capture"  -> DecodeEvidenceCaptureEvent(payload.data)
    [] OTHER -> None
=============================================================================
