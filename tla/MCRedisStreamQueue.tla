------------------------- MODULE MCRedisStreamQueue -------------------------
(* Instances of RedisStreamQueue for TLC: a message or more of each topic. *)
EXTENDS RedisStreamQueue, TLC

Time(n, a) == [at |-> n, aware |-> a]

Evidence(n) == [
  group_id |-> n, camera_id |-> "cam", zone_id |-> "zone", timestamp |-> Time(n, n = 1),
  payload |-> [group_id |-> n, camera_id |-> "cam", zone_id |-> "zone",
    items |-> [i \in 1..n |-> [frame_id |-> i, timestamp |-> Time(i, TRUE), person_id |-> n,
                 camera_id |-> "cam", zone_id |-> "zone",
                 thumbnail |-> IF i = 1 THEN "jpeg" ELSE None]]]]

Detections(n) == [
  camera_id |-> "cam", zone_id |-> "zone", frame_id |-> n,
  captured_at |-> Time(n, TRUE), processed_at |-> Time(n, n # 1),
  thumbnail |-> IF n = 1 THEN "jpeg" ELSE None, correlation_id |-> "id", source_fps |-> 25,
  frame_shape |-> <<4, 3>>,
  detections |-> [i \in 1..n |-> [class_id |-> 0, class_name |-> "person", confidence |-> i,
                    use_case |-> "handwash", bbox |-> <<0, 0, i, i>>, track_id |-> i]]]

Alert(n) == [
  camera_id |-> "cam", zone_id |-> "zone", person_id |-> n, timestamp |-> Time(n, n # 1),
  outcome |-> "violation", rule_name |-> "handwash", group_id |-> n]

Frame(n) == [
  camera_id |-> "cam", frame_id |-> n, captured_at |-> Time(n, n # 1),
  received_at |-> Time(n, TRUE), topic |-> "frames", correlation_id |-> "id",
  session_id |-> "session", source_fps |-> 25]

MCTopics == {"frames", "detections", "alerts", "evidence"}
MCOffered == [frames     |-> <<Frame(1)>>,
              detections |-> <<Detections(1), Detections(2), Detections(3)>>,
              alerts     |-> <<Alert(1)>>,
              evidence   |-> <<Evidence(1), Evidence(2), Evidence(3)>>]
=============================================================================
