---------------------------- MODULE ObservedMap ----------------------------
(***************************************************************************)
(* How the Python sidecar keeps the robot's map on screen                  *)
(* (rerun_sidecar.py).  The consumer's thread polls the map's metadata     *)
(* (_refresh_map), downloads the image when the metadata has changed, and  *)
(* hands both to ObservedNavigation.update_map; a request of the control   *)
(* API for the metadata asks the robot itself and hands what it got to the *)
(* same update_map, without an image.  update_map compares and stores      *)
(* under a lock but sends to the Rerun worker after releasing it.          *)
(*                                                                         *)
(* A map is a number; the robot is not part of the repository.             *)
(***************************************************************************)
EXTENDS Naturals, FiniteSets

CONSTANTS Maps,          \* the maps a robot may load: 1, 2, ...
          Drawn,         \* those whose metadata has an image_path
          MapsReturn,    \* whether a robot loads an earlier map again
          Requests,      \* requests of GET /viz/api/map/metadata
          MaxFailures    \* bound on HTTP requests to the robot that fail

NoMap == 0

(* What the theorems assume of the constants. *)
MapAssumption ==
    /\ Maps \subseteq Nat \ {NoMap} /\ 1 \in Maps /\ Drawn \subseteq Maps
    /\ MapsReturn \in BOOLEAN /\ MaxFailures \in Nat

VARIABLES
    server,     \* external: the map the robot has loaded, HTTP failures
    poll,       \* the consumer's thread inside _refresh_map
    signature,  \* WebVizConsumer._map_signature
    observed,   \* ObservedNavigation._map_metadata
    api,        \* per request, how far it is
    shown,      \* the last map sent to the Rerun worker
    late        \* history: the last map was sent out of order

mapVars == <<server, poll, signature, observed, api, shown, late>>

(* A map as the Rerun worker draws it: the image may be missing, or be of  *)
(* another map when the robot changed its map between the two downloads.   *)
Picture == [map : Maps \cup {NoMap}, image : Maps \cup {NoMap}]

Complete(p) == p.map \notin Drawn \/ p.image # NoMap

MapTypeOK ==
    /\ server \in [map : Maps, failures : 0..MaxFailures]
    /\ poll \in [at : {"idle", "image", "update", "send"}, pic : Picture]
    /\ poll.at # "idle" => poll.pic.map \notin {NoMap, signature}
    /\ signature \in Maps \cup {NoMap}
    /\ observed \in Maps \cup {NoMap}
    /\ api \in [Requests -> [at : {"new", "update", "send", "done"},
                             map : Maps \cup {NoMap}]]
    /\ shown \in Picture
    /\ late \in BOOLEAN

MapInit ==
    /\ server = [map |-> 1, failures |-> 0]
    /\ poll = [at |-> "idle", pic |-> [map |-> NoMap, image |-> NoMap]]
    /\ signature = NoMap /\ observed = NoMap
    /\ api = [r \in Requests |-> [at |-> "new", map |-> NoMap]]
    /\ shown = [map |-> NoMap, image |-> NoMap]
    /\ late = FALSE

----------------------------------------------------------------------------
(* The robot                                                               *)

LoadMap ==
    /\ \E m \in Maps \ {server.map} :
        /\ MapsReturn \/ m > server.map
        /\ server' = [server EXCEPT !.map = m]
    /\ UNCHANGED <<poll, signature, observed, api, shown, late>>

Fails ==
    /\ server.failures < MaxFailures
    /\ server' = [server EXCEPT !.failures = @ + 1]

----------------------------------------------------------------------------
(* ObservedNavigation.update_map                                           *)

(* The metadata is known already and there is no image: nothing to do. *)
Accepts(p) == ~ (p.map = observed /\ p.image = NoMap)

----------------------------------------------------------------------------
(* WebVizConsumer._refresh_map                                             *)

Goes(at, p) == poll' = [at |-> at, pic |-> p]
Rests == Goes("idle", [map |-> NoMap, image |-> NoMap])

Unchanged == server.map = signature

PollUnchanged ==
    /\ poll.at = "idle"
    /\ Unchanged
    /\ UNCHANGED mapVars

PollMetadata ==
    /\ poll.at = "idle"
    /\ ~Unchanged
    /\ Goes(IF server.map \in Drawn THEN "image" ELSE "update",
            [map |-> server.map, image |-> NoMap])
    /\ UNCHANGED <<server, signature, observed, api, shown, late>>

PollFails ==
    /\ poll.at = "idle"
    /\ Fails
    /\ UNCHANGED <<poll, signature, observed, api, shown, late>>

(* GET /viz/api/map/image names no map: the robot answers with the one it  *)
(* has by then.                                                            *)
GetImage ==
    /\ poll.at = "image"
    /\ server.map \in Drawn
    /\ Goes("update", [poll.pic EXCEPT !.image = server.map])
    /\ UNCHANGED <<server, signature, observed, api, shown, late>>

(* The download fails, or the robot's map has no image any more. *)
ImageFails ==
    /\ poll.at = "image"
    /\ IF server.map \in Drawn THEN Fails ELSE UNCHANGED server
    /\ Goes("update", poll.pic)
    /\ UNCHANGED <<signature, observed, api, shown, late>>

(* What the signature becomes after p was published: a map without the     *)
(* image it should have is not remembered.                                 *)
Remembered(p) == IF Complete(p) THEN p.map ELSE signature

(* update_map, under the lock; not accepted, the poll ends here. *)
PollUpdate ==
    /\ poll.at = "update"
    /\ IF Accepts(poll.pic)
       THEN /\ observed' = poll.pic.map
            /\ poll' = [poll EXCEPT !.at = "send"]
            /\ UNCHANGED signature
       ELSE /\ signature' = Remembered(poll.pic)
            /\ Rests
            /\ UNCHANGED observed
    /\ UNCHANGED <<server, api, shown, late>>

PollSend ==
    /\ poll.at = "send"
    /\ shown' = poll.pic
    /\ signature' = Remembered(poll.pic)
    /\ late' = (poll.pic.map # observed)
    /\ Rests
    /\ UNCHANGED <<server, observed, api>>

----------------------------------------------------------------------------
(* GET /viz/api/map/metadata of the control API, in a thread of its pool   *)

ApiGet(r) ==
    /\ api[r].at = "new"
    /\ api' = [api EXCEPT ![r] = [at |-> "update", map |-> server.map]]
    /\ UNCHANGED <<server, poll, signature, observed, shown, late>>

ApiFails(r) ==
    /\ api[r].at = "new"
    /\ Fails
    /\ api' = [api EXCEPT ![r].at = "done"]
    /\ UNCHANGED <<poll, signature, observed, shown, late>>

ApiPicture(r) == [map |-> api[r].map, image |-> NoMap]

ApiUpdate(r) ==
    /\ api[r].at = "update"
    /\ IF Accepts(ApiPicture(r))
       THEN /\ observed' = api[r].map
            /\ api' = [api EXCEPT ![r].at = "send"]
       ELSE /\ api' = [api EXCEPT ![r].at = "done"]
            /\ UNCHANGED observed
    /\ UNCHANGED <<server, poll, signature, shown, late>>

(* The request may have been overtaken since it asked, or since it stored  *)
(* the map: what it sends is late when the consumer has fetched that map   *)
(* or when update_map has stored another one.                              *)
ApiSend(r) ==
    /\ api[r].at = "send"
    /\ shown' = ApiPicture(r)
    /\ late' = (late \/ api[r].map # observed \/ api[r].map <= signature)
    /\ api' = [api EXCEPT ![r].at = "done"]
    /\ UNCHANGED <<server, poll, signature, observed>>

----------------------------------------------------------------------------

PollStep == PollMetadata \/ GetImage \/ PollUpdate \/ PollSend
PollTrouble == PollFails \/ ImageFails
ApiStep(r) == ApiUpdate(r) \/ ApiSend(r)

MapNext ==
    \/ LoadMap
    \/ PollUnchanged \/ PollStep \/ PollTrouble
    \/ \E r \in Requests : ApiGet(r) \/ ApiFails(r) \/ ApiStep(r)

(* The consumer polls for as long as it is connected, and a request that   *)
(* has its answer runs to its end.  A download may fail: it is fair to one *)
(* of its two ends.                                                        *)
Fairness ==
    /\ WF_mapVars(PollStep \/ ImageFails)
    /\ \A r \in Requests : WF_mapVars(ApiStep(r))

MapSpec == MapInit /\ [][MapNext]_mapVars /\ Fairness

----------------------------------------------------------------------------
(* Properties                                                              *)

(* While a map is on screen without its image, the consumer has not filed  *)
(* that map as fetched, so a poll that finds the robot still on it asks    *)
(* for the image again; only a map sent out of order can stay half drawn.  *)
(* Code: _refresh_map returns before it stores _map_signature.             *)
PartialIsRetried ==
    (poll.at = "idle" /\ ~Complete(shown) /\ ~late) => signature # shown.map

Torn(p) == p.image \notin {NoMap, p.map}

(* A request that is about to send map m. *)
Announces(m) == \E r \in Requests : api[r] = [at |-> "send", map |-> m]

(* A map drawn with another map's image, because the robot changed its map *)
(* between the two downloads, is not taken for the one the robot has now:  *)
(* the next poll fetches that one, or a request of the control API has     *)
(* stored it and is about to send it.  Only a map sent out of order can    *)
(* stay torn.  The robot must not go back to an earlier map.               *)
(* Code: _refresh_map takes the metadata before the image; update_map.     *)
TornIsReplaced ==
    (poll.at = "idle" /\ Torn(shown) /\ ~late) => ~Unchanged \/ Announces(server.map)

(* Once the robot stays on one map it is drawn in the end, with its image, *)
(* whatever failed and whatever order the two threads published in --      *)
(* unless the last map was sent out of order, which update_map allows      *)
(* because it sends after it has released its lock.                        *)
(* Code: WebVizConsumer._refresh_map and update_map.                       *)
MapCatchesUp ==
    <>[](late \/ (shown.map = server.map /\ shown.image \in {NoMap, server.map}
                  /\ Complete(shown)))
============================================================================
