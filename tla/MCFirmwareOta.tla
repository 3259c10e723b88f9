---------------------------- MODULE MCFirmwareOta ----------------------------
(* Two addresses and two origins, four units; configurations for two of    *)
(* them that deny another unit's origin, another address, or the target.   *)
EXTENDS FirmwareOta

CONSTANTS a1, a2, o1, o2

MCConfigs ==
    {[target |-> [ip |-> a1, origin |-> o1], denyIps |-> {}, denyOrigins |-> {o2}],
     [target |-> [ip |-> a2, origin |-> o2], denyIps |-> {a1}, denyOrigins |-> {}],
     [target |-> [ip |-> a1, origin |-> o1], denyIps |-> {}, denyOrigins |-> {o1}]}
=============================================================================
