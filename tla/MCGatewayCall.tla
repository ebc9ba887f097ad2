----------------------------- MODULE MCGatewayCall -----------------------------
(***************************************************************************)
(* A small instance of GatewayCall for TLC.                                *)
(***************************************************************************)
EXTENDS GatewayCall, TLC

CONSTANTS one, two
MCSymmetry == Permutations(Slots)

Signed(who, time, nonce, sound) == [who |-> who, time |-> time, nonce |-> nonce, sound |-> sound]
Request(bearer, assertion, tool) == [bearer |-> bearer, assertion |-> assertion, tool |-> tool]

MCRequests == {
    Request("ann", None, "set_engagement"),
    Request("ann", None, "raw"),
    Request("bad", Signed("bob", 1, 1, TRUE), "raw"),
    Request(None, Signed("bob", 2, 1, TRUE), "search"),
    Request(None, Signed("ann", 0, 2, TRUE), "search"),
    Request(None, Signed("bob", 1, 3, FALSE), "search"),
    Request("cal", None, "search"),
    Request(None, None, "search")}
MCGroupsOf   == [ann |-> {"soc", "it"}, bob |-> {"it"}, cal |-> {"new"}]
MCToolPolicy == [soc |-> {AllTools}, it |-> {"search"}, new |-> {"search"}]
MCHidden     == [unset |-> {"raw"}, operations |-> {"raw"}, hunt |-> {}]
MCProfiles   == [soc |-> [priority |-> 2, rank |-> 2, key |-> "k1"],
                 it  |-> [priority |-> 1, rank |-> 1, key |-> "k2"],
                 new |-> [priority |-> 1, rank |-> 3, key |-> None]]
===============================================================================
