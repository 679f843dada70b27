-------------------------- MODULE MCCampaignFunnel --------------------------
(* CampaignFunnel for TLC: an ad tree with a name used twice, a second       *)
(* campaign, a QR campaign without an entity, and the rows that may arrive.  *)
EXTENDS CampaignFunnel

CONSTANTS u1, u2, s1, s2, n1, n2, meta, google, qr

Entity(channel, ext, parent, name) ==
    [channel |-> channel, ext |-> ext, parent |-> parent, name |-> name]
Ad == Entity(meta, 3, 2, 12)
Other == Entity(google, 4, NotSet, 14)
MCEntities == {Entity(meta, 1, NotSet, 11), Entity(meta, 2, 1, 12), Ad, Other}
MCFacts == {[entity |-> Ad, day |-> 1, spend |-> 5], [entity |-> Other, day |-> 2, spend |-> 3]}

Touch(s, u, type, campaign, channel, medium, at) ==
    [session |-> s, user |-> u, type |-> type, campaign |-> campaign, channel |-> channel,
     medium |-> medium, nonce |-> NotSet, click |-> NotSet, at |-> at]
Install(s, u, nonce, click, at) ==
    [Touch(s, u, "touch", 1, meta, NotSet, at) EXCEPT !.nonce = nonce, !.click = click]

MCTouches ==
    {Touch(s1, NotSet, "first_party_click", 12, meta, NotSet, 2),
     Touch(s1, NotSet, "first_party_click", 21, NotSet, qr, 3),
     Touch(s2, NotSet, "first_party_click", 21, NotSet, qr, 4),
     Touch(s2, u1, "touch", 4, google, NotSet, 4),
     Touch(s1, NotSet, "lead", 14, google, NotSet, 1),
     Install(s1, NotSet, n1, NotSet, 3), Install(s2, u1, n1, 9, 4), Install(s1, NotSet, n2, 2, 4)}

Event(name, s, u, at) == [name |-> name, session |-> s, user |-> u, at |-> at]
MCEvents == {Event("el_first_open", s1, u1, 3), Event("el_first_open", NotSet, u1, 5),
             Event("el_first_open", s1, NotSet, 5), Event("el_signup", s1, NotSet, 3)}

Order(s, u, value, at) == [session |-> s, user |-> u, value |-> value, at |-> at]
MCOrders == {Order(NotSet, u1, 1, 3), Order(s1, NotSet, 2, 3), Order(s1, NotSet, 2, 5)}

MCLinks == {<<s1, u1>>, <<s1, u2>>, <<s2, u1>>}

Ask(campaign, channel, medium) == [campaign |-> campaign, channel |-> channel, medium |-> medium]
MCFilters == {NoFilter, Ask(11, NotSet, NotSet), Ask(21, NotSet, NotSet),
              Ask(NotSet, meta, NotSet), Ask(NotSet, NotSet, qr)}
=============================================================================
