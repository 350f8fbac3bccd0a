------------------------------- MODULE MCNetmap -------------------------------
(* Instances of Netmap for TLC. Node 1 is a user's laptop, node 2 a second   *)
(* machine of the same user that serves a subnet node 1 would serve too,     *)
(* node 3 a tagged exit node that announces the subnet as well. Nodes 1 and  *)
(* 3 have a map session.                                                    *)
EXTENDS Netmap, TLC

CONSTANTS c1, c2, lan, exit

Net(d) == [derp |-> d, link |-> "wifi"]

N(user, tagged, label, online) ==
  [user |-> user, tagged |-> tagged, addr |-> label, announced |-> {}, approved |-> {}, online |-> online,
   unhealthy |-> FALSE, sessions |-> IF online THEN 1 ELSE 0, name |-> [base |-> label, bumps |-> <<>>],
   host |-> label, key |-> "k1", disco |-> "d1", eps |-> {"lan"}, expiry |-> "never",
   hi |-> [host |-> label, os |-> "a", misc |-> "a", net |-> Net(1)]]

McNodes ==
  (1 :> [N(1, FALSE, "x", TRUE) EXCEPT !.announced = {lan}])
  @@ (2 :> [N(1, FALSE, "y", TRUE) EXCEPT !.eps = {}, !.announced = {lan}, !.approved = {lan}])
  @@ (3 :> [N(0, TRUE, "z", TRUE) EXCEPT !.announced = {lan, exit}, !.approved = {exit}])

Hi(label) == [host |-> label, os |-> "a", misc |-> "a", net |-> Net(1), routes |-> {lan}]

Req(i, label) == [id |-> i, key |-> "k1", disco |-> "d1", eps |-> {}, stun |-> {}, hi |-> {Hi(label)}]

(* Endpoints, with and without STUN ones; the home region, moved, cleared,  *)
(* and not sent; a name, a field peers read and one they do not; a key;     *)
(* routes, to approve and to withdraw.                                      *)
McMapRequests ==
  LET y == Req(2, "y")
  IN {[y EXCEPT !.eps = {"stun"}, !.stun = {"stun"}, !.hi = {}],
      [y EXCEPT !.hi = {[Hi("y") EXCEPT !.net = Net(2), !.misc = "b"]}],
      [y EXCEPT !.hi = {[Hi("y") EXCEPT !.net = Net(0)]}],
      [y EXCEPT !.hi = {[Hi("y") EXCEPT !.net = NoNet, !.os = "b"]}],
      [y EXCEPT !.hi = {Hi("x")}],
      [y EXCEPT !.hi = {[Hi("y") EXCEPT !.routes = {}]}],
      [y EXCEPT !.disco = "d2", !.eps = {"lan", "stun"}, !.stun = {"stun"}],
      [Req(1, "x") EXCEPT !.hi = {[Hi("x") EXCEPT !.os = "b"]}],
      Req(3, "z"),
      [Req(3, "z") EXCEPT !.hi = {[Hi("z") EXCEPT !.routes = {}]}]}

Do(op, i, arg) == [op |-> op, id |-> i, arg |-> arg]

Tag == <<"tag:", "a">>

(* Everyone reaches everyone and the subnet; a person their own machines;   *)
(* the tagged nodes, and the subnet through them, with attributes; and the  *)
(* subnet both ways, with attributes for everyone.                          *)
McInitPolicy ==
  [see |-> "all", tags |-> {Tag}, auto |-> {lan}, attrs |-> [all |-> {}, tag |-> {}],
   relay |-> {}, routes |-> {lan, exit}, via |-> {}]

OwnPolicy == [McInitPolicy EXCEPT !.see = "own", !.auto = {}, !.relay = {"z"}, !.routes = {exit}]

ViaPolicy ==
  [McInitPolicy EXCEPT !.see = "tag", !.auto = {lan, exit}, !.routes = {exit}, !.via = {lan},
                       !.attrs.tag = {<<"nextdns", 0>>, <<"nextdns", 1>>, <<"nextdns", 2>>}]

BothPolicy == [McInitPolicy EXCEPT !.via = {lan}, !.attrs.all = {<<"nextdns", 2>>, <<"other", 1>>}]

McCommands ==
  {Do("approve", 3, {}), Do("approve", 3, {lan, exit}), Do("approve", 1, {lan}),
   Do("expiry", 1, [disable |-> FALSE, expiry |-> "none"]),
   Do("expiry", 2, [disable |-> FALSE, expiry |-> "past"]), Do("expiry", 2, [disable |-> TRUE, expiry |-> "none"]),
   Do("expiry", 2, [disable |-> TRUE, expiry |-> "past"]),
   Do("tags", 1, {Tag}), Do("tags", 1, {}), Do("tags", 2, {<<"tag:", "A">>, Tag}), Do("tags", 2, {Tag}),
   Do("rename", 2, [base |-> "w", bumps |-> <<>>]),
   Do("relogin", 2, [key |-> "k2", disco |-> "d2", hi |-> {}]),
   Do("delete", 2, {}), Do("delete", 3, {}), Do("connect", 2, {}), Do("disconnect", 2, {}), Do("disconnect", 3, {}),
   Do("reload", 0, OwnPolicy), Do("reload", 0, ViaPolicy), Do("reload", 0, BothPolicy),
   Do("user", 0, {}), Do("derp", 0, 2), Do("records", 0, 2)}
=============================================================================
