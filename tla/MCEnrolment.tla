------------------------------ MODULE MCEnrolment ------------------------------
(* Enrolment on small networks.  Machine m1 has node keys "a", "b"; m2 has  *)
(* "c".  Key 1 is user 1's one-shot key, key 2 a one-shot ephemeral key of  *)
(* tag t, key 3 a spent key of tag u.                                       *)
EXTENDS Enrolment, TLC

\* Bounds of the requests: one of each kind that can meet another.
pak(m, nk, k) == [op |-> "pak", m |-> m, nk |-> nk, key |-> k, expiry |-> 0, tags |-> {}, announced |-> {}]
auth(m, nk, u, tags) == [op |-> "auth", m |-> m, nk |-> nk, user |-> u, expiry |-> 2, tags |-> tags,
                         announced |-> {"r"}]

MCKeyOf == 1 :> [user |-> 1, tags |-> {}, reusable |-> FALSE, ephemeral |-> FALSE]
        @@ 2 :> [user |-> 0, tags |-> {"t"}, reusable |-> FALSE, ephemeral |-> TRUE]
        @@ 3 :> [user |-> 0, tags |-> {"u"}, reusable |-> FALSE, ephemeral |-> FALSE]

MCTagOwners == "t" :> {1} @@ "u" :> {2}

node(m, nk, user, tags, ak, a) ==
  [mk |-> m, nk |-> nk, user |-> user, tags |-> tags, expiry |-> 0, ak |-> ak, announced |-> {},
   approved |-> {}, ip4 |-> a, ip6 |-> a]

\* m2's node joined with the ephemeral tagged key; it has no IPv6 address yet.
MCInitRows == 1 :> [node("m2", "c", 0, {"t"}, 2, 2) EXCEPT !.ip6 = 0]

MCInitKeys == 1 :> [exists |-> TRUE, used |-> FALSE, expired |-> FALSE]
           @@ 2 :> [exists |-> TRUE, used |-> TRUE, expired |-> FALSE]
           @@ 3 :> [exists |-> TRUE, used |-> TRUE, expired |-> FALSE]

MCRequests ==
  {pak("m1", "a", 1), pak("m1", "b", 1), pak("m2", "c", 1), pak("m2", "c", 2), pak("m2", "c", 3),
   auth("m1", "a", 1, {}), auth("m1", "a", 1, {"t"}), auth("m1", "b", 2, {"u"}), auth("m2", "c", 1, {}),
   [op |-> "logout", m |-> "m1", nk |-> "a"], [op |-> "logout", m |-> "m2", nk |-> "c"],
   [op |-> "expire", id |-> 2, expiry |-> 2],
   [op |-> "tags", id |-> 2, tags |-> {"t"}], [op |-> "routes", id |-> 1, approved |-> {"r"}],
   [op |-> "map", id |-> 1, announced |-> {"r"}],
   [op |-> "delete", id |-> 1], [op |-> "backfill"],
   [op |-> "expireKey", key |-> 1], [op |-> "delKey", key |-> 1], [op |-> "delUser", user |-> 1]}

Symmetry == Permutations(Callers)
================================================================================
