------------------------------- MODULE MCAuth -------------------------------
(***************************************************************************)
(* Instances of AuthFlow for TLC.  A behaviour is about two devices and an *)
(* administrator, about one device whose answer may be lost, about one      *)
(* device and two browsers, about an SSH connection and its owner's         *)
(* browser, or about SSH checks and policies.                               *)
(***************************************************************************)
EXTENDS AuthFlow

CONSTANTS m1, m2, u1, u2, u3, b1, b2, n1, n2, w1, h1, h2

mcOwner == [n \in {n1, n2} |-> IF n = n1 THEN u1 ELSE NoUser]

\* u1's token says it all, u2's is completed by the userinfo endpoint, u3's
\* email is not verified.
mail(d, u) == [domain |-> d, user |-> u]

mcClaims == [u \in {u1, u2, u3} |->
  [sub |-> u, email |-> IF u = u2 THEN None ELSE mail("d1", u), verified |-> u = u1,
   groups |-> {"g1"}]]

mcUserInfo == [u \in {u1, u2, u3} |->
  IF u = u2 THEN [sub |-> u2, email |-> mail("d1", u2), verified |-> TRUE, groups |-> {}]
  ELSE None]

mcOIDCConfig == [domains |-> {"d1"}, groups |-> {"g1"}, emails |-> {}, verifiedRequired |-> TRUE]

mcAccounts == [b \in {b1, b2} |-> IF b = b1 THEN {u1} ELSE {u2, u3}]

mcPairs == {<<n1, n2>>}

devices == [machines |-> {m1, m2}, pairs |-> {}, users |-> {u1}, admin |-> TRUE,
            slots |-> {w1}, handlers |-> {h1}, routes |-> {TRUE},
            sessions |-> 2, logins |-> 0, faults |-> 0, policies |-> 0]

lossy == [devices EXCEPT !.machines = {m1}, !.faults = 1]

browsers == [machines |-> {m1}, pairs |-> {}, users |-> {}, admin |-> FALSE,
             slots |-> {}, handlers |-> {h1, h2}, routes |-> {TRUE},
             sessions |-> 1, logins |-> 2, faults |-> 0, policies |-> 0]

owners == [machines |-> {}, pairs |-> mcPairs, users |-> {u1}, admin |-> TRUE,
           slots |-> {w1}, handlers |-> {h1}, routes |-> BOOLEAN,
           sessions |-> 1, logins |-> 1, faults |-> 0, policies |-> 0]

checks == [machines |-> {}, pairs |-> mcPairs, users |-> {}, admin |-> TRUE,
           slots |-> {w1}, handlers |-> {h1}, routes |-> BOOLEAN,
           sessions |-> 2, logins |-> 0, faults |-> 0, policies |-> 1]

mcScopes == {devices, lossy, browsers, owners, checks}
mcChecks == {checks}
=============================================================================
