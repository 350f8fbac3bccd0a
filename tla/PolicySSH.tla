------------------------------ MODULE PolicySSH -------------------------------
(***************************************************************************)
(* SSH rules and policy tests of hscontrol/policy/v2: the compiled SSH     *)
(* policy of a node, the check period the server looks up when a client    *)
(* calls back, the tests and sshTests blocks evaluated on a policy write.  *)
(*                                                                         *)
(* An SSH rule of a policy is [action, srcs, dsts, users, period]; users   *)
(* holds login names, "root", "nonroot" for autogroup:nonroot and          *)
(* "localpart" for localpart:*@<domain>. A user's local is the part of its *)
(* e-mail address before the @, and "" without an address; all addresses   *)
(* are of the one domain the rules name.                                   *)
(***************************************************************************)
EXTENDS PolicyLang

LOCAL INSTANCE SequencesExt

(* The SSHUsers map of a compiled rule, as the logins it maps to themselves *)
(* ("*" covers every login but root).                                       *)
baseUserMap(users) ==
  (users \ {"nonroot", "localpart"}) \cup (IF "nonroot" \in users THEN {"*"} ELSE {})

sshUserMapAllows(logins, login) ==
  /\ login # ""
  /\ login \in logins \/ (login # "root" /\ "*" \in logins)

(* groupSourcesByUser: the addresses of the source nodes of one user, and   *)
(* those of the tagged source nodes.                                        *)
principalsByUser(w, srcs, u) ==
  AddrsOf(w, LAMBDA m : ~IsTagged(m) /\ m.user = u /\ Overlaps(m.addrs, srcs))

taggedPrincipals(w, srcs) == AddrsOf(w, LAMBDA m : IsTagged(m) /\ Overlaps(m.addrs, srcs))

resolveLocalparts(w) == [u \in {v \in DOMAIN w.users : w.users[v].local # ""} |-> w.users[u].local]

(* The common rule and, for a user with a local part, a rule for that login *)
(* only.                                                                    *)
appendRules(w, rule, principals, uid) ==
  LET compiled(logins) == [principals |-> principals, logins |-> logins, action |-> rule.action]
      locals == IF "localpart" \in rule.users THEN resolveLocalparts(w) ELSE <<>>
  IN <<compiled(baseUserMap(rule.users))>>
       \o (IF uid \in DOMAIN locals THEN <<compiled({locals[uid]})>> ELSE <<>>)

(* What one rule contributes to the SSH policy of node n.                   *)
compileSSHRule(w, n, rule) ==
  LET srcs == ResolveAll(w, rule.srcs)
      ofUser(u) == principalsByUser(w, srcs, u)
      tagged == taggedPrincipals(w, srcs)
      userIDs == SetToSortSeq({u \in DOMAIN w.users : ofUser(u) # {}}, <)
      others == rule.dsts \ {Self}
      hasLocalpart == "localpart" \in rule.users
      ownRules == IF ~IsTagged(n) /\ ofUser(n.user) # {}
                  THEN appendRules(w, rule, ofUser(n.user), n.user) ELSE <<>>
      all == tagged \cup UNION {ofUser(u) : u \in DOMAIN w.users}
      asDestination ==
        IF hasLocalpart
        THEN FlattenSeq([i \in DOMAIN userIDs |-> appendRules(w, rule, ofUser(userIDs[i]), userIDs[i])])
               \o (IF tagged # {} THEN appendRules(w, rule, tagged, 0) ELSE <<>>)
        ELSE IF all # {} THEN appendRules(w, rule, all, 0) ELSE <<>>
      asSource == IF IsTagged(n) THEN appendRules(w, rule, n.addrs, 0) ELSE ownRules
  IN IF srcs = {} THEN <<>>
     ELSE (IF Self \in rule.dsts THEN ownRules ELSE <<>>)
          \o CASE others = {} -> <<>>
               [] others # {} /\ Overlaps(n.addrs, ResolveAll(w, others)) -> asDestination
               [] OTHER -> IF hasLocalpart /\ Overlaps(n.addrs, srcs) THEN asSource ELSE <<>>

(* Check rules are put before accept rules, otherwise in policy order.      *)
compileSSHPolicy(w, n) ==
  LET rules == FlattenSeq([i \in DOMAIN w.pol.ssh |-> compileSSHRule(w, n, w.pol.ssh[i])])
  IN SelectSeq(rules, LAMBDA r : r.action = "check")
       \o SelectSeq(rules, LAMBDA r : r.action # "check")

SSHCheckMatches(w, rule, src, dst) ==
  /\ rule.action = "check"
  /\ ~AnyResolveFails(w, rule.srcs)
  /\ Overlaps(src.addrs, ResolveAll(w, rule.srcs))
  /\ \/ Self \in rule.dsts /\ ~IsTagged(src) /\ ~IsTagged(dst) /\ src.user = dst.user
     \/ \E d \in rule.dsts : ~ResolveFails(w, d) /\ Overlaps(dst.addrs, UNION Resolve(w, d))

(* The check period of the first rule that matches, in a set; {} for none.  *)
SSHCheckParams(w, s, d) ==
  LET hits == {i \in DOMAIN w.pol.ssh :
                 SSHCheckMatches(w, w.pol.ssh[i], w.nodes[s], w.nodes[d])}
  IN IF {s, d} \subseteq DOMAIN w.nodes /\ hits # {}
     THEN {w.pol.ssh[CHOOSE i \in hits : \A j \in hits : i <= j].period}
     ELSE {}

-----------------------------------------------------------------------------
(* Policy tests: pol.tests is a set of [src, accept, deny], evaluated on    *)
(* the global filter.                                                       *)

TestResolves(w, a) == ~ResolveFails(w, a) /\ UNION Resolve(w, a) # {}

srcReachesDst(filter, src, dst) ==
  \E r \in filter : r.caps = {} /\ Overlaps(r.srcs, src) /\ Overlaps(UNION r.dsts, dst)

(* Every source prefix must reach some prefix of the destination.           *)
evalReachability(w, filter, src, dst) ==
  \A s \in Resolve(w, src) : srcReachesDst(filter, s, UNION Resolve(w, dst))

runPolicyTest(w, filter, t) ==
  /\ TestResolves(w, t.src)
  /\ \A d \in t.accept : TestResolves(w, d) /\ evalReachability(w, filter, t.src, d)
  /\ \A d \in t.deny : TestResolves(w, d) /\ ~evalReachability(w, filter, t.src, d)

evaluateTests(w) == \A t \in w.pol.tests : runPolicyTest(w, compileFilterRules(w), t)

(* SSH tests: pol.sshTests is a set of [src, dsts, accept, deny, check],    *)
(* evaluated on the compiled SSH policy of every destination node.          *)

sshReachability(rules, addr, login) ==
  {rules[i].action : i \in {j \in DOMAIN rules : /\ addr \in rules[j].principals
                                                /\ sshUserMapAllows(rules[j].logins, login)}}

resolveSSHTestDestNodes(w, src, d) ==
  LET uid == IF src.k = "user" /\ UserFound(w.users, src.v) THEN resolveUser(w.users, src.v) ELSE {}
  IN {n \in {w.nodes[i] : i \in DOMAIN w.nodes} :
        IF d = Self THEN ~IsTagged(n) /\ n.user \in uid
        ELSE Overlaps(n.addrs, UNION Resolve(w, d))}

runSSHPolicyTest(w, t) ==
  LET addrs == UNION Resolve(w, t.src)
      dstNodes == UNION {resolveSSHTestDestNodes(w, t.src, d) : d \in t.dsts}
      hits(n, addr, login) == sshReachability(compileSSHPolicy(w, n), addr, login)
  IN /\ TestResolves(w, t.src)
     /\ t.accept \cup t.deny \cup t.check # {}
     /\ \A d \in t.dsts : /\ d = Self \/ ~ResolveFails(w, d)
                          /\ resolveSSHTestDestNodes(w, t.src, d) # {}
     /\ \A n \in dstNodes : \A addr \in addrs :
          /\ \A login \in t.accept : hits(n, addr, login) # {}
          /\ \A login \in t.deny : hits(n, addr, login) = {}
          /\ \A login \in t.check : "check" \in hits(n, addr, login)

evaluateSSHTests(w) == \A t \in w.pol.sshTests : runSSHPolicyTest(w, t)

=============================================================================
