--------------------------- MODULE PolicyValidation ---------------------------
(***************************************************************************)
(* Policy.validate and its helpers: what unmarshalPolicy accepts, and the  *)
(* ambiguous user names SetPolicy refuses. Every check runs, errors are    *)
(* collected, and one error rejects the policy, so that the order of the   *)
(* checks does not matter. Ports, protocols, environment patterns and      *)
(* address pools are not part of the model.                                *)
(***************************************************************************)
EXTENDS PolicySSH

Kind(a, kinds) == a.k \in kinds

(* Hosts.exist, Groups.Contains and TagOwners.Contains.                     *)
Defined(pol, a) ==
  CASE a.k = "host"  -> a.v \in DOMAIN pol.hosts
    [] a.k = "group" -> a.v \in DOMAIN pol.groups
    [] a.k = "tag"   -> a.v \in DOMAIN pol.tagOwners
    [] OTHER         -> TRUE

autogroupForSrc == {"member", "tagged", "danger-all"}
autogroupForDst == {"internet", "member", "tagged", "self"}
autogroupForSSHSrc == {"member", "tagged"}
autogroupForSSHDst == {"member", "tagged", "self"}
autogroupForNodeAttrs == {"member", "tagged"}

AutoGroupAmong(a, allowed) == a.k = "auto" => a.v \in allowed

ValidSource(pol, a) == Defined(pol, a) /\ AutoGroupAmong(a, autogroupForSrc)

ValidDestination(pol, a) == Defined(pol, a) /\ AutoGroupAmong(a, autogroupForDst)

(* autogroup:self needs sources that are people; an ACL may also say "*".   *)
validateACLSrcDstCombination(srcs, dsts) ==
  Self \in dsts => \A a \in srcs : Kind(a, {"user", "group", "star"}) \/ a = AutoGroup("member")

validateGrantSrcDstCombination(srcs, dsts) ==
  Self \in dsts => \A a \in srcs : Kind(a, {"user", "group"}) \/ a = AutoGroup("member")

validateACL(pol, acl) ==
  LET dsts == {acl.dsts[i] : i \in DOMAIN acl.dsts}
  IN /\ \A a \in acl.srcs : ValidSource(pol, a)
     /\ \A a \in dsts : ValidDestination(pol, a)
     /\ validateACLSrcDstCombination(acl.srcs, dsts)

tailscaleCapAllowlist == {"drive", "relay", "webui", "kubernetes", "tsidp"}

validateGrant_NoVia(pol, grant) ==
  /\ grant.ip \/ grant.app # {}
  /\ grant.app \subseteq tailscaleCapAllowlist
  /\ grant.app # {} => Internet \notin grant.dsts
  /\ \A a \in grant.dsts : a.k = "prefix" => ~IsExitRoute(a.v)
  /\ \A a \in grant.srcs : ValidSource(pol, a)
  /\ \A a \in grant.dsts : ValidDestination(pol, a)
  /\ validateGrantSrcDstCombination(grant.srcs, grant.dsts)

validateGrant(pol, grant) ==
  /\ grant.ip \/ grant.app # {}
  /\ grant.app \subseteq tailscaleCapAllowlist
  /\ grant.app # {} => Internet \notin grant.dsts
  /\ \A a \in grant.dsts : a.k = "prefix" => ~IsExitRoute(a.v)
  /\ \A a \in grant.srcs : ValidSource(pol, a)
  /\ \A a \in grant.dsts : ValidDestination(pol, a)
  /\ grant.via \subseteq DOMAIN pol.tagOwners
  /\ validateGrantSrcDstCombination(grant.srcs, grant.dsts)

(* Tags never reach a person's devices over SSH, and a user name as         *)
(* destination admits only that same user.                                  *)
validateSSHSrcDstCombination(srcs, dsts) ==
  LET tagged == \E a \in srcs : a.k = "tag" \/ a = AutoGroup("tagged")
      groups == \E a \in srcs : a.k = "group" \/ a = AutoGroup("member")
      users == {a \in srcs : a.k = "user"}
  IN \A d \in dsts :
       /\ d.k = "user" => ~tagged /\ ~groups /\ users = {d}
       /\ d \in {Self, AutoGroup("member")} => ~tagged

(* With the source and destination kinds the parser admits.                 *)
validateSSH(pol, rule) ==
  /\ rule.action \in {"accept", "check"}
  /\ rule.users # {} /\ rule.users \cap {"", "*"} = {}
  /\ \A a \in rule.srcs : /\ Kind(a, {"user", "group", "tag", "auto"})
                          /\ Defined(pol, a) /\ AutoGroupAmong(a, autogroupForSSHSrc)
  /\ \A a \in rule.dsts : /\ Kind(a, {"user", "tag", "auto"})
                          /\ Defined(pol, a) /\ AutoGroupAmong(a, autogroupForSSHDst)
  /\ validateSSHSrcDstCombination(rule.srcs, rule.dsts)
  /\ rule.period # "default" => rule.action = "check"

validateNodeAttr(pol, na) ==
  \A a \in na.targets : Defined(pol, a) /\ AutoGroupAmong(a, autogroupForNodeAttrs)

(* One host: an address written bare, or an alias of one address.           *)
NotWide(pol, d) ==
  /\ d.k = "prefix" => Cardinality(PointsOf[d.v]) = 1
  /\ d.k = "host" /\ Defined(pol, d) => Cardinality(PointsOf[pol.hosts[d.v]]) = 1

validateTests(pol) ==
  \A t \in pol.tests :
    /\ t.accept \cup t.deny # {}
    /\ \A d \in t.accept \cup t.deny : d # Internet /\ NotWide(pol, d)

validateSSHTests(pol) ==
  \A t \in pol.sshTests :
    /\ t.dsts # {}
    /\ \A d \in t.dsts : d # Internet /\ NotWide(pol, d) /\ (d.k = "tag" => Defined(pol, d))

Owners(pol) == UNION {pol.tagOwners[t] : t \in DOMAIN pol.tagOwners}

Approvers(pol) == UNION {pol.autoRoutes[p] : p \in DOMAIN pol.autoRoutes} \cup pol.autoExit

validate(pol) ==
  /\ \A i \in DOMAIN pol.acls : validateACL(pol, pol.acls[i])
  /\ \A i \in DOMAIN pol.ssh : validateSSH(pol, pol.ssh[i])
  /\ \A i \in DOMAIN pol.grants : validateGrant(pol, pol.grants[i])
  /\ \A na \in pol.nodeAttrs : validateNodeAttr(pol, na)
  /\ \A a \in Owners(pol) \cup Approvers(pol) : Defined(pol, a)
  /\ ~UndefinedTagReference(pol)
  /\ validateTests(pol)
  /\ validateSSHTests(pol)

(* The user names validateUserReferences looks at: not those of grants nor  *)
(* of node attributes.                                                      *)
CheckedUsernames(pol) ==
  LET aliases == UNION {pol.acls[i].srcs : i \in DOMAIN pol.acls}
                 \cup UNION {{pol.acls[i].dsts[j] : j \in DOMAIN pol.acls[i].dsts} : i \in DOMAIN pol.acls}
                 \cup UNION {pol.ssh[i].srcs \cup pol.ssh[i].dsts : i \in DOMAIN pol.ssh}
                 \cup Owners(pol) \cup Approvers(pol)
  IN UNION {pol.groups[g] : g \in DOMAIN pol.groups} \cup {a.v : a \in {b \in aliases : b.k = "user"}}

(* An ambiguous name is an error, an unknown one is not.                    *)
validateUserReferences(pol, users) ==
  \A name \in CheckedUsernames(pol) : Cardinality(resolveUser(users, name)) <= 1

=============================================================================
