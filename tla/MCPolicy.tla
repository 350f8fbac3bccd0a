------------------------------- MODULE MCPolicy -------------------------------
(***************************************************************************)
(* Instances of PolicyManager: two people, a device of each, a tagged      *)
(* router and a router of the first person, one subnet, and policies with  *)
(* a global filter, with autogroup:self and a via grant, and with faults.  *)
(***************************************************************************)
EXTENDS PolicyManager

MCAddrs == {"a1", "a2", "a3", "a4"}

MCLans == {"lan"}

MCPointsOf == ("net" :> {"lan"}) @@ ("all" :> MCAddrs \cup MCLans \cup {"wan"})

Alice == [name |-> "alice", email |-> "alice@x", local |-> "alice", prov |-> "oidc/alice"]

Bob == [name |-> "bob", email |-> "", local |-> "", prov |-> "cli/bob"]

Both == <<Alice, Bob>>

AliceOnly == <<Alice>>

Renamed(user, to) == [user EXCEPT !.name = to, !.email = ""]

Device(u, a) == [user |-> u, tags |-> {}, addrs |-> {a}, announced |-> {}, approved |-> {}]

Router(a) == [user |-> 0, tags |-> {"r"}, addrs |-> {a}, announced |-> {"net", "all"}, approved |-> {}]

HomeRouter(u, a) == [user |-> u, tags |-> {}, addrs |-> {a}, announced |-> {"net"}, approved |-> {"net"}]

MCStore == (1 :> Device(1, "a1")) @@ (2 :> Device(2, "a2")) @@ (3 :> Router("a3")) @@ (4 :> HomeRouter(1, "a4"))

Edit(i, f, v) == [id |-> i, field |-> f, val |-> v]

BasePolicy ==
  [open |-> FALSE, acls |-> <<>>, grants |-> <<>>, groups |-> <<>>, hosts |-> <<>>,
   tagOwners |-> ("r" :> {User("alice")}), autoRoutes |-> <<>>, autoExit |-> {},
   ssh |-> <<>>, nodeAttrs |-> {}, randomizeClientPort |-> FALSE, tests |-> {}, sshTests |-> {}]

SSHRule(action, srcs, dsts, users, period) ==
  [action |-> action, srcs |-> srcs, dsts |-> dsts, users |-> users, period |-> period]

(* A group reaches the subnet and the router; tags own tags in a cycle.     *)
GroupPolicy ==
  [BasePolicy EXCEPT
     !.groups = ("dev" :> {"alice", "bob"}),
     !.hosts = ("lanhost" :> "net"),
     !.acls = <<[srcs |-> {Group("dev")}, dsts |-> <<Tag("r"), Host("lanhost")>>],
                [srcs |-> {Star}, dsts |-> <<User("bob")>>]>>,
     !.tagOwners = ("r" :> {User("alice"), Tag("s")}) @@ ("s" :> {Tag("r"), Group("dev")}),
     !.autoRoutes = ("net" :> {Tag("r")}),
     !.nodeAttrs = {[targets |-> {AutoGroup("member")}, attrs |-> {"funnel"}]},
     !.ssh = <<SSHRule("check", {Group("dev")}, {Tag("r")}, {"root"}, "default"),
               SSHRule("accept", {AutoGroup("member")}, {Self}, {"nonroot", "localpart"}, "default")>>,
     !.tests = {[src |-> User("alice"), accept |-> {Tag("r")}, deny |-> {}]}]

(* Devices reach those of the same user; the subnet goes through tag:r.     *)
SelfPolicy ==
  [BasePolicy EXCEPT
     !.grants = <<Grant({AutoGroup("member")}, {Self}, {}, {}, TRUE),
                  Grant({User("alice"), User("bob")}, {Prefix("net")}, {"r"}, {}, TRUE),
                  Grant({User("bob")}, {Tag("r")}, {}, {"relay"}, TRUE)>>,
     !.autoRoutes = ("net" :> {User("alice")}),
     !.nodeAttrs = {[targets |-> {Tag("r"), AutoGroup("member")}, attrs |-> {"drive"}]},
     !.ssh = <<SSHRule("check", {AutoGroup("member")}, {Self}, {"nonroot"}, "always")>>]

(* No SSH rule, autogroup:self for one person by name, and the subnet both  *)
(* through tag:r and directly.                                              *)
NamedPolicy ==
  [BasePolicy EXCEPT
     !.tagOwners = ("r" :> {User("bob")}),
     !.grants = <<Grant({User("alice")}, {Self}, {}, {}, TRUE),
                  Grant({User("alice")}, {Prefix("net")}, {"r"}, {}, TRUE),
                  Grant({AutoGroup("member")}, {Prefix("net")}, {}, {}, TRUE)>>]

(* A global filter and no SSH rule, with an attribute for one person: it    *)
(* does not compile when nobody has that name.                              *)
AttrsPolicy(name, owner) ==
  [BasePolicy EXCEPT
     !.tagOwners = ("r" :> {Tag("s")}) @@ ("s" :> {User(owner)}),
     !.acls = <<[srcs |-> {Tag("r")}, dsts |-> <<User("bob")>>]>>,
     !.nodeAttrs = {[targets |-> {User(name)}, attrs |-> {"funnel"}]}]

OpenPolicy == [BasePolicy EXCEPT !.open = TRUE]

(* Refused: an undefined via tag, and a test the policy fails.              *)
DanglingPolicy ==
  [BasePolicy EXCEPT !.grants = <<Grant({User("alice")}, {Prefix("net")}, {"q"}, {}, TRUE)>>]

FailingPolicy ==
  [GroupPolicy EXCEPT !.tests = {[src |-> User("alice"), accept |-> {}, deny |-> {Tag("r")}]}]

(* A behaviour is about policies and nodes, about people who are renamed    *)
(* and attributes that do not compile, or about changes no one needs to     *)
(* hear of.                                                                 *)
reloads ==
  [policy |-> GroupPolicy,
   policies |-> {GroupPolicy, SelfPolicy, OpenPolicy, DanglingPolicy, FailingPolicy},
   userEdits |-> {Both, AliceOnly},
   nodeEdits |-> {Edit(3, "approved", {"net", "all"}), Edit(2, "tags", {"r"}), Edit(2, "gone", {}),
                  Edit(2, "new", Device(2, "a2")), Edit(4, "approved", {})},
   sessions |-> {1, 3}]

renames ==
  [policy |-> NamedPolicy,
   policies |-> {AttrsPolicy("alice", "alice"), AttrsPolicy("carol", "bob")},
   userEdits |-> {Both, <<Renamed(Alice, "carol"), Bob>>},
   nodeEdits |-> {Edit(3, "approved", {"net"})},
   sessions |-> {1}]

asides ==
  [policy |-> AttrsPolicy("alice", "alice"), policies |-> {},
   userEdits |-> {Both, <<Alice, Renamed(Bob, "carol")>>, Append(Both, Renamed(Bob, "dave"))},
   nodeEdits |-> {Edit(1, "announced", {"net"}), Edit(2, "tags", {"r"})},
   sessions |-> {1}]

MCScopes == {reloads, renames, asides}
MCGroupOnly == {[reloads EXCEPT !.policies = {}, !.sessions = {1}]}

(* Texts of up to four tokens, and the forms that take more: an IPv6       *)
(* address with its bits, and what follows localpart:.                     *)
Apart(t) ==
  LET wordy == Words \cup Numerals \cup {Padded, "v4"}
  IN \A i \in 1..(Len(t) - 1) : ~(t[i] \in wordy /\ t[i + 1] \in wordy)

UpTo(n, tokens) == {t \in UNION {[1..m -> tokens] : m \in 0..n} : Apart(t)}

AllAliasTexts ==
  UpTo(3, {"web", "group", "tag", "autogroup", "member", "root", "v4", "fd7a", "8",
           "*", "@", ":", "/", " "})
  \cup UpTo(4, {"tag", "web", "v4", "8", "@", ":", "/", " "})
  \cup {<<"fd7a", ":", ":">> \o t : t \in UpTo(3, {"1", "80", ":", "/", "128"})}
  \cup {<<"localpart", ":">> \o t : t \in UpTo(4, {"web", "*", "@", ":", " "})}
  \cup {<<"autogroup", ":", "nonroot">>}

AllPortTexts == UpTo(5, {"0", Padded, "65535", "-", ","}) \cup UpTo(4, {"8", "65536", "*", "-", ","})

(* A page is the texts that begin with one token, or the documents.         *)
FirstTokens == {t[1] : t \in (AllAliasTexts \cup AllPortTexts) \ {<<>>}}

MCPages == FirstTokens \cup {None, "documents"}

Beginning(T, w) == {t \in T : t = <<>> \/ t[1] = w}

MCAliasTexts == [w \in MCPages |-> Beginning(AllAliasTexts, w)]

MCPortTexts == [w \in MCPages |-> Beginning(AllPortTexts, w)]

Leaf == [kind |-> "leaf", members |-> <<>>]

Within(V, n) ==
  LET names == {"acls", "app", "#ui", "x"}
      objects == UNION {[1..m -> {Member(name, v) : name \in names, v \in V}] : m \in 0..n}
      arrays == UNION {[1..m -> {Member("", v) : v \in V}] : m \in 0..n}
  IN V \cup {[kind |-> "object", members |-> m] : m \in objects}
       \cup {[kind |-> "array", members |-> m] : m \in arrays}

AllDocuments == Within(Within(Within({Leaf}, 1), 2), 1)

MCDocuments == [w \in MCPages |-> IF w = "documents" THEN AllDocuments ELSE {}]
=============================================================================
