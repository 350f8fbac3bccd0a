------------------------------ MODULE PolicyText ------------------------------
(***************************************************************************)
(* Reading and writing the text of a policy document: destinations and     *)
(* ports (hscontrol/policy/v2/utils.go), aliases, owners, approvers,       *)
(* protocols, SSH users and check periods, and the metadata that editors   *)
(* leave in a document (types.go).                                         *)
(*                                                                         *)
(* A text is a sequence of tokens: words, numerals, "v4" (an IPv4          *)
(* address) and punctuation; two words or numerals in a row would be one   *)
(* token and do not occur.  What a reader accepts is a set: empty for an   *)
(* error, the value otherwise.                                             *)
(***************************************************************************)
EXTENDS Integers, Sequences, FiniteSets, TLC

LOCAL INSTANCE SequencesExt

CONSTANTS
  Pages,       \* the texts come in pages
  AliasTexts,  \* of each page, texts to read as aliases, owners, SSH users, ...
  PortTexts,   \* texts to read as ports
  Documents    \* JSON values to read as policies

VARIABLES
  page,    \* the page at hand, None when no document is
  outcome  \* what calls that keep no state returned, until the next step

None == "none"

Max16 == 65535

Numbers == {0, 1, 4, 6, 8, 17, 22, 32, 80, 128, 132, 168, 255, 256, Max16, Max16 + 1}

Numerals == {ToString(n) : n \in Numbers}

Padded == "022"

Hex == {"fd7a"} \cup {ToString(n) : n \in {1, 8, 22, 80}}

Words ==
  {"fd7a", "web", "group", "tag", "autogroup", "localpart", "root", "always", "h",
   "internet", "member", "nonroot", "tagged", "self", "danger-all",
   "tcp", "TCP", "udp", "icmp", "sctp", "ipv4", "ip-in-ip"}

\* strings.Contains, Index, LastIndex (0 when absent) and Split of one character.
Has(t, c) == \E i \in DOMAIN t : t[i] = c

Index(t, c) == IF Has(t, c) THEN CHOOSE i \in DOMAIN t : t[i] = c /\ ~Has(SubSeq(t, 1, i - 1), c) ELSE 0

LastIndex(t, c) ==
  IF Has(t, c) THEN CHOOSE i \in DOMAIN t : t[i] = c /\ ~Has(SubSeq(t, i + 1, Len(t)), c) ELSE 0

Split(t, c) ==
  FoldLeft(LAMBDA parts, w : IF w = c THEN Append(parts, <<>>)
                             ELSE [parts EXCEPT ![Len(parts)] = Append(@, w)],
           <<<<>>>>, t)

Join(parts, c) ==
  FoldLeft(LAMBDA t, p : IF t = <<>> THEN p ELSE t \o <<c>> \o p, <<>>, parts)

TrimSpace(t) ==
  LET ink == {i \in DOMAIN t : t[i] # " "}
  IN IF ink = {} THEN <<>>
     ELSE SubSeq(t, CHOOSE i \in ink : \A j \in ink : i <= j,
                    CHOOSE i \in ink : \A j \in ink : i >= j)

Rest(t, i) == SubSeq(t, i, Len(t))

\* strconv.Atoi of what a sign does not precede.
Atoi(t) ==
  IF Len(t) # 1 THEN {}
  ELSE IF t[1] = Padded THEN {22} ELSE {n \in Numbers : ToString(n) = t[1]}

\* netip.ParseAddr for the IPv6 texts at hand: words and one "::".
Is6(t) ==
  LET pairs == {i \in 1..(Len(t) - 1) : t[i] = ":" /\ t[i + 1] = ":"}
  IN /\ \A i \in DOMAIN t : t[i] \in Hex \cup {":"}
     /\ Cardinality(pairs) = 1
     /\ t[1] = ":" => 1 \in pairs
     /\ t[Len(t)] = ":" => Len(t) - 1 \in pairs

BitLen(t) == IF t = <<"v4">> THEN {32} ELSE IF Is6(t) THEN {128} ELSE {}
-----------------------------------------------------------------------------
(* Destinations and ports.                                                  *)

splitDestinationAndPort(input) ==
  LET bracketed == input # <<>> /\ input[1] = "["
      close == Index(input, "]")
      host == SubSeq(input, 2, close - 1)
      rest == Rest(input, close + 1)
      sound == close # 0 /\ Is6(host) /\ rest # <<>> /\ rest[1] \in {":", "/"}
      text == IF bracketed /\ close # 0 THEN host \o rest ELSE input
      colon == LastIndex(text, ":")
  IN IF (bracketed /\ ~sound) \/ colon \in {0, 1, Len(text)} THEN {}
     ELSE {[dst |-> SubSeq(text, 1, colon - 1), port |-> Rest(text, colon + 1)]}

PortRange(a, b) == [first |-> a, last |-> b]

PortRangeAny == PortRange(0, Max16)

parsePort(t) == {n \in Atoi(t) : n <= Max16}

parsePart_NoOrder(part) ==
  IF Has(part, "-")
  THEN LET ends == SelectSeq(Split(part, "-"), LAMBDA e : e # <<>>)
       IN IF Len(ends) # 2 THEN {}
          ELSE {PortRange(a, b) : a \in parsePort(ends[1]), b \in parsePort(ends[2])}
  ELSE {PortRange(n, n) : n \in parsePort(part) \ {0}}

parsePart(part) ==
  IF Has(part, "-")
  THEN LET ends == SelectSeq(Split(part, "-"), LAMBDA e : e # <<>>)
       IN IF Len(ends) # 2 THEN {}
          ELSE {r \in {PortRange(a, b) : a \in parsePort(ends[1]), b \in parsePort(ends[2])} :
                  r.first <= r.last}
  ELSE {PortRange(n, n) : n \in parsePort(part) \ {0}}

parsePortRange(t) ==
  LET parts == Split(t, ",")
      read == [i \in DOMAIN parts |-> parsePart(parts[i])]
  IN IF t = <<"*">> THEN {<<PortRangeAny>>}
     ELSE IF \E i \in DOMAIN read : read[i] = {} THEN {}
     ELSE {[i \in DOMAIN read |-> CHOOSE r \in read[i] : TRUE]}

portText(r) ==
  IF r.first = r.last THEN <<ToString(r.first)>>
  ELSE <<ToString(r.first), "-", ToString(r.last)>>

portsText(rs) ==
  IF rs = <<PortRangeAny>> THEN <<"*">> ELSE Join([i \in DOMAIN rs |-> portText(rs[i])], ",")
-----------------------------------------------------------------------------
(* Aliases.                                                                 *)

Alias(k, t) == [k |-> k, t |-> t, bits |-> 0]

Starts(t, w) == Len(t) > 1 /\ t[1] = w /\ t[2] = ":"

isUser(t) == Has(t, "@")

isGroup(t) == Starts(t, "group")

isTag(t) == Starts(t, "tag")

isAutoGroup(t) == Starts(t, "autogroup")

isHost(t) == ~isUser(t) /\ ~Has(t, ":")

\* Prefix.parseString: an address is the prefix of all its bits.
parsePrefix(t) ==
  LET slash == Index(t, "/")
      addr == SubSeq(t, 1, slash - 1)
      of(a, n) == [k |-> "prefix", t |-> a, bits |-> n]
  IN IF slash = 0 THEN {of(t, n) : n \in BitLen(t)}
     ELSE {of(addr, n) : n \in {m \in Atoi(Rest(t, slash + 1)) :
                                  /\ \E len \in BitLen(addr) : m <= len
                                  /\ t[slash + 1] # Padded}}

parseAlias(t) ==
  IF parsePrefix(t) # {} THEN parsePrefix(t)
  ELSE IF t = <<"*">> THEN {Alias("star", t)}
  ELSE IF isUser(t) THEN {Alias("user", t)}
  ELSE IF isGroup(t) THEN {Alias("group", t)}
  ELSE IF isTag(t) THEN {Alias("tag", t)}
  ELSE IF isAutoGroup(t) THEN {Alias("auto", t)}
  ELSE IF isHost(t) THEN {Alias("host", t)}
  ELSE {}

String_Address(a) == a.t

\* Alias.String, which every MarshalJSON of an alias writes.
String(a) == IF a.k = "prefix" THEN a.t \o <<"/", ToString(a.bits)>> ELSE a.t

autogroups == {"internet", "member", "nonroot", "tagged", "self", "danger-all"}

validTag(t) == isTag(t) /\ Len(t) > 2 /\ t[3] \in Words

validAlias(a) ==
  /\ a.k = "tag" => validTag(a.t)
  /\ a.k = "auto" => Len(a.t) = 3 /\ a.t[3] \in autogroups

\* AliasEnc.UnmarshalJSON, and with it Aliases and SSHTestDestinations; no
\* Validate here, but white space goes.
readAlias_Untrimmed(t) == parseAlias(t)

readAlias(t) == parseAlias(TrimSpace(t))

AliasWithPorts(t) ==
  {[alias |-> a, ports |-> p] : <<a, p>> \in
     UNION {{a \in parseAlias(s.dst) : validAlias(a)} \X parsePortRange(s.port) :
              s \in splitDestinationAndPort(t)}}

aliasWithPortsText(d) ==
  IF d.ports = <<>> THEN String(d.alias) ELSE String(d.alias) \o <<":">> \o portsText(d.ports)

\* parseOwner and parseAutoApprover: the same three kinds.
parseOwner(t) ==
  IF isUser(t) THEN {Alias("user", t)}
  ELSE IF isGroup(t) THEN {Alias("group", t)}
  ELSE IF isTag(t) THEN {Alias("tag", t)}
  ELSE {}

parseAutoApprover(t) == parseOwner(t)

SSHSrcAlias(t) == {a \in readAlias(t) : a.k \in {"user", "group", "tag", "auto"}}

SSHDstAlias(t) == {a \in readAlias(t) : a.k \in {"user", "tag", "auto", "host"}}

\* SSHPolicyTest.UnmarshalJSON: an empty source is left for validation to refuse.
SSHTestSrc(t) == IF TrimSpace(t) = <<>> THEN {Alias("none", <<>>)} ELSE parseAlias(TrimSpace(t))

\* Lists: one entry that cannot be read, or written, fails the list.
ReadAll(read(_), list) ==
  IF \E i \in DOMAIN list : read(list[i]) = {} THEN {}
  ELSE {[i \in DOMAIN list |-> CHOOSE a \in read(list[i]) : TRUE]}

WriteAll(kinds, list) ==
  IF \A i \in DOMAIN list : list[i].k \in kinds THEN {[i \in DOMAIN list |-> String(list[i])]} ELSE {}

Aliases(list) == ReadAll(readAlias, list)

aliasesText(as) == WriteAll({"user", "group", "tag", "host", "prefix", "auto", "star"}, as)

ReadOwners(list) == ReadAll(parseOwner, list)

ownersText(os) == WriteAll({"user", "group", "tag"}, os)

AutoApprovers(list) == ReadAll(parseAutoApprover, list)

autoApproversText(aa) == WriteAll({"user", "group", "tag"}, aa)

SSHSrcAliases(list) == ReadAll(SSHSrcAlias, list)

sshSrcText(as) == WriteAll({"user", "group", "tag", "auto", "star"}, as)

SSHDstAliases(list) == ReadAll(SSHDstAlias, list)

sshDstText(as) == WriteAll({"user", "tag", "auto", "host", "star"}, as)

SSHTestDestinations(list) == ReadAll(readAlias, list)

\* Groups and Hosts: a document's map from texts to members, or to a prefix.
Groups(raw) ==
  IF \A g \in DOMAIN raw : isGroup(g) /\ \A u \in raw[g] : ~isGroup(u) /\ isUser(u)
  THEN {raw} ELSE {}

Hosts(raw) ==
  IF \A h \in DOMAIN raw : isHost(h) /\ parsePrefix(raw[h]) # {}
  THEN {[h \in DOMAIN raw |-> CHOOSE p \in parsePrefix(raw[h]) : TRUE]} ELSE {}

hostsText(hosts) == [h \in DOMAIN hosts |-> String(hosts[h])]
-----------------------------------------------------------------------------
(* Protocols.                                                               *)

ToLower(t) == [i \in DOMAIN t |-> IF t[i] = "TCP" THEN "tcp" ELSE t[i]]

\* The named protocols at hand, with their IANA numbers.
ProtocolNumber == [tcp |-> 6, udp |-> 17, icmp |-> 1, sctp |-> 132, ipv4 |-> 4]

ProtocolNames == DOMAIN ProtocolNumber \cup {"ip-in-ip"}

ProtocolNumberToName(n) == {name \in DOMAIN ProtocolNumber : ProtocolNumber[name] = n}

\* Protocol.validate: a name, nothing, or a number up to 255 with no zero in front.
validProtocol(p) ==
  \/ p = <<>>
  \/ Len(p) = 1 /\ p[1] \in ProtocolNames
  \/ /\ Len(p) = 1 /\ p[1] \notin {"0", Padded}
     /\ \E n \in Atoi(p) : n <= 255

readProtocol_AsWritten(t) == {p \in {ToLower(t)} : validProtocol(p)}

\* Protocol.UnmarshalJSON of an ACL or a test.
readProtocol(t) ==
  LET lower == ToLower(t)
      names == UNION {ProtocolNumberToName(n) : n \in Atoi(lower)}
      named == IF names = {} THEN lower ELSE <<CHOOSE name \in names : TRUE>>
  IN {p \in {named} : validProtocol(p)}

toIANAProtocolNumbers(p) ==
  IF p = <<>> \/ p = <<"*">> THEN {}
  ELSE IF p = <<"ip-in-ip">> THEN {4}
  ELSE IF p[1] \in ProtocolNames THEN {ProtocolNumber[p[1]]}
  ELSE Atoi(p)

validateProtocolPortCompatibility(p, ports) ==
  \/ p \in {<<"tcp">>, <<"udp">>, <<"sctp">>, <<>>}
  \/ \A i \in DOMAIN ports : ports[i] = PortRangeAny

\* ProtocolPort.UnmarshalJSON of a grant: the protocol stays as it is written.
ProtocolPort(t) ==
  LET parts == Split(t, ":")
      of(p, ports) == [proto |-> p, ports |-> ports]
  IN IF t = <<"*">> THEN {of(<<"*">>, <<PortRangeAny>>)}
     ELSE IF Len(parts) = 1 THEN {of(<<"*">>, r) : r \in parsePortRange(t)}
     ELSE IF Len(parts) # 2 \/ ~validProtocol(parts[1]) THEN {}
     ELSE {of(parts[1], r) : r \in parsePortRange(parts[2])}

protocolPortText_Star(pp) ==
  IF pp.ports = <<PortRangeAny>> THEN <<"*">>
  ELSE pp.proto \o <<":">> \o Join([i \in DOMAIN pp.ports |-> portText(pp.ports[i])], ",")

protocolPortText(pp) ==
  IF pp.proto = <<"*">> /\ pp.ports = <<PortRangeAny>> THEN <<"*">>
  ELSE pp.proto \o <<":">> \o Join([i \in DOMAIN pp.ports |-> portText(pp.ports[i])], ",")
-----------------------------------------------------------------------------
(* SSH actions, users and check periods.                                    *)

SSHUser(t) == TrimSpace(t)

IsLocalpart(u) == Starts(u, "localpart")

ParseLocalpart_FirstAt(u) ==
  LET pattern == Rest(u, 3)
      at == Index(pattern, "@")
      domain == Rest(pattern, at + 1)
  IN IF at = 0 \/ SubSeq(pattern, 1, at - 1) # <<"*">> \/ domain = <<>> THEN {} ELSE {domain}

ParseLocalpart(u) ==
  LET pattern == Rest(u, 3)
      at == LastIndex(pattern, "@")
      domain == Rest(pattern, at + 1)
  IN IF at = 0 \/ SubSeq(pattern, 1, at - 1) # <<"*">> \/ domain = <<>> THEN {} ELSE {domain}

IsCanonicalLocalpart(u) == IsLocalpart(u) /\ ParseLocalpart(u) # {}

LocalpartEntries(U) == {u \in U : IsCanonicalLocalpart(u)}

NonRoot == <<"autogroup", ":", "nonroot">>

NormalUsers(U) == {u \in U : u # <<"root">> /\ u # NonRoot /\ ~IsCanonicalLocalpart(u)}

\* SSHCheckPeriod: "always", or hours from none to a week.
Always == -1

readCheckPeriod(t) ==
  IF t = <<"always">> THEN {Always}
  ELSE IF Len(t) = 2 /\ t[2] = "h" THEN {n \in Atoi(<<t[1]>>) : n <= 168}
  ELSE {}

checkPeriodText(d) == IF d = Always THEN <<"always">> ELSE <<ToString(d), "h">>
-----------------------------------------------------------------------------
(* The document: leaves, objects (named members) and arrays.                *)

Member(name, v) == [name |-> name, value |-> v]

IsMetadata(name) == name = "#ui"

RECURSIVE stripMetadataMembers_Deep(_)
stripMetadataMembers_Deep(v) ==
  IF v.kind = "leaf" THEN v
  ELSE LET kept == IF v.kind = "array" THEN v.members
                   ELSE SelectSeq(v.members, LAMBDA m : ~IsMetadata(m.name))
       IN [v EXCEPT !.members =
             [i \in DOMAIN kept |-> Member(kept[i].name, stripMetadataMembers_Deep(kept[i].value))]]

RECURSIVE stripMetadataMembers(_)
stripMetadataMembers(v) ==
  IF v.kind = "leaf" THEN v
  ELSE LET kept == IF v.kind = "array" THEN v.members
                   ELSE SelectSeq(v.members, LAMBDA m : ~IsMetadata(m.name))
           below(m) == IF v.kind = "object" /\ m.name = "app" THEN m.value
                       ELSE stripMetadataMembers(m.value)
       IN [v EXCEPT !.members =
             [i \in DOMAIN kept |-> Member(kept[i].name, below(kept[i]))]]

\* The names on the way to every value of a document; "" for an array element.
RECURSIVE Paths(_)
Paths(v) ==
  {<<>>} \cup UNION {{<<v.members[i].name>> \o p : p \in Paths(v.members[i].value)} :
                      i \in DOMAIN v.members}

Fields == {"acls", "app", ""}

Payload(p, i) == \E j \in 1..(i - 1) : p[j] = "app"

\* The decoder refuses a member it does not know, except inside a payload.
decodes(v) == \A p \in Paths(v) : \A i \in DOMAIN p : Payload(p, i) \/ p[i] \in Fields

\* unmarshalPolicy up to validation; an empty document is no policy.
unmarshalPolicy(v) ==
  LET stripped == stripMetadataMembers(v)
  IN IF v.kind = "object" /\ decodes(stripped) THEN {stripped} ELSE {}
-----------------------------------------------------------------------------
(* Reading a page. The readers and writers keep no state: what they made of *)
(* its texts is kept for the properties until the page is put away.         *)

Unread == <<>>

\* A text is read; what was read is written, and that is read again.
Cycle(Read(_), Write(_), text) ==
  LET got == Read(text)
  IN [got |-> got, again |-> UNION {UNION {Read(t) : t \in Write(v)} : v \in got}]

\* The entries of lists, destinations, host tables, groups and SSH rules.
readPorts(t) == Cycle(parsePortRange, LAMBDA rs : {portsText(rs)}, t)

readLists(t) ==
  LET list == <<t, <<"tag", ":", "web">>>>
  IN <<Cycle(Aliases, aliasesText, list), Cycle(SSHTestDestinations, aliasesText, list),
       Cycle(ReadOwners, ownersText, list), Cycle(AutoApprovers, autoApproversText, list),
       Cycle(SSHSrcAliases, sshSrcText, list), Cycle(SSHDstAliases, sshDstText, list)>>

readDestinations(t) ==
  {Cycle(AliasWithPorts, LAMBDA d : {aliasWithPortsText(d)}, form \o q) :
     form \in {t \o <<":">>, <<"[">> \o t \o <<"]", ":">>, <<"[">> \o t \o <<"]", "/", "8", ":">>},
     q \in {<<"*">>, <<"22", ",", "80">>, <<"8", "-", "22">>}}

readHosts(t) == Cycle(Hosts, LAMBDA hosts : {hostsText(hosts)}, <<"web">> :> t)

readIdentity(t) ==
  [rule |-> readAlias(t), test |-> SSHTestSrc(t), member |-> Groups(<<"group", ":", "web">> :> {t}),
   others |-> {parseOwner(t), parseAutoApprover(t), SSHSrcAlias(t), SSHDstAlias(t)}]

readLogin(t) ==
  LET u == SSHUser(t) IN [user |-> u, local |-> LocalpartEntries({u}), normal |-> NormalUsers({u})]

\* The ip field of a grant, alone and behind a protocol.
readGrants(t) ==
  {Cycle(ProtocolPort, LAMBDA pp : {protocolPortText(pp)}, form) :
     form \in {t} \cup {<<w, ":">> \o t : w \in {"tcp", "icmp", "6", "255", "256", Padded}}}

\* The protocols, as they may be written, that an ACL with these ports may have.
readProtocols(rs) ==
  [w \in Words \cup Numerals \cup {Padded} |->
     {[proto |-> p, numbers |-> toIANAProtocolNumbers(p)] :
        p \in {q \in readProtocol(<<w>>) : validateProtocolPortCompatibility(q, rs)}}]

readPeriods ==
  {Cycle(readCheckPeriod, LAMBDA d : {checkPeriodText(d)}, t) :
     t \in {<<n>> : n \in Numerals \cup {"always"}} \cup {<<n, "h">> : n \in Numerals}}

readDocument(v) ==
  LET clean == stripMetadataMembers(v)
  IN [clean |-> clean, twice |-> stripMetadataMembers(clean), policy |-> unmarshalPolicy(v)]

Reading(p) ==
  [ports |-> [t \in PortTexts[p] |-> readPorts(t)],
   lists |-> [t \in AliasTexts[p] |-> readLists(t)],
   destinations |-> [t \in AliasTexts[p] |-> readDestinations(t)],
   hosts |-> [t \in AliasTexts[p] |-> readHosts(t)],
   identities |-> [t \in AliasTexts[p] |-> readIdentity(t)],
   logins |-> [t \in AliasTexts[p] |-> readLogin(t)],
   grants |-> [t \in PortTexts[p] |-> readGrants(t)],
   protocols |-> [rs \in UNION {parsePortRange(t) : t \in PortTexts[p]} |-> readProtocols(rs)],
   periods |-> readPeriods,
   documents |-> [v \in Documents[p] |-> readDocument(v)]]

ReadPage ==
  /\ page # None
  /\ outcome' = IF outcome = Unread THEN Reading(page) ELSE Unread
  /\ UNCHANGED page
-----------------------------------------------------------------------------
(* Properties.                                                              *)

Shown == page # None /\ outcome # Unread

Same(c) == c.again = c.got

\* Ports are read as they are written: an accepted list covers the numbers and
\* the ranges between its commas and no more, in bounds and the right way round,
\* and a list written back (AliasWithPorts.MarshalJSON) reads the same.  Written
\* back, the range 0-0 is a port 0, which is refused.
PortsAsWritten == Shown =>
  \A t \in DOMAIN outcome.ports : \A rs \in outcome.ports[t].got :
    /\ \A i \in DOMAIN rs : rs[i].first <= rs[i].last /\ rs[i].last <= Max16
    /\ t = <<"*">> \/ Len(rs) = Cardinality({i \in DOMAIN t : t[i] = ","}) + 1
    /\ t = <<"*">> \/ {rs[i].first : i \in DOMAIN rs} \cup {rs[i].last : i \in DOMAIN rs}
                       = UNION {Atoi(<<t[i]>>) : i \in DOMAIN t}
    /\ PortRange(0, 0) \in {rs[i] : i \in DOMAIN rs} \/ Same(outcome.ports[t])

\* Alias.String is documented to "round-trip through parseAlias for any alias
\* the parser accepted": in a list of rules, owners, approvers or SSH ends, in a
\* destination with ports (bracketed IPv6 included) and in the host table.
AliasesRoundTrip == Shown =>
  \A t \in DOMAIN outcome.lists :
    /\ \A i \in DOMAIN outcome.lists[t] : Same(outcome.lists[t][i])
    /\ \A c \in outcome.destinations[t] : Same(c)
    /\ Same(outcome.hosts[t])

\* What MarshalJSON writes of a grant's ip field and a check period
\* reads the same, except a grant's bare port list (written with the "*"
\* protocol, which the reader refuses) and a port 0.
GrantsRoundTrip == Shown =>
  /\ \A t \in DOMAIN outcome.grants : \A c \in outcome.grants[t] : \A pp \in c.got :
       \/ pp.proto = <<"*">> /\ pp.ports # <<PortRangeAny>>
       \/ PortRange(0, 0) \in {pp.ports[i] : i \in DOMAIN pp.ports}
       \/ Same(c)
  /\ \A c \in outcome.periods : Same(c)

\* One text is one identity wherever it stands: what the readers of owners,
\* approvers, SSH sources, SSH destinations, SSH tests and group members accept
\* is what the reader of rules takes it for, white space apart.
IdentitiesAgree == Shown =>
  \A t \in DOMAIN outcome.identities :
    LET id == outcome.identities[t]
        same(reader) == \A a \in reader : a.t = TrimSpace(a.t) => {a} = id.rule
    IN /\ \A reader \in id.others : same(reader)
       /\ TrimSpace(t) # <<>> => same(id.test)
       /\ id.member # {} => \A a \in id.rule : a.k = "user"

\* Only localpart:*@<domain> with one domain is resolved per user; every other
\* entry of an SSH rule is root, nonroot or a literal login, and exactly one.
LocalpartsCanonical == Shown =>
  \A t \in DOMAIN outcome.logins :
    LET login == outcome.logins[t]
        u == login.user
        canonical == /\ Len(u) > 4 /\ SubSeq(u, 1, 4) = <<"localpart", ":", "*", "@">>
                     /\ ~Has(Rest(u, 5), "@")
    IN /\ login.local = (IF canonical THEN {u} ELSE {})
       /\ login.normal = (IF canonical \/ u = <<"root">> \/ u = NonRoot THEN {} ELSE {u})

\* A protocol of an ACL is one value "regardless of what the user wrote": its
\* number and its name are allowed the same ports, and specific ports go with
\* TCP, UDP and SCTP only.
ProtocolFormsAgree == Shown =>
  \A rs \in DOMAIN outcome.protocols :
    LET allowed == outcome.protocols[rs]
    IN /\ \A name \in DOMAIN ProtocolNumber : allowed[name] = allowed[ToString(ProtocolNumber[name])]
       /\ \A w \in DOMAIN allowed : \A p \in allowed[w] :
            p.numbers \subseteq {6, 17, 132} \/ \A i \in DOMAIN rs : rs[i] = PortRangeAny

\* Editors' metadata is dropped everywhere but inside a payload, which peers get
\* as it was written; nothing else is lost, and metadata alone never makes the
\* decoder refuse a document.
MetadataStripped == Shown =>
  \A v \in DOMAIN outcome.documents :
    LET d == outcome.documents[v]
    IN /\ Paths(d.clean) = {p \in Paths(v) : \A i \in DOMAIN p : IsMetadata(p[i]) => Payload(p, i)}
       /\ d.twice = d.clean
       /\ v.kind = "object" =>
            (d.policy # {} <=>
               \A p \in Paths(v) : \A i \in DOMAIN p :
                 Payload(p, i) \/ p[i] \in Fields \/ \E j \in 1..i : IsMetadata(p[j]))
=============================================================================
