------------------------------- MODULE Formats -------------------------------
(***************************************************************************)
(* The texts a server reads and writes: pre-auth keys and API keys, the    *)
(* identity of an OIDC user, the address of a client behind proxies,       *)
(* release numbers, the options of the SQLite connection, the address      *)
(* ranges of a filter rule, and the reverse DNS zones of the prefixes.     *)
(*                                                                         *)
(* Sources: hscontrol/db (preauth_keys.go, api_key.go, versioncheck.go,    *)
(* sqliteconfig/config.go), hscontrol/types/users.go, hscontrol/realip.go, *)
(* hscontrol/util (addr.go, dns.go) and policy/v2/types.go.  A text is a   *)
(* sequence of words and separators; a reader yields the set of its        *)
(* results, which is empty when it returns an error.                       *)
(***************************************************************************)
EXTENDS Integers, Sequences, FiniteSets, Functions, SequencesExt, TLC

CONSTANTS
    PrefixLength,   \* characters of a key's prefix, 12 in the code
    SecretLength,   \* characters of a key's secret, 64 in the code
    LegacyLength,   \* characters of a legacy API key's prefix, 7 in the code
    Width,          \* bits of an address in a filter rule
    ByteSize        \* bits of an octet in a zone, 8 in the code

ASSUME FormatsAssumption ==
    /\ {PrefixLength, SecretLength, LegacyLength, Width, ByteSize} \subseteq Nat \ {0}
    /\ LegacyLength < PrefixLength

(* strings: the first place of w in t, or 0; the rest from a place on; the
   pieces between separators; without white space at the ends. *)
Find(t, w) == SelectInSeq(t, LAMBDA x : x = w)
From(t, i) == SubSeq(t, i, Len(t))
Pieces(t, w) ==
    LET cuts == SetToSortSeq({i \in DOMAIN t : t[i] = w} \cup {0, Len(t) + 1}, <)
    IN [k \in 1..(Len(cuts) - 1) |-> SubSeq(t, cuts[k] + 1, cuts[k + 1] - 1)]
Trimmed(t) ==
    LET ink == {i \in DOMAIN t : t[i] # " "}
    IN IF ink = {} THEN <<>>
       ELSE SubSeq(t, CHOOSE i \in ink : \A j \in ink : i <= j, CHOOSE i \in ink : \A j \in ink : i >= j)

-----------------------------------------------------------------------------
(* Keys: a marker, a public prefix, a dash and a secret, of which the row
   keeps the hash.  The base64 alphabet contains the dash. *)

AuthMarker == "hskey-auth-"
APIMarker == "hskey-api-"

isValidBase64URLSafe(t) == Range(t) \subseteq {"a", "-"}

KeyText(marker, prefix, secret) == <<marker>> \o prefix \o <<"-">> \o secret

(* A key owned by neither a user nor a tag, of a user who is not there, with
   something that is not a tag, or with a prefix that exists, is not created. *)
NewPreAuthKey(rows, users, uid, aclTags, prefix, secret) ==
    IF \/ uid = "nobody" /\ aclTags = {}
       \/ uid # "nobody" /\ uid \notin users
       \/ \E tag \in aclTags : tag[1] # "tag:"
       \/ \E r \in rows : r.prefix = prefix
    THEN {}
    ELSE {[key |-> <<>>, prefix |-> prefix, hash |-> secret, user |-> uid, tags |-> aclTags]}

splitKey_AtDash(rest) ==
    LET dash == Find(rest, "-")
    IN {k \in {[prefix |-> SubSeq(rest, 1, dash - 1), secret |-> From(rest, dash + 1)]} :
          /\ dash # 0 /\ Len(k.secret) = SecretLength
          /\ isValidBase64URLSafe(k.prefix) /\ isValidBase64URLSafe(k.secret)}

(* What follows the marker, cut at fixed places. *)
splitKey(rest) ==
    IF Len(rest) < PrefixLength + 1 + SecretLength THEN {}
    ELSE {k \in {[prefix |-> SubSeq(rest, 1, PrefixLength), secret |-> From(rest, PrefixLength + 2)]} :
       /\ rest[PrefixLength + 1] = "-" /\ Len(k.secret) = SecretLength
       /\ isValidBase64URLSafe(k.prefix) /\ isValidBase64URLSafe(k.secret)}

(* Without the marker the text is a legacy key, kept as it is. *)
findAuthKey(rows, t) ==
    LET at == Find(t, AuthMarker)
    IN IF t = <<>> THEN {}
       ELSE IF at = 0 THEN {r \in rows : r.key = t}
       ELSE {r \in rows : \E k \in splitKey(From(t, at + 1)) : r.prefix = k.prefix /\ r.hash = k.secret}

validateLegacyAPIKey(rows, t) ==
    LET dot == Find(t, ".")
    IN {r \in rows : /\ dot = LegacyLength + 1
                     /\ r.prefix = SubSeq(t, 1, dot - 1) /\ r.hash = From(t, dot + 1)}

validateAPIKey(rows, t) ==
    LET at == Find(t, APIMarker)
    IN IF t = <<>> THEN {}
       ELSE IF at = 0 THEN validateLegacyAPIKey(rows, t)
       ELSE {r \in rows : \E k \in splitKey(From(t, at + 1)) : r.prefix = k.prefix /\ r.hash = k.secret}

ParseAPIKeyPrefix_AtDash(t) ==
    LET pieces == Pieces(From(t, 2), "-")
    IN IF Len(t) = PrefixLength /\ isValidBase64URLSafe(t) THEN {t}
       ELSE IF t # <<>> /\ t[1] = APIMarker THEN {pieces[1]}
       ELSE {t}

ParseAPIKeyPrefix(t) ==
    LET prefix == SubSeq(t, 2, PrefixLength + 1)
    IN IF Len(t) = PrefixLength /\ isValidBase64URLSafe(t) THEN {t}
       ELSE IF t # <<>> /\ t[1] = APIMarker
            THEN IF Len(t) > PrefixLength /\ isValidBase64URLSafe(prefix) THEN {prefix} ELSE {}
       ELSE {t}

-----------------------------------------------------------------------------
(* OIDC identities.  A URL is a scheme, an authority and a path. *)

Lower(scheme) == IF scheme = "HTTPS:" THEN "https:" ELSE scheme
IsURL(t) == t # <<>> /\ t[1] \in {"https:", "HTTPS:"}

(* The pieces of a path that are not blank. *)
Segments(t) ==
    LET pieces == Pieces(t, "/")
    IN SelectSeq([i \in DOMAIN pieces |-> Trimmed(pieces[i])], LAMBDA p : p # <<>>)

Slashed(segments) == FlattenSeq([i \in DOMAIN segments |-> <<"/">> \o segments[i]])

CleanText(t) ==
    LET s == Trimmed(t)
    IN IF IsURL(s) THEN <<Lower(s[1]), s[2]>> \o Slashed(Segments(From(s, 3)))
       ELSE From(Slashed(Segments(s)), 2)

TrimSuffix(t) == IF t # <<>> /\ Last(t) = "/" THEN Front(t) ELSE t
TrimPrefix(t) == IF t # <<>> /\ Head(t) = "/" THEN Tail(t) ELSE t

Identifier_JoinPath(c) ==
    IF c.iss = <<>> THEN CleanText(c.sub)
    ELSE IF c.sub \in {<<>>, <<"..">>} THEN CleanText(c.iss)
    ELSE CleanText(TrimSuffix(c.iss) \o <<"/">> \o TrimPrefix(c.sub))

Identifier(c) ==
    IF c.iss = <<>> THEN CleanText(c.sub)
    ELSE IF c.sub = <<>> THEN CleanText(c.iss)
    ELSE CleanText(TrimSuffix(c.iss) \o <<"/">> \o TrimPrefix(c.sub))

ValidateUsername(t) ==
    /\ Len(t) > 1 /\ t[1] = "a"
    /\ Range(t) \subseteq {"a", "1", "-", ".", "_", "@"}
    /\ Cardinality({i \in DOMAIN t : t[i] = "@"}) < 2

(* mail.ParseAddress: something on both sides of an "@". *)
IsAddress(t) == Len(t) = 3 /\ t[2] = "@" /\ Range(<<t[1], t[3]>>) \subseteq {"a", "1"}

(* email_verified comes as a boolean or as the text of one (quoted here); any
   other text fails the login before FromClaim. *)
FlexibleBoolean(v) == v \in {"true", "'true'", "'1'"}

FromClaim(u, c, emailVerifiedRequired) ==
    LET id == Identifier(c)
    IN [name |-> IF ValidateUsername(c.username) THEN c.username ELSE u.name,
        email |-> IF (FlexibleBoolean(c.verified) \/ ~emailVerifiedRequired) /\ IsAddress(c.email)
                  THEN c.email ELSE u.email,
        provider |-> IF c.iss = <<>> /\ (id = <<>> \/ id[1] # "/") THEN <<"/">> \o id ELSE id,
        display |-> c.name]

-----------------------------------------------------------------------------
(* The client behind trusted proxies.  A remote address is an address, with
   or without a port, or a text that is none. *)

parsePeerAddr(remote) == IF remote.form \in {"ip:port", "ip"} THEN {remote.ip} ELSE {}

peerTrusted_Any(remote, trusted) == parsePeerAddr(remote) # {}

peerTrusted(remote, trusted) == parsePeerAddr(remote) \cap trusted # {}

(* realclientip's strategies: the only address of a header; the rightmost
   address of X-Forwarded-For outside the trusted ranges. *)
singleIP(header) == IF Len(header) = 1 THEN {header[1]} ELSE {}
rightmost(header, trusted) ==
    LET outside == {i \in DOMAIN header : header[i] \notin trusted}
    IN IF outside = {} THEN {} ELSE {header[CHOOSE i \in outside : \A j \in outside : i >= j]}

ClientIP(headers, trusted) ==
    IF singleIP(headers.true_client_ip) # {} THEN singleIP(headers.true_client_ip)
    ELSE IF singleIP(headers.x_real_ip) # {} THEN singleIP(headers.x_real_ip)
    ELSE rightmost(headers.x_forwarded_for, trusted)

NoHeaders == [true_client_ip |-> <<>>, x_real_ip |-> <<>>, x_forwarded_for |-> <<>>]

(* The middleware: the request as the handlers see it. *)
trustedProxyRealIP(request, trusted) ==
    IF ~peerTrusted(request.remote, trusted) THEN [request EXCEPT !.headers = NoHeaders]
    ELSE IF ClientIP(request.headers, trusted) = {} THEN request
    ELSE [request EXCEPT !.remote = [form |-> "ip", ip |-> CHOOSE a \in ClientIP(request.headers, trusted) : TRUE]]

-----------------------------------------------------------------------------
(* Release numbers. *)

Decimal == ("0" :> 0) @@ ("1" :> 1) @@ ("2" :> 2)

parseVersion_NoBuild(t) ==
    LET v == IF t # <<>> /\ t[1] = "v" THEN Tail(t) ELSE t
        dash == Find(v, "-")
        parts == Pieces(IF dash = 0 THEN v ELSE SubSeq(v, 1, dash - 1), ".")
    IN IF t \in {<<>>, <<"dev">>} \/ Len(parts) # 3
          \/ \E i \in 1..3 : Len(parts[i]) # 1 \/ parts[i][1] \notin DOMAIN Decimal
       THEN {} ELSE {[i \in 1..3 |-> Decimal[parts[i][1]]]}

parseVersion(t) ==
    LET v == IF t # <<>> /\ t[1] = "v" THEN Tail(t) ELSE t
        suffix == SelectInSeq(v, LAMBDA x : x \in {"-", "+"})
        parts == Pieces(IF suffix = 0 THEN v ELSE SubSeq(v, 1, suffix - 1), ".")
    IN IF t \in {<<>>, <<"dev">>} \/ Len(parts) # 3
          \/ \E i \in 1..3 : Len(parts[i]) # 1 \/ parts[i][1] \notin DOMAIN Decimal
       THEN {} ELSE {[i \in 1..3 |-> Decimal[parts[i][1]]]}

-----------------------------------------------------------------------------
(* The SQLite connection: options that are set become parameters. *)

JournalModes == {"WAL", "DELETE", "TRUNCATE", "PERSIST", "MEMORY", "OFF"}
AutoVacuums == {"NONE", "FULL", "INCREMENTAL"}
Synchronous == {"OFF", "NORMAL", "FULL", "EXTRA"}
TxLocks == {"deferred", "immediate", "exclusive"}
Modes == [journal_mode |-> JournalModes, auto_vacuum |-> AutoVacuums, synchronous |-> Synchronous, txlock |-> TxLocks]

ValidOptions(c) ==
    /\ c.path # "" /\ c.busy_timeout >= 0 /\ c.wal_autocheckpoint >= -1
    /\ \A m \in DOMAIN Modes : c[m] \in Modes[m] \cup {""}

Number(n) == ToString(n)

ToURL_NoZero(c) ==
    LET set == {m \in DOMAIN Modes : c[m] # ""}
    IN IF ~ValidOptions(c) THEN {}
       ELSE {[base |-> IF c.path = ":memory:" THEN <<c.path>> ELSE <<"file:", c.path>>,
              parameters |->
                {<<m, c[m]>> : m \in set}
                \cup {<<"busy_timeout", Number(n)>> : n \in {c.busy_timeout} \ {0}}
                \cup {<<"wal_autocheckpoint", Number(n)>> : n \in {c.wal_autocheckpoint} \ {-1, 0}}
                \cup {<<"foreign_keys", "ON">> : f \in {c.foreign_keys} \cap {TRUE}}]}

ToURL(c) ==
    LET set == {m \in DOMAIN Modes : c[m] # ""}
    IN IF ~ValidOptions(c) THEN {}
       ELSE {[base |-> IF c.path = ":memory:" THEN <<c.path>> ELSE <<"file:", c.path>>,
              parameters |->
                {<<m, c[m]>> : m \in set}
                \cup {<<"busy_timeout", Number(n)>> : n \in {c.busy_timeout} \ {0}}
                \cup {<<"wal_autocheckpoint", Number(n)>> : n \in {c.wal_autocheckpoint} \ {-1}}
                \cup {<<"foreign_keys", "ON">> : f \in {c.foreign_keys} \cap {TRUE}}]}

-----------------------------------------------------------------------------
(* Filter rules: a set of addresses as texts, and back. *)

Addresses == 0..(2^Width - 1)

(* netipx: the maximal runs of a set; the prefix a run is, if it is one. *)
Ranges(S) ==
    {r \in Addresses \X Addresses :
       /\ r[1] <= r[2] /\ r[1]..r[2] \subseteq S
       /\ r[1] - 1 \notin S /\ r[2] + 1 \notin S}
Network(a, bits) == a - (a % 2^(Width - bits))
PrefixOf(r) == {bits \in 0..Width : Network(r[1], bits) = r[1] /\ r[2] = r[1] + 2^(Width - bits) - 1}

ipSetToStrings(S) ==
    {IF r[1] = r[2] THEN <<"ip", r[1]>>
     ELSE IF PrefixOf(r) # {} THEN <<"prefix", r[1], CHOOSE b \in PrefixOf(r) : TRUE>>
     ELSE <<"range", r[1], r[2]>> : r \in Ranges(S)}

ParseIPSet_Exclusive(t) ==
    CASE t[1] = "*" -> {Addresses}
      [] t[1] = "prefix" -> IF Network(t[2], t[3]) = t[2] THEN {t[2]..(t[2] + 2^(Width - t[3]) - 1)} ELSE {}
      [] t[1] = "range" -> IF t[2] <= t[3] THEN {t[2]..(t[3] - 1)} ELSE {}
      [] t[1] = "ip" -> {{t[2]}}
      [] OTHER -> {}

(* util.ParseIPSet without the legacy bits, which no caller gives it. *)
ParseIPSet(t) ==
    CASE t[1] = "*" -> {Addresses}
      [] t[1] = "prefix" -> IF Network(t[2], t[3]) = t[2] THEN {t[2]..(t[2] + 2^(Width - t[3]) - 1)} ELSE {}
      [] t[1] = "range" -> IF t[2] <= t[3] THEN {t[2]..t[3]} ELSE {}
      [] t[1] = "ip" -> {{t[2]}}
      [] OTHER -> {}

(* Entries that cannot be read add nothing. *)
MatchFromStrings(texts) == UNION UNION {ParseIPSet(t) : t \in texts}

-----------------------------------------------------------------------------
(* Reverse DNS.  An address is its octets or nibbles, the first one first; a
   zone is a name under in-addr.arpa or ip6.arpa, labels in reverse order. *)

Parts(n, size, count) == [i \in 1..count |-> (n \div 2^(size * (count - i))) % 2^size]
Under(ip, zone) == IsSuffix(zone, Reverse(ip))

GenerateIPv4DNSRootDomain_Open(ip, maskBits) ==
    LET lastOctet == maskBits \div ByteSize
        wildcardBits == ByteSize - (maskBits % ByteSize)
        minVal == ip[lastOctet + 1]
    IN IF lastOctet >= Len(ip) THEN {Reverse(ip)}
       ELSE {<<i>> \o Reverse(SubSeq(ip, 1, lastOctet)) : i \in minVal..(minVal + 2^wildcardBits)}

(* ip is the network address of the prefix. *)
GenerateIPv4DNSRootDomain(ip, maskBits) ==
    LET lastOctet == maskBits \div ByteSize
        wildcardBits == ByteSize - (maskBits % ByteSize)
        minVal == ip[lastOctet + 1]
    IN IF lastOctet >= Len(ip) THEN {Reverse(ip)}
       ELSE {<<i>> \o Reverse(SubSeq(ip, 1, lastOctet)) : i \in minVal..(minVal + 2^wildcardBits - 1)}

nibbleLen == 4
GenerateIPv6DNSRootDomain(ip, maskBits) ==
    LET constantParts == Reverse(SubSeq(ip, 1, maskBits \div nibbleLen))
    IN IF maskBits % nibbleLen = 0 THEN {constantParts}
       ELSE {<<i>> \o constantParts : i \in 0..(2^(maskBits % nibbleLen) - 1)}

(* The routes MagicDNS adds to those of Split DNS. *)
magicDNSRoutes(routes, domains) == [d \in domains |-> {}] @@ routes

=============================================================================
