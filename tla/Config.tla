-------------------------------- MODULE Config --------------------------------
(***************************************************************************)
(* The configuration of a server: what hscontrol/types/config.go reads     *)
(* from the configuration file, what it refuses, and the values the rest   *)
(* of the server gets.                                                     *)
(*                                                                         *)
(* A file is a function from the keys it sets to their values; dots in the *)
(* names of the keys are underscores.  Durations are milliseconds.  A URL  *)
(* keeps the two views Go gives of its host: hostname, the labels of the   *)
(* name, and host, the same labels with the port on the last one.          *)
(***************************************************************************)
EXTENDS Naturals, Integers, Sequences, FiniteSets

-----------------------------------------------------------------------------
(* viper: the value in the file, else the default, else the zero value. *)

(* LoadConfig's SetDefault calls, for the keys modelled. *)
defaults ==
    [policy_mode |-> "file",
     tls_letsencrypt_challenge_type |-> "HTTP-01",
     dns_magic_dns |-> TRUE, dns_base_domain |-> <<>>, dns_override_local_dns |-> TRUE,
     dns_nameservers_global |-> <<>>, dns_nameservers_split |-> <<>>, dns_search_domains |-> <<>>,
     derp_server_enabled |-> FALSE, derp_server_automatically_add_embedded_derp_region |-> TRUE,
     grpc_allow_insecure |-> FALSE,
     oidc_only_start_if_oidc_is_available |-> TRUE, oidc_pkce_method |-> "S256",
     node_expiry |-> "0",
     node_ephemeral_inactivity_timeout |-> 120000,
     node_routes_ha_probe_interval |-> 10000, node_routes_ha_probe_timeout |-> 5000,
     tuning_node_store_batch_size |-> 100, tuning_node_store_batch_timeout |-> 500,
     prefixes_allocation |-> "sequential"]

zeroURL == [scheme |-> "", hostname |-> <<>>, host |-> <<>>]
zeroValues ==
    [server_url |-> zeroURL, oidc_issuer |-> zeroURL,
     oidc_client_id |-> "", oidc_client_secret |-> "", oidc_client_secret_path |-> "",
     policy_path |-> "", database_type |-> "", noise_private_key_path |-> "",
     tls_letsencrypt_hostname |-> "", tls_cert_path |-> "", tls_key_path |-> "",
     derp_server_stun_listen_addr |-> "", derp_urls |-> <<>>, derp_paths |-> <<>>,
     prefixes_v4 |-> "", prefixes_v6 |-> "", trusted_proxies |-> <<>>,
     dns_extra_records |-> <<>>, dns_extra_records_path |-> "",
     ephemeral_node_inactivity_timeout |-> 0]

Get(f, k) ==
    IF k \in DOMAIN f THEN f[k]
    ELSE IF k \in DOMAIN defaults THEN defaults[k] ELSE zeroValues[k]

(* A key with a default counts as set. *)
IsSet(f, k) == k \in DOMAIN f \cup DOMAIN defaults

-----------------------------------------------------------------------------
(* Keys of earlier releases. *)

replaced ==
    {<<"policy_path", "acl_policy_path">>, <<"dns_magic_dns", "dns_config_magic_dns">>,
     <<"dns_base_domain", "dns_config_base_domain">>,
     <<"dns_override_local_dns", "dns_config_override_local_dns">>,
     <<"dns_nameservers_global", "dns_config_nameservers">>,
     <<"dns_nameservers_split", "dns_config_restricted_nameservers">>,
     <<"dns_search_domains", "dns_config_domains">>,
     <<"dns_extra_records", "dns_config_extra_records">>}

removed == {"dns_use_username_in_magic_dns", "dns_config_use_username_in_magic_dns",
            "oidc_strip_email_domain", "oidc_map_legacy_users", "randomize_client_port", "oidc_expiry"}

fatalIfNewKeyIsNotUsed(f, newKey, oldKey) == IsSet(f, oldKey) /\ ~IsSet(f, newKey)

(* depr.Log exits when some key is fatal. *)
deprecated(f) ==
    \/ \E p \in replaced : fatalIfNewKeyIsNotUsed(f, p[1], p[2])
    \/ \E k \in removed : IsSet(f, k)

(* The new key has a default, so it takes precedence unless it is set to
   the empty text, here -1. *)
resolveEphemeralInactivityTimeout(f) ==
    IF Get(f, "node_ephemeral_inactivity_timeout") # -1 \/ ~IsSet(f, "ephemeral_node_inactivity_timeout")
    THEN Get(f, "node_ephemeral_inactivity_timeout")
    ELSE Get(f, "ephemeral_node_inactivity_timeout")

(* No default expiry when it is "0", empty or not a duration. *)
resolveNodeExpiry(f) == IF Get(f, "node_expiry") = "180d" THEN 180 ELSE 0

-----------------------------------------------------------------------------
(* Validation. *)

validateOIDCConfig(f) ==
    /\ Get(f, "oidc_pkce_method") \in {"plain", "S256"}
    /\ Get(f, "oidc_issuer").scheme \in {"http", "https"}
    /\ Get(f, "oidc_issuer").host # <<>>
    /\ Get(f, "oidc_client_id") # ""
    /\ Get(f, "oidc_client_secret") # "" \/ Get(f, "oidc_client_secret_path") # ""

usesOIDC(f) == Get(f, "oidc_issuer") # zeroURL

minInactivityTimeout == 65000

validProbing_Equal(f) ==
    Get(f, "node_routes_ha_probe_interval") > 0 =>
        /\ Get(f, "node_routes_ha_probe_interval") >= 2000
        /\ Get(f, "node_routes_ha_probe_timeout") >= 1000
        /\ Get(f, "node_routes_ha_probe_timeout") <= Get(f, "node_routes_ha_probe_interval")
validProbing(f) ==
    Get(f, "node_routes_ha_probe_interval") > 0 =>
        /\ Get(f, "node_routes_ha_probe_interval") >= 2000
        /\ Get(f, "node_routes_ha_probe_timeout") >= 1000
        /\ Get(f, "node_routes_ha_probe_timeout") < Get(f, "node_routes_ha_probe_interval")

validateServerConfig(f) ==
    /\ usesOIDC(f) => validateOIDCConfig(f)
    /\ ~deprecated(f)
    /\ ~(IsSet(f, "dns_extra_records") /\ IsSet(f, "dns_extra_records_path"))
    /\ Get(f, "tls_letsencrypt_hostname") = ""
         \/ (Get(f, "tls_cert_path") = "" /\ Get(f, "tls_key_path") = "")
    /\ Get(f, "noise_private_key_path") # ""
    /\ Get(f, "tls_letsencrypt_challenge_type") \in {"HTTP-01", "TLS-ALPN-01"}
    /\ Get(f, "server_url").scheme \in {"http", "https"}
    /\ resolveEphemeralInactivityTimeout(f) > minInactivityTimeout
    /\ Get(f, "dns_override_local_dns") => Get(f, "dns_nameservers_global") # <<>>
    /\ validProbing(f)
    /\ Get(f, "tuning_node_store_batch_size") > 0
    /\ Get(f, "tuning_node_store_batch_timeout") > 0

(* isSafeServerURL: the loop compares the last labels of the host with the
   base domain. *)
endsWith_First(s, t) == \A i \in 1..Len(t) : s[i] = t[i]
endsWith(s, t) == \A i \in 0..(Len(t) - 1) : s[Len(s) - i] = t[Len(t) - i]
isSafeServerURL(server, baseDomain) ==
    /\ server.hostname # baseDomain
    /\ Len(server.host) > Len(baseDomain) => ~endsWith(server.host, baseDomain)

(* A prefix is "", "bad" or the text of one; a proxy range may be "zero". *)
prefixes(f) ==
    /\ Get(f, "prefixes_v4") # "bad" /\ Get(f, "prefixes_v6") # "bad"
    /\ Get(f, "prefixes_v4") # "" \/ Get(f, "prefixes_v6") # ""

trustedProxies(f) == \A i \in DOMAIN Get(f, "trusted_proxies") : Get(f, "trusted_proxies")[i] \notin {"bad", "zero"}

(* log.Fatal in derpConfig, databaseConfig and dnsToTailcfgDNS. *)
derpConfig(f) ==
    Get(f, "derp_server_enabled") =>
        /\ Get(f, "derp_server_stun_listen_addr") # ""
        /\ Get(f, "derp_server_automatically_add_embedded_derp_region") \/ Get(f, "derp_paths") # <<>>

databaseConfig(f) == Get(f, "database_type") \in {"sqlite", "sqlite3", "postgres"}

(* A nameserver that is neither an address nor a URL is left out. *)
resolvers(ns) == SelectSeq(ns, LAMBDA s : s # "bad")
splitResolvers(f) == [i \in DOMAIN Get(f, "dns_nameservers_split") |-> resolvers(Get(f, "dns_nameservers_split")[i])]

dnsToTailcfgDNS(f) ==
    [proxied |-> Get(f, "dns_magic_dns"),
     resolvers |-> IF Get(f, "dns_override_local_dns") THEN resolvers(Get(f, "dns_nameservers_global")) ELSE <<>>,
     fallback |-> IF Get(f, "dns_override_local_dns") THEN <<>> ELSE resolvers(Get(f, "dns_nameservers_global")),
     routes |-> splitResolvers(f),
     domains |-> (IF Get(f, "dns_base_domain") = <<>> THEN <<>> ELSE <<Get(f, "dns_base_domain")>>)
                 \o Get(f, "dns_search_domains")]

(* LoadServerConfig *)
accepts(f) ==
    /\ validateServerConfig(f)
    /\ prefixes(f)
    /\ trustedProxies(f)
    /\ Get(f, "prefixes_allocation") \in {"sequential", "random"}
    /\ derpConfig(f)
    /\ Get(f, "oidc_client_secret_path") \in {"", "readable"}
    /\ ~(Get(f, "oidc_client_secret_path") # "" /\ Get(f, "oidc_client_secret") # "")
    /\ Get(f, "dns_base_domain") # <<>> => isSafeServerURL(Get(f, "server_url"), Get(f, "dns_base_domain"))
    /\ databaseConfig(f)
    /\ Get(f, "dns_magic_dns") => Get(f, "dns_base_domain") # <<>>

LoadServerConfig(f) ==
    [database |-> IF Get(f, "database_type") = "postgres" THEN "postgres" ELSE "sqlite",
     policyMode |-> Get(f, "policy_mode"), policyPath |-> Get(f, "policy_path"),
     oidc |-> usesOIDC(f), onlyStartIfOIDCIsAvailable |-> Get(f, "oidc_only_start_if_oidc_is_available"),
     derpServer |-> Get(f, "derp_server_enabled"), stunAddr |-> Get(f, "derp_server_stun_listen_addr"),
     embeddedRegion |-> Get(f, "derp_server_automatically_add_embedded_derp_region"),
     derpSources |-> SelectSeq(Get(f, "derp_urls"), LAMBDA u : u # "bad") \o Get(f, "derp_paths"),
     extraRecords |-> Get(f, "dns_extra_records_path"),
     challenge |-> Get(f, "tls_letsencrypt_challenge_type"), letsEncrypt |-> Get(f, "tls_letsencrypt_hostname"),
     certificate |-> Get(f, "tls_cert_path"),
     probeInterval |-> Get(f, "node_routes_ha_probe_interval"), probeTimeout |-> Get(f, "node_routes_ha_probe_timeout"),
     inactivityTimeout |-> resolveEphemeralInactivityTimeout(f),
     nodeExpiry |-> resolveNodeExpiry(f),
     dns |-> dnsToTailcfgDNS(f)]

=============================================================================
