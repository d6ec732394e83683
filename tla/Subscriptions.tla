---------------------------- MODULE Subscriptions ----------------------------
(***************************************************************************)
(* What a subscription offers a client: the proxies the Hub derives from   *)
(* the bindings the client may use (routes/subscription/generator.rs) and  *)
(* the link each output format makes of a proxy (pp-subscription).  A link *)
(* keeps what decides whether a server accepts it: display names, device   *)
(* limits, rates, and an explicit skip_cert_verify, which the formats read *)
(* alike, are left out; of a fingerprint there is only whether the schema  *)
(* of sing-box, which a whole sing-box profile is checked against, knows   *)
(* it.                                                                     *)
(***************************************************************************)
EXTENDS PanelTables

(* A template's filter rules; an empty set filters nothing. *)
NoFilter == [protocols |-> {}, groups |-> {}]

-----------------------------------------------------------------------------
(* build_proxy_nodes                                                       *)

(* The bindings that share a group with the client.  Names of groups that  *)
(* have no row any more are dropped from the filter, be it to nothing.     *)
Listed(a, b, filter) ==
  LET named == filter.groups \cap groups
  IN /\ bindings[b] # None /\ bindings[b].active
     /\ protos[b[2]] # None /\ nodes[b[1]] # None
     /\ filter.protocols = {} \/ protos[b[2]].protocol \in filter.protocols
     /\ members[a] \cap bindings[b].groups # {}
     /\ named = {} \/ bindings[b].groups \cap named # {}

(* inject_client_credentials: behind the clients the settings hold already *)
InjectCredentials(s, a, protocol) ==
  LET entry == [cred |-> a, name |-> clients[a].name,
                flow |-> IF protocol = "vless_reality" THEN Vision ELSE ""]
      listed == Merge(s, [clients |-> List(Append(ClientsOf(s), entry))])
  IN IF protocol \in {"vless_reality", "vless_xhttp"}
     THEN Merge(listed, [id |-> Text(a)]) ELSE listed

(* resolve_subscription_tls: another node's certificate contributes nothing *)
ResolveSubscriptionTls(n, t) ==
  LET own == NamesCert(t) /\ certs[t["cert_id"]] = n
      named == IF own THEN Merge([k \in DOMAIN t \ {"cert_id"} |-> t[k]],
                                 [serverName |-> t["cert_id"]])
               ELSE t
  IN IF t = None THEN None
     ELSE IF Tls(named, "serverName") = "" /\ Tls(named, "domain") # ""
     THEN Merge(named, [serverName |-> named["domain"]]) ELSE named

(* An active inbound host replaces address and port, and of the settings   *)
(* `sni`, `host` and `path`, those that it has; otherwise a child node is  *)
(* reached at its parent.                                                  *)
ProxyNode(a, b) ==
  LET p == protos[b[2]]
      over == hosts[b] # None /\ hosts[b].active
      parent == nodes[b[1]]
      s == InjectCredentials(p.settings, a, p.protocol)
  IN [pair |-> b, protocol |-> p.protocol,
      server |-> IF over THEN "host" ELSE IF nodes[parent] # None THEN parent ELSE b[1],
      port |-> IF over THEN hosts[b].port ELSE p.port,
      settings |-> IF over THEN Merge(s, hosts[b].set) ELSE s,
      tls |-> ResolveSubscriptionTls(b[1], BindingTls(b))]

BuildProxyNodes(a, filter) ==
  IF clients[a].status = "limited" THEN {}
  ELSE {ProxyNode(a, b) : b \in {x \in Pair : Listed(a, x, filter)}}

-----------------------------------------------------------------------------
(* What the formats share                                                  *)

ServerName(t) == IF t # None /\ "serverName" \in DOMAIN t THEN t["serverName"] ELSE None

Link(p, cred, flow, reality, sni, obfs, transport) ==
  [pair |-> p.pair, server |-> p.server, port |-> p.port, protocol |-> p.protocol,
   cred |-> cred, flow |-> flow, reality |-> reality, sni |-> sni, obfs |-> obfs,
   transport |-> transport, verify |-> HasRealCertificate(p.tls)]

Network(s) == Or(Str(s, "network"), "tcp")

Reality(s) == [key |-> Or(Str(s, "public_key"), ""), name |-> Or(FirstServerName(s), ""),
               id |-> Or(FirstShortId(s), "")]
Keyless(s) == Blank(Str(s, "public_key"))

ObfsType(s) == Or(Str(s, "obfs_type"), "none")

XhttpPath(s) == Or(FirstStr(s, "xhttp_path", "path"), "/")

-----------------------------------------------------------------------------
(* sing-box JSON                                                           *)

SbSupports(p) == p.protocol \in {"vless_reality", "hysteria2", "anytls"}

(* The schema of an outbound's transport knows neither a host beside ws nor *)
(* a path beside grpc or quic, and no other type.                          *)
SchemaTransport(s) ==
  LET has(k) == Str(s, k) # None
  IN \/ Network(s) \in {"tcp", "http", "httpupgrade"}
     \/ Network(s) = "ws" /\ ~has("host")
     \/ Network(s) \in {"grpc", "quic"} /\ ~has("host") /\ ~has("path")

(* Nor does it know a spider_x, or other fingerprints and obfuscations.     *)
SchemaFingerprint ==
  {"chrome", "chrome_psk", "chrome_psk_shuffle", "chrome_padding_psk_shuffle", "chrome_pq",
   "chrome_pq_psk", "firefox", "edge", "safari", "360", "qq", "ios", "android", "random",
   "randomized"}
SchemaReality(s) == /\ Blank(Str(s, "spider_x"))
                    /\ Or(Str(s, "fingerprint"), "chrome") \in SchemaFingerprint
SchemaObfs(obfs) == obfs # None => obfs.type \in {"salamander", "gecko"}

SbLinkTransport(s) ==
  IF Network(s) = "tcp" THEN [type |-> "tcp", path |-> ""]
  ELSE [type |-> Network(s),
        path |-> Or(Str(s, "path"), IF Network(s) = "grpc" THEN "" ELSE "/")]

SbVlessLink(p) ==
  LET s == p.settings
  IN IF Blank(ClientUuid(s)) \/ Keyless(s) THEN Refused("key")
     ELSE IF ~(SchemaTransport(s) /\ SchemaReality(s)) THEN Refused("schema")
     ELSE Built(Link(p, ClientUuid(s), Or(Str(s, "flow"), ""), Reality(s), "", None,
                     SbLinkTransport(s)))

(* Obfuscation only where the password key holds a string, be it empty *)
SbObfs(s) ==
  IF ObfsType(s) # "none" /\ Str(s, "obfs_password") # None
  THEN [type |-> ObfsType(s), password |-> Str(s, "obfs_password")] ELSE None

SbSni(p) == Or(ServerName(p.tls), Or(Str(p.settings, "sni"), ""))

SbPasswordLink(p, obfs) ==
  IF Blank(ClientPassword(p.settings)) THEN Refused("password")
  ELSE IF ~SchemaObfs(obfs) THEN Refused("schema")
  ELSE Built(Link(p, ClientPassword(p.settings), "", None, SbSni(p), obfs,
                  [type |-> "tcp", path |-> ""]))

SbLink(p) ==
  CASE p.protocol = "vless_reality" -> SbVlessLink(p)
    [] p.protocol = "hysteria2" -> SbPasswordLink(p, SbObfs(p.settings))
    [] p.protocol = "anytls" -> SbPasswordLink(p, None)

-----------------------------------------------------------------------------
(* Clash YAML                                                              *)

ClashTransport(p) ==
  LET s == p.settings
      network == IF p.protocol = "vless_xhttp" THEN "xhttp" ELSE Network(s)
  IN CASE network = "xhttp" /\ p.protocol = "vless_xhttp" ->
            [type |-> "xhttp", path |-> XhttpPath(s)]
       [] network = "ws" -> [type |-> "ws", path |-> Or(Str(s, "path"), "/")]
       [] network = "grpc" -> [type |-> "grpc", path |-> Or(Str(s, "service_name"), "")]
       [] OTHER -> [type |-> network, path |-> ""]

(* A missing public key is written as an empty one. *)
ClashVlessLink(p) ==
  LET s == p.settings
  IN IF Blank(ClientUuid(s)) THEN Refused("id")
     ELSE IF p.protocol = "vless_reality"
     THEN Built(Link(p, ClientUuid(s), Or(Str(s, "flow"), ""), Reality(s), "", None,
                     ClashTransport(p)))
     ELSE Built(Link(p, ClientUuid(s), Or(Str(s, "flow"), ""), None,
                     Or(ServerName(p.tls), p.server), None, ClashTransport(p)))

(* Obfuscation wherever a type is set, with or without a password *)
TypedObfs(s) ==
  IF ObfsType(s) # "none"
  THEN [type |-> ObfsType(s), password |-> Or(Str(s, "obfs_password"), "")] ELSE None

(* The settings' own name first, which an inbound host may have set *)
ClashSni(p) == Or(Str(p.settings, "sni"), Or(ServerName(p.tls), p.server))

ClashPasswordLink(p, obfs) ==
  IF Blank(ClientPassword(p.settings)) THEN Refused("password")
  ELSE Built(Link(p, ClientPassword(p.settings), "", None, ClashSni(p), obfs,
                  [type |-> "tcp", path |-> ""]))

ClashLink(p) ==
  CASE p.protocol \in {"vless_reality", "vless_xhttp"} -> ClashVlessLink(p)
    [] p.protocol = "hysteria2" -> ClashPasswordLink(p, TypedObfs(p.settings))
    [] p.protocol = "anytls" -> ClashPasswordLink(p, None)

-----------------------------------------------------------------------------
(* Share links (base64 and v2rayng)                                        *)

(* tls_server_name *)
TlsServerName(p) == Or(ServerName(p.tls), Str(p.settings, "sni"))

(* Variant: a fixed path *)
ShareTransportFixed(p) ==
  LET network == IF p.protocol = "vless_xhttp" THEN "xhttp" ELSE Network(p.settings)
  IN CASE network \in {"xhttp", "ws"} -> [type |-> network, path |-> "/"]
       [] OTHER -> [type |-> network, path |-> ""]

ShareTransport(p) ==
  LET s == p.settings
      network == IF p.protocol = "vless_xhttp" THEN "xhttp" ELSE Network(s)
  IN CASE network = "xhttp" -> [type |-> "xhttp", path |-> XhttpPath(s)]
       [] network = "ws" -> [type |-> "ws", path |-> Or(Str(s, "path"), "/")]
       [] network = "grpc" -> [type |-> "grpc", path |-> Or(Str(s, "service_name"), "")]
       [] OTHER -> [type |-> network, path |-> ""]

(* Without TLS settings a plain VLESS link names no server. *)
ShareVlessLink(p) ==
  LET s == p.settings
      reality == p.protocol = "vless_reality"
  IN IF Blank(ClientUuid(s)) \/ (reality /\ Keyless(s)) THEN Refused("key")
     ELSE Built(Link(p, ClientUuid(s), Or(Str(s, "flow"), ""),
                     IF reality THEN Reality(s) ELSE None,
                     IF reality \/ p.tls = None THEN "" ELSE Or(TlsServerName(p), ""),
                     None, ShareTransport(p)))

SharePasswordLink(p, obfs) ==
  IF Blank(ClientPassword(p.settings)) THEN Refused("password")
  ELSE Built(Link(p, ClientPassword(p.settings), "", None, Or(TlsServerName(p), p.server), obfs,
                  [type |-> "tcp", path |-> ""]))

ShareLink(p) ==
  CASE p.protocol \in {"vless_reality", "vless_xhttp"} -> ShareVlessLink(p)
    [] p.protocol = "hysteria2" -> SharePasswordLink(p, TypedObfs(p.settings))
    [] p.protocol = "anytls" -> SharePasswordLink(p, None)

-----------------------------------------------------------------------------
(* One link that cannot be made fails the whole subscription.              *)

Format == {"sing-box", "clash", "base64"}

Rendered(links) ==
  IF \E l \in links : ~l.ok THEN Refused("link") ELSE Built({l.is : l \in links})

Subscription(format, proxies) ==
  CASE format = "sing-box" -> Rendered({SbLink(p) : p \in {q \in proxies : SbSupports(q)}})
    [] format = "clash" -> Rendered({ClashLink(p) : p \in proxies})
    [] format = "base64" -> Rendered({ShareLink(p) : p \in proxies})
=============================================================================
