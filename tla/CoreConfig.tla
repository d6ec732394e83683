----------------------------- MODULE CoreConfig -----------------------------
(***************************************************************************)
(* What the Hub computes for one core of one node: the inbounds of its     *)
(* bindings and the outbounds of its relay rules (service/protocol and the *)
(* pp-config crate).  A configuration is a record of what decides whether  *)
(* a connection is accepted; names, log levels and rates are left out.     *)
(***************************************************************************)
EXTENDS PanelTables

(* "TLS" is in the message of a refusal for lack of certificates.          *)
Inbound(i, users, reality, cert, obfs, transport) ==
  [pair |-> i.pair, protocol |-> i.protocol, port |-> i.port, users |-> users,
   reality |-> reality, cert |-> cert, obfs |-> obfs, transport |-> transport]

NoTransport == [type |-> "tcp", path |-> ""]
-----------------------------------------------------------------------------
(* What a binding hands to a builder                                       *)

(* client_to_protocol_entry: the id is the uuid or the password *)
ClientEntry(a, protocol) ==
  [cred |-> a, name |-> clients[a].name,
   flow |-> IF protocol = "vless_reality" THEN Vision ELSE ""]

(* The clients that share a group with the binding *)
Joined(b) == {a \in Account : members[a] \cap bindings[b].groups # {}}

(* Variant: whatever their status *)
ServerEntriesAll(b, s) ==
  IF Joined(b) # {}
  THEN {ClientEntry(a, protos[b[2]].protocol) : a \in {x \in Joined(b) : clients[x] # None}}
  ELSE {ClientsOf(s)[k] : k \in DOMAIN ClientsOf(s)}

(* inject_binding_clients: without a common member the stored array stays. *)
ServerEntries(b, s) ==
  IF Joined(b) # {}
  THEN {ClientEntry(a, protos[b[2]].protocol) :
          a \in {x \in Joined(b) : clients[x] # None /\ clients[x].status = "active"}}
  ELSE {ClientsOf(s)[k] : k \in DOMAIN ClientsOf(s)}

(* resolve_managed_cert_tls *)
CertIsOf(n, t) == certs[t["cert_id"]] = n
ResolveCert(t) == IF NamesCert(t) THEN [managed_domain |-> t["cert_id"]] ELSE t

InboundConfig(b) ==
  LET p == protos[b[2]]
      s == Merge(p.settings, bindings[b].over)
  IN [pair |-> b, protocol |-> p.protocol, port |-> p.port, settings |-> s,
      listed |-> Joined(b) # {} \/ HasClients(s), entries |-> ServerEntries(b, s),
      tls |-> ResolveCert(BindingTls(b))]

Placeholder(x) == IF Blank(x) THEN {} ELSE {[cred |-> x, name |-> "", flow |-> ""]}

(* Obfuscation needs a type and a password. *)
ServerObfs(s) ==
  IF Or(Str(s, "obfs_type"), "none") # "none" /\ ~Blank(Str(s, "obfs_password"))
  THEN [type |-> Str(s, "obfs_type"), password |-> Str(s, "obfs_password")]
  ELSE None

-----------------------------------------------------------------------------
(* sing-box                                                                *)

SbUuidUsers(i) ==
  LET flow == Str(i.settings, "flow")
      listed == IF i.listed THEN i.entries ELSE Placeholder(Str(i.settings, "uuid"))
  IN IF Blank(flow) THEN listed ELSE {[u EXCEPT !.flow = flow] : u \in listed}

SbPasswordUsers(i) ==
  IF i.listed THEN i.entries ELSE Placeholder(Str(i.settings, "password"))

SbTransport(s) ==
  LET network == Or(Str(s, "network"), "tcp")
  IN CASE network = "ws" -> [type |-> "ws", path |-> Or(Str(s, "path"), "/")]
       [] network = "grpc" -> [type |-> "grpc", path |-> Or(Str(s, "service_name"), "")]
       [] network \in {"httpupgrade", "xhttp"} ->
            [type |-> "httpupgrade", path |-> Or(FirstStr(s, "path", "xhttp_path"), "/")]
       [] OTHER -> NoTransport

(* Variant: the legacy name of the short id is not read *)
SbRealityNew(s) ==
  LET dest == FirstStr(s, "reality_dest", "dest")
      key == FirstStr(s, "reality_private_key", "private_key")
  IN IF Blank(dest) \/ Blank(key) THEN None
     ELSE [key |-> key, names |-> {Or(FirstServerName(s), dest)},
           ids |-> {Or(FirstItem(s, "reality_short_id", "reality_short_id"), "")}]

(* One server name and one short id, the destination's host and "" without *)
SbReality(s) ==
  LET dest == FirstStr(s, "reality_dest", "dest")
      key == FirstStr(s, "reality_private_key", "private_key")
      own == IF "reality_short_id" \in DOMAIN s THEN "reality_short_id" ELSE "short_id"
      ids == IF FirstShortId(s) # None THEN {FirstShortId(s)}
             ELSE IF ~Blank(Str(s, own)) THEN {Str(s, own)} ELSE {""}
  IN IF Blank(dest) \/ Blank(key) THEN None
     ELSE [key |-> key, names |-> {Or(FirstServerName(s), dest)}, ids |-> ids]

(* Managed certificate, certificate files, built-in ACME: in this order *)
SbServerTls(t) ==
  IF t = None THEN None
  ELSE IF Tls(t, "managed_domain") # "" THEN [by |-> "managed", name |-> t["managed_domain"]]
  ELSE IF Tls(t, "certFile") # "" /\ Tls(t, "keyFile") # "" THEN [by |-> "files", name |-> ""]
  ELSE IF Tls(t, "domain") # "" THEN [by |-> "acme", name |-> t["domain"]]
  ELSE None

SbVless(i) ==
  LET reality == SbReality(i.settings)
  IN IF reality = None THEN Refused("keys")
     ELSE Built(Inbound(i, SbUuidUsers(i), reality, None, None, SbTransport(i.settings)))

SbHysteria2(i) ==
  LET cert == SbServerTls(i.tls)
  IN IF cert = None THEN Refused("TLS")
     ELSE Built(Inbound(i, SbPasswordUsers(i), None, cert, ServerObfs(i.settings), NoTransport))

SbAnytls(i) ==
  LET cert == SbServerTls(i.tls)
  IN IF cert = None THEN Refused("TLS")
     ELSE Built(Inbound(i, SbPasswordUsers(i), None, cert, None, NoTransport))

SbInbound(i) ==
  CASE i.protocol = "vless_reality" -> SbVless(i)
    [] i.protocol = "hysteria2" -> SbHysteria2(i)
    [] i.protocol = "anytls" -> SbAnytls(i)
    [] OTHER -> Refused("protocol")

(* From 1.14 on, the API service and a Clash API beside it; without an     *)
(* inbound the version is unknown and taken for 1.14.                      *)
SbApi(inputs, version) ==
  IF inputs = {} \/ version = "1.14" THEN {"api", "clash"} ELSE {"clash"}

-----------------------------------------------------------------------------
(* mihomo                                                                  *)

MhUuidUsers(i, withFlow) ==
  LET own == IF withFlow THEN Or(Str(i.settings, "flow"), "") ELSE ""
      flow(u) == IF ~withFlow THEN "" ELSE IF u.flow # "" THEN u.flow ELSE own
      listed == IF i.listed THEN i.entries ELSE Placeholder(Str(i.settings, "uuid"))
  IN {[u EXCEPT !.flow = flow(u)] : u \in listed}

(* A map from names to passwords: of the users of one name, one is left. *)
MhPasswordUsers(i) ==
  LET listed == IF i.listed THEN {u \in i.entries : ~Blank(u.cred)}
                ELSE Placeholder(Str(i.settings, "password"))
      named(n) == {u \in listed : u.name = n}
      unnamed == named("")
  IN unnamed \union {CHOOSE u \in named(n) : TRUE : n \in {u.name : u \in listed \ unnamed}}

(* comma_list(setting_str(..)): an array is no string and counts as empty *)
CommaList(s, key, other) ==
  LET k == IF Str(s, key) # None THEN key ELSE other
  IN IF Str(s, k) = None THEN {} ELSE {s[k].items[j] : j \in DOMAIN s[k].items}

MhReality(s) ==
  LET dest == FirstStr(s, "reality_dest", "dest")
      key == FirstStr(s, "reality_private_key", "private_key")
      names == CommaList(s, "reality_server_names", "server_names")
      ids == CommaList(s, "reality_short_id", "short_id")
  IN IF Blank(dest) \/ Blank(key) THEN None
     ELSE [key |-> key, names |-> IF names = {} THEN {dest} ELSE names,
           ids |-> IF ids = {} THEN {""} ELSE ids]

(* apply_cert_tls: no built-in ACME *)
MhServerTls(t) ==
  LET cert == SbServerTls(t)
  IN IF cert # None /\ cert.by = "acme" THEN None ELSE cert

MhVlessReality(i) ==
  LET reality == MhReality(i.settings)
  IN IF reality = None THEN Refused("keys")
     ELSE Built(Inbound(i, MhUuidUsers(i, TRUE), reality, None, None, NoTransport))

MhVlessXhttp(i) ==
  LET cert == MhServerTls(i.tls)
      path == Or(FirstStr(i.settings, "xhttp_path", "path"), "/")
  IN IF cert = None THEN Refused("TLS")
     ELSE Built(Inbound(i, MhUuidUsers(i, FALSE), None, cert, None,
                        [type |-> "xhttp", path |-> path]))

MhHysteria2(i) ==
  LET cert == MhServerTls(i.tls)
  IN IF cert = None THEN Refused("TLS")
     ELSE Built(Inbound(i, MhPasswordUsers(i), None, cert, ServerObfs(i.settings), NoTransport))

MhAnytls(i) ==
  LET cert == MhServerTls(i.tls)
  IN IF cert = None THEN Refused("TLS")
     ELSE Built(Inbound(i, MhPasswordUsers(i), None, cert, None, NoTransport))

MhInbound(i) ==
  CASE i.protocol = "vless_reality" -> MhVlessReality(i)
    [] i.protocol = "vless_xhttp" -> MhVlessXhttp(i)
    [] i.protocol = "hysteria2" -> MhHysteria2(i)
    [] i.protocol = "anytls" -> MhAnytls(i)

-----------------------------------------------------------------------------
(* Relay hops: what an entry node dials                                    *)

(* str_setting: a string that is not empty *)
FilledStr(s, key) == IF Blank(Str(s, key)) THEN None ELSE Str(s, key)

(* first_string_setting: string or array, key by key *)
FilledItem(s, key, other) ==
  IF ItemOf(s, key) # None THEN ItemOf(s, key) ELSE ItemOf(s, other)

(* An empty type is none here. *)
HopObfs(s) == IF FilledStr(s, "obfs_type") = None THEN None ELSE ServerObfs(s)

(* resolve_relay_sni reads the binding's TLS settings only. *)
RelaySni(b) ==
  LET t == bindings[b].tls
  IN IF NamesCert(t) /\ certs[t["cert_id"]] # None THEN t["cert_id"]
     ELSE IF t # None /\ Tls(t, "domain") # "" THEN t["domain"] ELSE None

(* match_spec: a rule whose inline lists hold only empty strings routes    *)
(* nothing, and its outbound is there all the same.                        *)
RouteOf(r) ==
  CASE rules[r].match = "blank" -> None
    [] rules[r].match = "inline" -> "domains"
    [] rules[r].match = "rule_set" -> "rule_set"

Hop(r) ==
  LET b == rules[r].exit
      p == protos[b[2]]
      s == p.settings
      name == FilledItem(s, "reality_server_names", "server_names")
      link == [node |-> b[1], pair |-> b, server |-> b[1], port |-> p.port,
               protocol |-> p.protocol, cred |-> rules[r].client, flow |-> "",
               reality |-> None, sni |-> RelaySni(b), obfs |-> None,
               transport |-> NoTransport, route |-> RouteOf(r)]
  IN CASE p.protocol = "vless_reality" ->
            IF FilledStr(s, "public_key") = None \/ name = None THEN Refused("hop")
            ELSE Built([link EXCEPT
                          !.flow = Or(FilledStr(s, "flow"), ""),
                          !.reality = [key |-> FilledStr(s, "public_key"), name |-> name,
                                       id |-> Or(FilledItem(s, "reality_short_id", "short_id"),
                                                 "")]])
       [] p.protocol = "hysteria2" ->
            IF RelaySni(b) = None THEN Refused("hop")
            ELSE Built([link EXCEPT !.obfs = HopObfs(s)])
       [] p.protocol = "anytls" ->
            IF RelaySni(b) = None THEN Refused("hop") ELSE Built(link)
       [] OTHER -> Refused("hop")

(* The enabled rules of the node whose exit still has all its rows: the    *)
(* others are skipped.  Neither the binding's is_active nor the exit's     *)
(* core is looked at.                                                      *)
RulesOf(n) ==
  {r \in Rows(rules) :
     /\ rules[r].node = n /\ rules[r].enabled
     /\ LET b == rules[r].exit
        IN bindings[b] # None /\ protos[b[2]] # None /\ nodes[b[1]] # None}

-----------------------------------------------------------------------------
(* generate_node_config                                                    *)

(* An inbound refused for its TLS is left out; any other refusal fails the *)
(* whole configuration.                                                    *)
Skippable(c, i, result) ==
  /\ ~result.ok /\ result.why = "TLS"
  /\ i.protocol \in {"hysteria2", "anytls"}
                    \union (IF c = "mihomo" THEN {"vless_xhttp"} ELSE {})

Build(c, i) == IF c = "sing-box" THEN SbInbound(i) ELSE MhInbound(i)

EffectiveVersion(c) ==
  IF versions[c] # None THEN versions[c] ELSE IF c = "sing-box" THEN "1.13" ELSE None

ActiveBindings(n) == {b \in Rows(bindings) : b[1] = n /\ bindings[b].active}

NoConfig == [ok |-> FALSE]

(* What a configuration is made of *)
ForCore(n, c) == {b \in ActiveBindings(n) : protos[b[2]] # None /\ protos[b[2]].core = c}
Inputs(n, c) == {InboundConfig(b) : b \in ForCore(n, c)}
Hops(n) == {Hop(r) : r \in RulesOf(n)}

(* What makes it fail: a binding without configuration, another node's     *)
(* certificate, an inbound or a hop that cannot be built                   *)
Dangling(n) == \E b \in ActiveBindings(n) : protos[b[2]] = None
Misnamed(n, c) ==
  \E b \in ForCore(n, c) : NamesCert(BindingTls(b)) /\ ~CertIsOf(n, BindingTls(b))
Buildable(c, inputs, hops) ==
  /\ \A i \in inputs : Build(c, i).ok \/ Skippable(c, i, Build(c, i))
  /\ \A h \in hops : h.ok

Inbounds(c, inputs) == {Build(c, i).is : i \in {j \in inputs : Build(c, j).ok}}
Api(c, inputs, version) == IF c = "sing-box" THEN SbApi(inputs, version) ELSE {"clash"}

Assembled(c, inputs, hops, version) ==
  [ok |-> TRUE, inbounds |-> Inbounds(c, inputs), hops |-> {h.is : h \in hops},
   api |-> Api(c, inputs, version), version |-> version]

GenerateNodeConfig(n, c) ==
  IF Dangling(n) \/ Misnamed(n, c) \/ ~Buildable(c, Inputs(n, c), Hops(n)) THEN NoConfig
  ELSE Assembled(c, Inputs(n, c), Hops(n), EffectiveVersion(c))

-----------------------------------------------------------------------------
(* validate_node_port_conflicts, before every push: two bindings that ask  *)
(* for one port are refused when they are of one core.                     *)

AskedPort(b) == Or(Num(bindings[b].over, "listen_port"), protos[b[2]].port)

PortsValid(n) ==
  \A b, d \in {x \in ActiveBindings(n) : protos[x[2]] # None} :
    b # d /\ AskedPort(b) = AskedPort(d) => protos[b[2]].core # protos[d[2]].core
=============================================================================
