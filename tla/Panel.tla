-------------------------------- MODULE Panel --------------------------------
(***************************************************************************)
(* The administrator's edits of the Hub's tables, one action per route of  *)
(* the API, and what they do to the configurations that nodes are pushed   *)
(* and to the links that clients are given.  The default database, SQLite, *)
(* keeps no foreign keys: a row that is deleted takes along only what its  *)
(* handler deletes.  Ids are random and never used twice.                  *)
(***************************************************************************)
EXTENDS CoreConfig, Subscriptions

CONSTANTS
  Stored,     \* configurations the panel starts with, as records of `protos`
  Payload,    \* those of them that are posted later
  Override,   \* override_settings of bindings, as [over, tls]
  HostEntry,  \* inbound hosts that are posted, as records of `hosts`
  Match,      \* what relay rules match: "blank", "inline", "rule_set"
  MaxEdits    \* bound on the number of edits

(* The presets, for a domain "d" and the port 443, which is 1 here.  The   *)
(* keys of REALITY are left for the administrator to fill in.              *)
Preset == {"vless_reality", "vless_xhttp", "hysteria2", "anytls"}

DefaultTls == [serverName |-> "d", certFile |-> "f", keyFile |-> "f"]

PresetSettings(preset) ==
  CASE preset = "vless_reality" ->
         [clients |-> List(<<>>), flow |-> Text(Vision), network |-> Text("tcp"),
          reality_dest |-> Text("d"), reality_server_names |-> Text("d"),
          reality_private_key |-> Text(""), reality_short_id |-> Text("i")]
    [] preset = "vless_xhttp" ->
         [clients |-> List(<<>>), network |-> Text("xhttp"), xhttp_path |-> Text("/xhttp")]
    [] preset = "hysteria2" ->
         [clients |-> List(<<>>), obfs_type |-> Text("none"), obfs_password |-> Text("")]
    [] preset = "anytls" -> [clients |-> List(<<>>)]

ExpandPreset(preset) ==
  [protocol |-> preset, core |-> IF preset = "vless_xhttp" THEN "mihomo" ELSE "sing-box",
   port |-> 1, settings |-> PresetSettings(preset),
   tls |-> IF preset = "vless_reality" THEN None ELSE DefaultTls]

Configs == Stored \union {ExpandPreset(x) : x \in Preset}

(* An expired client is treated like a limited one. *)
Status == {"active", "limited", "on_hold"}

(* Rows: what is stored comes from what is posted and from the presets. *)
ConfigRow == [protocol : Preset, core : Core, port : Nat,
              settings : {x.settings : x \in Configs}, tls : {None} \union {x.tls : x \in Configs}]
BindingRow == [active : BOOLEAN, over : {NoKeys} \union {o.over : o \in Override},
               tls : {None} \union {o.tls : o \in Override}, groups : SUBSET Group]
ClientRow == [status : Status, name : Account]
RuleRow == [node : Node, exit : Pair, client : Relay, match : Match, enabled : BOOLEAN]

(* TLS settings are objects of strings, and `cert_id` is an id of a        *)
(* certificate; the values of settings are not null.                       *)
TlsStored == ({x.tls : x \in Configs} \union {o.tls : o \in Override}) \ {None}
TlsKey == {"serverName"} \union UNION {DOMAIN t : t \in TlsStored}
TlsText == Cert \union UNION {{t[k] : k \in DOMAIN t} : t \in TlsStored}
TlsObject == {t \in UNION {[keys -> TlsText] : keys \in SUBSET TlsKey} :
                "cert_id" \in DOMAIN t => t["cert_id"] \in Cert}

WellFormed(s) ==
  \A k \in DOMAIN s : /\ s[k].items # <<>> => 1 \in DOMAIN s[k].items
                      /\ \A j \in DOMAIN s[k].items : s[k].items[j] # None

(* validate_protocol; an absent row or object is none of those that can    *)
(* be; ids and domains are not empty; and a panel that is in use has   *)
(* two nodes, two configurations and one row of every other kind.          *)
ASSUME PanelAssumption ==
  /\ MaxEdits \in Nat /\ Payload \subseteq Stored /\ Stored \subseteq ConfigRow
  /\ Match \subseteq {"blank", "inline", "rule_set"}
  /\ None \notin Node \union ConfigRow \union BindingRow \union ClientRow \union RuleRow
  /\ (\E n, e \in Node : n # e) /\ (\E p, q \in Proto : p # q)
  /\ {} \notin {Client, Relay, Group, Rule} /\ Client \cap Relay = {}
  /\ {None, ""} \cap (Account \union Cert) = {} /\ None # ""
  /\ None \notin TlsObject \union TlsText /\ TlsStored \subseteq TlsObject
  /\ \A x \in Configs : WellFormed(x.settings) /\ None # Reality(x.settings)

VARIABLES
  edits,      \* the number of edits so far
  edit        \* the last one: [op, done, marks, lost], its pending updates in two

panelVars == <<tables, edits, edit>>

NoEdit == [op |-> "none", done |-> TRUE, marks |-> {}, lost |-> {}]

PanelTypeOK ==
  /\ nodes \in [Node -> Node \union {None}]
  /\ protos \in [Proto -> ConfigRow \union {None}]
  /\ bindings \in [Pair -> BindingRow \union {None}]
  /\ clients \in [Account -> ClientRow \union {None}]
  /\ members \in [Account -> SUBSET Group] /\ groups \subseteq Group
  /\ certs \in [Cert -> Node \union {None}]
  /\ hosts \in [Pair -> HostEntry \union {None}]
  /\ rules \in [Rule -> RuleRow \union {None}]
  /\ versions \in [Core -> Version \union {None}]
  /\ edit.done \in BOOLEAN /\ edit.marks \union edit.lost \subseteq Node \X Core

(* A panel in use: a configuration offered to a client through a group, on *)
(* one node; or on all nodes, of which one has a configuration of its own  *)
(* and a relay rule to another.                                            *)
Relayable == {"vless_reality", "hysteria2", "anytls"}

Provisioned(bound, used, g, x) ==
  /\ nodes = [n \in Node |-> n]
  /\ protos = [q \in Proto |-> IF q \in {b[2] : b \in bound} THEN x ELSE None]
  /\ bindings = [b \in Pair |-> IF b \in bound
                   THEN [active |-> TRUE, over |-> NoKeys, tls |-> None, groups |-> {g}]
                   ELSE None]
  /\ certs = [k \in Cert |-> CHOOSE n \in Node : TRUE]
  /\ clients = [c \in Account |->
                  IF c \in used THEN [status |-> "active", name |-> c] ELSE None]
  /\ members = [c \in Account |-> IF c \in used THEN {g} ELSE {}]
  /\ groups = {g} /\ hosts = [b \in Pair |-> None] /\ versions = [c \in Core |-> None]

(* Ids are interchangeable: the initial state takes one of each kind. *)
PanelInit ==
  /\ LET n == CHOOSE n \in Node : TRUE
         e == CHOOSE e \in Node \ {n} : TRUE
         p == CHOOSE p \in Proto : TRUE
         own == CHOOSE q \in Proto \ {p} : TRUE
         a == CHOOSE a \in Client : TRUE
         c == CHOOSE c \in Relay : TRUE
         g == CHOOSE g \in Group : TRUE
         r == CHOOSE r \in Rule : TRUE
     IN \E x \in Configs :
          \/ /\ Provisioned({<<n, p>>}, {a}, g, x)
             /\ rules = [q \in Rule |-> None]
          \/ /\ x.protocol \in Relayable
             /\ Provisioned({<<n, own>>} \union (Node \ {n}) \X {p}, {a, c}, g, x)
             /\ \E m \in Match :
                  rules = [q \in Rule |-> IF q # r THEN None
                             ELSE [node |-> n, exit |-> <<e, p>>, client |-> c, match |-> m,
                                   enabled |-> TRUE]]
  /\ edits = 0 /\ edit = NoEdit

(* What every edit has in common: it is counted, and marks pairs of a node *)
(* and a core; `done` says whether the handler came to its end.  The marks *)
(* of a core are lost when the database fails at them, or at the search    *)
(* for the nodes: that is logged, and the handler answers success.         *)
Edit(op, done, marks) ==
  /\ edits < MaxEdits /\ edits' = edits + 1
  /\ \E failing \in SUBSET Core :
       LET lost == {m \in marks : m[2] \in failing}
       IN edit' = [op |-> op, done |-> done, marks |-> marks \ lost, lost |-> lost]

(* The marks the last handler came to, whether they were written or lost *)
Sought == edit.marks \union edit.lost

-----------------------------------------------------------------------------
(* Protocol configurations                                                 *)

(* validate_protocol *)
ValidCore(protocol, core) == protocol = "vless_xhttp" => core = "mihomo"

Unreferenced(p) == \A n \in Node : hosts[<<n, p>>] = None
                   /\ \A r \in Rows(rules) : rules[r].exit[2] # p

InsertConfig(p, x) ==
  /\ protos[p] = None /\ Unreferenced(p)
  /\ protos' = [protos EXCEPT ![p] = x]
  /\ Edit("create_config", TRUE, {})
  /\ UNCHANGED <<nodes, bindings, clients, members, groups, certs, hosts, rules, versions>>

CreateConfig(p, x) == ValidCore(x.protocol, x.core) /\ InsertConfig(p, x)
ApplyPreset(p, preset) == InsertConfig(p, ExpandPreset(preset))

NodesUsing(p) == {n \in Node : bindings[<<n, p>>] # None /\ bindings[<<n, p>>].active}

(* Fields that are not posted keep their value, but for the TLS settings.  *)
(* The marks are for the core the configuration has afterwards.            *)
StoreConfig(p, x) ==
  /\ protos[p] # None /\ ValidCore(x.protocol, x.core)
  /\ protos' = [protos EXCEPT ![p] = x]
  /\ Edit("update_config", TRUE, NodesUsing(p) \X {x.core})
  /\ UNCHANGED <<nodes, bindings, clients, members, groups, certs, hosts, rules, versions>>

UpdateConfig(p, x) == StoreConfig(p, x)
MoveConfig(p, c) == protos[p] # None /\ StoreConfig(p, [protos[p] EXCEPT !.core = c, !.tls = None])

(* A failure to delete the bindings' groups or the bindings is not noticed *)
(* and leaves them: `fate` is what happens to the bindings.                *)
Fate == {"deleted", "bare", "kept"}
BindingAfter(b, fate) == CASE fate = "deleted" -> None
                           [] fate = "bare" -> [bindings[b] EXCEPT !.groups = {}]
                           [] fate = "kept" -> bindings[b]

(* Steps: 1 the bindings, 2 the row and the marks.  Without a row, which   *)
(* an earlier deletion of the same configuration took, the answer is 404.  *)
DeleteConfig(p, fate, upTo) ==
  LET bound == {b \in Rows(bindings) : b[2] = p}
      done == upTo = 2 /\ protos[p] # None
  IN /\ protos[p] # None \/ bound # {}
     /\ protos' = IF done THEN [protos EXCEPT ![p] = None] ELSE protos
     /\ bindings' = [b \in Pair |-> IF b \in bound THEN BindingAfter(b, fate) ELSE bindings[b]]
     /\ Edit("delete_config", done, IF done THEN {b[1] : b \in bound} \X Core ELSE {})
     /\ UNCHANGED <<nodes, clients, members, groups, certs, hosts, rules, versions>>

-----------------------------------------------------------------------------
(* Bindings: no pending updates                                            *)

(* validate_tls_override *)
ValidOverride(b, o) ==
  o.tls # None =>
    /\ NamesCert(o.tls) => CertIsOf(b[1], o.tls)
    /\ Tls(o.tls, "domain") # "" => protos[b[2]] # None /\ protos[b[2]].core = "sing-box"

CreateBinding(b, o) ==
  /\ bindings[b] = None /\ nodes[b[1]] # None /\ protos[b[2]] # None
  /\ ValidOverride(b, o) /\ \A r \in Rows(rules) : rules[r].exit # b
  /\ bindings' = [bindings EXCEPT ![b] =
                    [active |-> TRUE, over |-> o.over, tls |-> o.tls, groups |-> {}]]
  /\ Edit("create_binding", TRUE, {})
  /\ UNCHANGED <<nodes, protos, clients, members, groups, certs, hosts, rules, versions>>

SetBindingActive(b, active) ==
  /\ bindings[b] # None /\ bindings[b].active # active
  /\ bindings' = [bindings EXCEPT ![b].active = active]
  /\ Edit("update_binding", TRUE, {})
  /\ UNCHANGED <<nodes, protos, clients, members, groups, certs, hosts, rules, versions>>

OverrideBinding(b, o) ==
  /\ bindings[b] # None /\ ValidOverride(b, o)
  /\ bindings' = [bindings EXCEPT ![b].over = o.over, ![b].tls = o.tls]
  /\ Edit("update_binding", TRUE, {})
  /\ UNCHANGED <<nodes, protos, clients, members, groups, certs, hosts, rules, versions>>

DeleteBinding(b) ==
  /\ bindings[b] # None
  /\ bindings' = [bindings EXCEPT ![b] = None]
  /\ Edit("delete_binding", TRUE, {})
  /\ UNCHANGED <<nodes, protos, clients, members, groups, certs, hosts, rules, versions>>

-----------------------------------------------------------------------------
(* Groups: no pending updates; deleting one leaves its members on both     *)
(* sides, where only the ids are compared.                                 *)

(* sync_group_bindings *)
SyncGroup(g, in) ==
  bindings' = [b \in Pair |->
    IF bindings[b] = None THEN None
    ELSE [bindings[b] EXCEPT !.groups = IF b \in in THEN @ \union {g} ELSE @ \ {g}]]

CreateGroup(g, in) ==
  /\ g \notin groups /\ in \subseteq Rows(bindings)
  /\ \A a \in Account : g \notin members[a]
  /\ \A b \in Rows(bindings) : g \notin bindings[b].groups
  /\ groups' = groups \union {g}
  /\ SyncGroup(g, in)
  /\ Edit("create_group", TRUE, {})
  /\ UNCHANGED <<nodes, protos, clients, members, certs, hosts, rules, versions>>

UpdateGroup(g, in) ==
  /\ g \in groups /\ in \subseteq Rows(bindings)
  /\ SyncGroup(g, in)
  /\ Edit("update_group", TRUE, {})
  /\ UNCHANGED <<nodes, protos, clients, members, groups, certs, hosts, rules, versions>>

DeleteGroup(g) ==
  /\ g \in groups /\ groups' = groups \ {g}
  /\ Edit("delete_group", TRUE, {})
  /\ UNCHANGED <<nodes, protos, bindings, clients, members, certs, hosts, rules, versions>>

-----------------------------------------------------------------------------
(* Clients: no pending updates                                             *)

(* Names are not unique. *)
CreateClient(a, name, status, in) ==
  /\ a \in Client /\ clients[a] = None /\ members[a] = {}
  /\ status \in {"active", "on_hold"} /\ in \subseteq groups
  /\ clients' = [clients EXCEPT ![a] = [status |-> status, name |-> name]]
  /\ members' = [members EXCEPT ![a] = in]
  /\ Edit("create_client", TRUE, {})
  /\ UNCHANGED <<nodes, protos, bindings, groups, certs, hosts, rules, versions>>

(* Any client can be edited, a relay rule's among them. *)
UpdateClient(a, status, in) ==
  /\ clients[a] # None /\ in \subseteq groups
  /\ clients' = [clients EXCEPT ![a].status = status]
  /\ members' = [members EXCEPT ![a] = in]
  /\ Edit("update_client", TRUE, {})
  /\ UNCHANGED <<nodes, protos, bindings, groups, certs, hosts, rules, versions>>

(* The memberships stay. *)
DeleteClient(a) ==
  /\ clients[a] # None
  /\ clients' = [clients EXCEPT ![a] = None]
  /\ Edit("delete_client", TRUE, {})
  /\ UNCHANGED <<nodes, protos, bindings, members, groups, certs, hosts, rules, versions>>

-----------------------------------------------------------------------------
(* Nodes, certificates and inbound hosts: no pending updates               *)

(* A parent is not validated: a node can be its own. *)
SetParent(n, parent) ==
  /\ nodes[n] # None /\ nodes[n] # parent
  /\ nodes' = [nodes EXCEPT ![n] = parent]
  /\ Edit("update_node", TRUE, {})
  /\ UNCHANGED <<protos, bindings, clients, members, groups, certs, hosts, rules, versions>>

(* The bindings, certificates and rules of the node stay. *)
DeleteNode(n) ==
  /\ nodes[n] # None
  /\ nodes' = [nodes EXCEPT ![n] = None]
  /\ Edit("delete_node", TRUE, {})
  /\ UNCHANGED <<protos, bindings, clients, members, groups, certs, hosts, rules, versions>>

(* What refers to the certificate stays. *)
DeleteCert(k) ==
  /\ certs[k] # None
  /\ certs' = [certs EXCEPT ![k] = None]
  /\ Edit("delete_certificate", TRUE, {})
  /\ UNCHANGED <<nodes, protos, bindings, clients, members, groups, hosts, rules, versions>>

(* create_host and update_host; neither id is validated *)
PutHost(b, h) ==
  /\ nodes[b[1]] # None /\ protos[b[2]] # None /\ hosts[b] # h
  /\ hosts' = [hosts EXCEPT ![b] = h]
  /\ Edit("put_host", TRUE, {})
  /\ UNCHANGED <<nodes, protos, bindings, clients, members, groups, certs, rules, versions>>

DeleteHost(b) ==
  /\ hosts[b] # None
  /\ hosts' = [hosts EXCEPT ![b] = None]
  /\ Edit("delete_host", TRUE, {})
  /\ UNCHANGED <<nodes, protos, bindings, clients, members, groups, certs, rules, versions>>

-----------------------------------------------------------------------------
(* Relay rules.  The handlers write row after row without a transaction:   *)
(* `upTo` is the last step they came to before the database failed.        *)

(* validate_relay_payload *)
ValidRelay(n, b) ==
  /\ nodes[n] # None /\ bindings[b] # None /\ b[1] # n /\ protos[b[2]] # None
  /\ protos[b[2]].protocol \in Relayable

Fresh == {c \in Relay : /\ clients[c] = None /\ members[c] = {}
                       /\ \A r \in Rows(rules) : rules[r].client # c}
NextRelay == CHOOSE c \in Fresh : TRUE

(* provision_relay_client: the row, then the groups the exit has now *)
WithRow(table, c) == [table EXCEPT ![c] = [status |-> "active", name |-> c]]
WithGroups(table, c, b) == [table EXCEPT ![c] = bindings[b].groups]

ExitNodes(bs) == {b[1] : b \in {x \in bs : bindings[x] # None}}

(* Steps: 1 the client, 2 its groups, 3 the rule, 4 the search for the     *)
(* exit's node and the marks                                               *)
CreateRule(r, n, b, m, upTo) ==
  /\ rules[r] = None /\ Fresh # {} /\ ValidRelay(n, b)
  /\ clients' = WithRow(clients, NextRelay)
  /\ members' = IF upTo >= 2 THEN WithGroups(members, NextRelay, b) ELSE members
  /\ rules' = IF upTo < 3 THEN rules
              ELSE [rules EXCEPT ![r] = [node |-> n, exit |-> b, client |-> NextRelay,
                                         match |-> m, enabled |-> TRUE]]
  /\ Edit("create_rule", upTo = 4, IF upTo = 4 THEN {n, b[1]} \X Core ELSE {})
  /\ UNCHANGED <<nodes, protos, bindings, groups, certs, hosts, versions>>

(* The same exit: the row alone.  Steps: 1 the rule, 2 the search for the  *)
(* exit's node and the marks                                               *)
UpdateRule(r, m, enabled, upTo) ==
  /\ rules[r] # None /\ ValidRelay(rules[r].node, rules[r].exit)
  /\ rules[r].match # m \/ rules[r].enabled # enabled
  /\ rules' = [rules EXCEPT ![r].match = m, ![r].enabled = enabled]
  /\ Edit("update_rule", upTo = 2,
          IF upTo = 2 THEN {rules[r].node, rules[r].exit[1]} \X Core ELSE {})
  /\ UNCHANGED <<nodes, protos, bindings, clients, members, groups, certs, hosts, versions>>

(* Another exit.  Steps: 1 the old client's groups and 2 its row are       *)
(* deleted, 3 the new client, 4 its groups, 5 the rule, 6 the marks.  The  *)
(* posted name is validated only then: a blank one ends the handler at 4.  *)
MoveRule(r, b, upTo) ==
  /\ rules[r] # None /\ rules[r].exit # b /\ Fresh # {} /\ ValidRelay(rules[r].node, b)
  /\ LET old == rules[r].client
         out == [members EXCEPT ![old] = {}]
         gone == IF upTo >= 2 THEN [clients EXCEPT ![old] = None] ELSE clients
     IN /\ clients' = IF upTo >= 3 THEN WithRow(gone, NextRelay) ELSE gone
        /\ members' = IF upTo >= 4 THEN WithGroups(out, NextRelay, b) ELSE out
  /\ rules' = IF upTo < 5 THEN rules ELSE [rules EXCEPT ![r].exit = b, ![r].client = NextRelay]
  /\ Edit("move_rule", upTo = 6,
          IF upTo = 6 THEN ({rules[r].node} \union ExitNodes({rules[r].exit, b})) \X Core ELSE {})
  /\ UNCHANGED <<nodes, protos, bindings, groups, certs, hosts, versions>>

(* Variant: only the entry node is marked *)
DeleteRuleEntry(r, upTo) ==
  /\ rules[r] # None /\ upTo = 3
  /\ rules' = [rules EXCEPT ![r] = None]
  /\ members' = [members EXCEPT ![rules[r].client] = {}]
  /\ clients' = [clients EXCEPT ![rules[r].client] = None]
  /\ Edit("delete_rule", TRUE, {rules[r].node} \X Core)
  /\ UNCHANGED <<nodes, protos, bindings, groups, certs, hosts, versions>>

(* Steps: 1 the rule, 2 its client's groups, 3 its client and the marks *)
DeleteRule(r, upTo) ==
  /\ rules[r] # None
  /\ rules' = [rules EXCEPT ![r] = None]
  /\ members' = IF upTo >= 2 THEN [members EXCEPT ![rules[r].client] = {}] ELSE members
  /\ clients' = IF upTo = 3 THEN [clients EXCEPT ![rules[r].client] = None] ELSE clients
  /\ Edit("delete_rule", upTo = 3,
          IF upTo = 3 THEN ({rules[r].node} \union ExitNodes({rules[r].exit})) \X Core ELSE {})
  /\ UNCHANGED <<nodes, protos, bindings, groups, certs, hosts, versions>>

-----------------------------------------------------------------------------
(* activate: every node with an active binding of the core (nodes_with_    *)
(* bindings) is marked for it.  Here a search that fails ends the handler. *)
NodesWithBindings(c) ==
  {n \in Node : \E b \in ActiveBindings(n) : protos[b[2]] # None /\ protos[b[2]].core = c}

ActivateVersion(c, v, found) ==
  /\ versions[c] # v
  /\ versions' = [versions EXCEPT ![c] = v]
  /\ Edit("activate", found, IF found THEN NodesWithBindings(c) \X {c} ELSE {})
  /\ UNCHANGED <<nodes, protos, bindings, clients, members, groups, certs, hosts, rules>>

-----------------------------------------------------------------------------
ConfigEdit == \E p \in Proto : \/ \E x \in Payload : CreateConfig(p, x) \/ UpdateConfig(p, x)
                               \/ \E c \in Core : MoveConfig(p, c)
                               \/ \E preset \in Preset : ApplyPreset(p, preset)
                               \/ \E fate \in Fate, k \in 1..2 : DeleteConfig(p, fate, k)
BindingEdit == \E b \in Pair : \/ \E o \in Override : CreateBinding(b, o) \/ OverrideBinding(b, o)
                               \/ \E active \in BOOLEAN : SetBindingActive(b, active)
                               \/ DeleteBinding(b)
GroupEdit == \E g \in Group : \/ \E in \in SUBSET Rows(bindings) :
                                   CreateGroup(g, in) \/ UpdateGroup(g, in)
                              \/ DeleteGroup(g)
ClientEdit == \E a \in Account : \/ \E status \in Status, in \in SUBSET groups :
                                      \/ \E name \in Client : CreateClient(a, name, status, in)
                                      \/ UpdateClient(a, status, in)
                                 \/ DeleteClient(a)
NodeEdit == \/ \E n, parent \in Node : SetParent(n, parent)
            \/ \E n \in Node : DeleteNode(n)
            \/ \E k \in Cert : DeleteCert(k)
            \/ \E b \in Pair : (\E h \in HostEntry : PutHost(b, h)) \/ DeleteHost(b)
RuleEdit == \E r \in Rule :
  \/ \E b \in Pair : \/ \E n \in Node, m \in Match, k \in 1..4 : CreateRule(r, n, b, m, k)
                     \/ \E k \in 1..6 : MoveRule(r, b, k)
  \/ \E m \in Match, enabled \in BOOLEAN, k \in 1..2 : UpdateRule(r, m, enabled, k)
  \/ \E k \in 1..3 : DeleteRule(r, k)
VersionEdit == \E c \in Core, v \in Version, found \in BOOLEAN : ActivateVersion(c, v, found)

PanelNext == \/ ConfigEdit \/ BindingEdit \/ GroupEdit \/ ClientEdit
             \/ NodeEdit \/ RuleEdit \/ VersionEdit

PanelSpec == PanelInit /\ [][PanelNext]_panelVars

-----------------------------------------------------------------------------
(* Properties                                                              *)

Links(p) ==
  {l.is : l \in {k \in {ClashLink(p), ShareLink(p)}
                      \union (IF SbSupports(p) THEN {SbLink(p)} ELSE {}) : k.ok}}

(* What a core demands of a connection *)
Accepts(i, l) ==
  /\ l.port = i.port
  /\ \E u \in i.users : u.cred = l.cred /\ u.flow = l.flow
  /\ IF i.reality = None THEN l.reality = None
     ELSE /\ l.reality # None /\ l.reality.key = i.reality.key
          /\ l.reality.name \in i.reality.names /\ l.reality.id \in i.reality.ids
  /\ i.cert # None /\ i.cert.by \in {"managed", "acme"} => l.sni = i.cert.name
  /\ l.obfs = i.obfs /\ l.transport = i.transport

(* What a client is given, whatever the format it asks for *)
Offered(a) ==
  LET proxies == BuildProxyNodes(a, NoFilter)
  IN UNION {LET made == Subscription(f, proxies) IN IF made.ok THEN made.is ELSE {} : f \in Format}

Generated(b) == GenerateNodeConfig(b[1], protos[b[2]].core)

(* The settings of which the configuration and the link are made in        *)
(* different ways.  Of two names of one setting readers prefer different   *)
(* ones.  An array is no string to mihomo's builder, which falls back to   *)
(* the destination and the empty short id; it knows no transport but tcp,  *)
(* and no flow but the user's own.  A link has the settings' flow.         *)
Twice(s) == \/ {"server_names", "reality_server_names"} \subseteq DOMAIN s
            \/ {"short_id", "reality_short_id"} \subseteq DOMAIN s
ShapeLost(p) ==
  /\ p.core = "mihomo"
  /\ \E k \in {"server_names", "reality_server_names", "short_id", "reality_short_id"} :
        k \in DOMAIN p.settings /\ p.settings[k].shape # "text"
NoServerName(p) == FirstServerName(p.settings) = None
FlowLost(p) ==
  LET flow == Or(Str(p.settings, "flow"), "")
  IN IF p.protocol = "vless_xhttp" THEN flow # ""
     ELSE flow = "" \/ (p.core = "mihomo" /\ flow # Vision)
TransportLost(p) == /\ Network(p.settings) # "tcp"
                    /\ p.core = "mihomo" \/ Network(p.settings) \notin {"tcp", "ws"}
ObfsUnset(p) ==
  /\ ObfsType(p.settings) # "none"
  /\ Blank(Str(p.settings, "obfs_type")) \/ Blank(Str(p.settings, "obfs_password"))

(* The public key is not that of the private one; a key stands for both.   *)
KeysDiffer(s) == Str(s, "public_key") # FirstStr(s, "reality_private_key", "private_key")

Skewed(p) ==
  CASE p.protocol = "vless_reality" ->
         \/ Twice(p.settings) \/ ShapeLost(p) \/ NoServerName(p)
         \/ FlowLost(p) \/ TransportLost(p) \/ KeysDiffer(p.settings)
    [] p.protocol = "vless_xhttp" -> FlowLost(p)
    [] p.protocol = "hysteria2" -> ObfsUnset(p)
    [] p.protocol = "anytls" -> FALSE

(* Without a certificate the core can use, the inbound is left out. *)
Omitted(b) ==
  /\ protos[b[2]].protocol # "vless_reality"
  /\ LET t == ResolveCert(BindingTls(b))
     IN (IF protos[b[2]].core = "mihomo" THEN MhServerTls(t) ELSE SbServerTls(t)) = None

(* The certificate's domain when the Hub or the core sees to it.  A link    *)
(* prefers other names: one in the settings (clash.rs), the serverName of  *)
(* the TLS settings to their domain; a hop knows the binding's TLS only.   *)
CertName(b) ==
  LET cert == SbServerTls(ResolveCert(BindingTls(b)))
  IN IF cert # None /\ cert.by # "files" THEN cert.name ELSE None
OwnName(t) == IF Tls(t, "serverName") # "" THEN Tls(t, "serverName") ELSE Tls(t, "domain")
Renamed(b) ==
  LET t == BindingTls(b)
  IN /\ CertName(b) # None
     /\ \/ "sni" \in DOMAIN protos[b[2]].settings
        \/ ~NamesCert(t) /\ OwnName(t) # CertName(b)
HopRenamed(b) ==
  LET t == bindings[b].tls
  IN CertName(b) # None /\ ~NamesCert(t) /\ (t = None \/ Tls(t, "domain") # CertName(b))

(* One password per name is left in a mihomo listener. *)
NameTaken(b, a) ==
  /\ protos[b[2]].core = "mihomo" /\ protos[b[2]].protocol \in {"hysteria2", "anytls"}
  /\ \E c \in Account \ {a} : clients[c] # None /\ clients[c].name = clients[a].name

\* A link that an active client is given, in any format, is accepted by the
\* inbound that is pushed to the link's node, unless the configuration stores
\* clients, the binding overrides settings or an inbound host the address.
\* Builders (singbox.rs, mihomo.rs) and link formats (formats/*.rs) read one
\* JSON object; what they read in different ways is named above.
LinkIsAccepted ==
  \A a \in {c \in Rows(clients) : clients[c].status = "active"} : \A l \in Offered(a) :
      LET b == l.pair
          p == protos[b[2]]
          g == Generated(b)
      IN \/ hosts[b] # None \/ bindings[b].over # NoKeys \/ ClientsOf(p.settings) # <<>>
         \/ Skewed(p) \/ Renamed(b) \/ NameTaken(b, a) \/ Omitted(b) \/ ~g.ok
         \/ \E i \in g.inbounds : i.pair = b /\ Accepts(i, l)

\* A client's subscription lists exactly the active bindings whose inbound has
\* its credential, whatever was deleted in between: build_proxy_nodes walks
\* from the client, inject_binding_clients from the binding.
SameAccess ==
  \A a \in Rows(clients) :
    LET offered == {q.pair : q \in BuildProxyNodes(a, NoFilter)}
    IN \A b \in Rows(bindings) :
         bindings[b].active /\ nodes[b[1]] # None /\ protos[b[2]] # None =>
           (clients[a].status = "active" /\ b \in offered
            <=> Joined(b) # {} /\ \E u \in ServerEntries(b, NoKeys) : u.cred = a)

Used(r) ==
  LET b == rules[r].exit
      c == rules[r].client
  IN clients[c] # None /\ clients[c].status = "active" /\ members[c] \cap bindings[b].groups # {}

\* A hop an entry node is given is accepted by the exit's inbound, unless the
\* exit is inactive, or the client's row or groups are not those of the rule
\* any more (an edit of the client or of the groups, a handler that failed):
\* Hop reads the configuration, Inbound the configuration and the binding.
HopIsAccepted ==
  \A n \in Node : \A c \in Core :
    LET g == GenerateNodeConfig(n, c)
    IN \A r \in RulesOf(n) :
         LET b == rules[r].exit
             p == protos[b[2]]
             exit == Generated(b)
         IN \/ ~bindings[b].active \/ bindings[b].over # NoKeys \/ ~Used(r)
            \/ Network(p.settings) # "tcp" \/ Skewed(p) \/ HopRenamed(b) \/ Omitted(b)
            \/ ~g.ok \/ ~exit.ok
            \/ \E h \in g.hops, i \in exit.inbounds :
                 h.pair = b /\ h.cred = rules[r].client /\ i.pair = b /\ Accepts(i, h)

Shown(l) == [l EXCEPT !.sni = IF @ = "" THEN l.server ELSE @]

\* What the schema of sing-box knows of a proxy's outbound.
SchemaKnows(q) ==
  CASE q.protocol = "vless_reality" -> SchemaTransport(q.settings) /\ SchemaReality(q.settings)
    [] q.protocol = "hysteria2" -> SchemaObfs(SbObfs(q.settings))
    [] q.protocol = "anytls" -> TRUE

\* The formats offer one and the same connection, and a proxy that sing-box can
\* use is refused there where the share links refuse it, or where the schema
\* refuses what share links and Clash offer (singbox.rs:8).  They differ where an
\* inbound host has put a name into the settings, which clash.rs prefers and the
\* others do not, where an obfuscation has no password key, and in a VLESS
\* transport other than tcp and ws.
FormatsAgree ==
  \A a \in Rows(clients) : \A q \in BuildProxyNodes(a, NoFilter) :
    \/ "sni" \in DOMAIN q.settings
    \/ /\ q.protocol = "hysteria2"
       /\ ObfsType(q.settings) # "none" /\ Str(q.settings, "obfs_password") = None
    \/ q.protocol = "vless_reality" /\ Network(q.settings) \notin {"tcp", "ws"}
    \/ /\ \A k, l \in Links(q) : Shown(k) = Shown(l)
       /\ SbSupports(q) => (SbLink(q).ok <=> ShareLink(q).ok /\ SchemaKnows(q))

Edits == {"update_config", "delete_config", "create_rule", "update_rule", "move_rule",
          "delete_rule", "activate"}
Dialled(n, p) == \E r \in RulesOf(n) : rules[r].exit[2] = p

(* The nodes that a rule names, the exit's as long as its binding exists *)
EndsOf(r) == IF rules[r] = None THEN {}
             ELSE {rules[r].node} \union ExitNodes({rules[r].exit})

(* The memberships of an account, which the step gives or takes, are of a  *)
(* group that the node offers an inbound to.                               *)
SharesGroup(n) ==
  \E a \in Account : /\ members[a] # members'[a]
                     /\ \E b \in ActiveBindings(n) :
                           (members[a] \union members'[a]) \cap bindings[b].groups # {}

Unlisted(n) == \E r \in Rule : /\ rules[r] # rules'[r] /\ n \notin EndsOf(r) \union EndsOf(r)'
                               /\ SharesGroup(n)

(* The core that a configuration leaves, and those who dial it *)
LeftBehind(n, c) ==
  \E p \in Proto : /\ protos[p] # protos'[p]
                   /\ \/ Dialled(n, p)
                      \/ protos'[p] # None /\ c = protos[p].core /\ c # protos'[p].core

Runs(config) == config.ok /\ config.inbounds # {}

EditIsMarked(n, c) ==
  LET old == GenerateNodeConfig(n, c)
      new == GenerateNodeConfig(n, c)'
  IN \/ <<n, c>> \in Sought'
     \/ LeftBehind(n, c) \/ Unlisted(n)
     \/ old = new \/ ~(Runs(old) \/ Runs(new))

\* An edit of a configuration, a rule or a version that came to its end has gone
\* to mark every node and core whose generated configuration it changed
\* (docs/architecture.md:409), except: the core that a configuration leaves,
\* an entry node that dials the configuration, and nodes a rule does not name
\* but whose bindings share a group with its exit.  What it went to mark may be
\* lost to the database, which is only logged (protocol.rs:203-205).
EditsAreMarked ==
  [][edit'.op \in Edits /\ edit'.done => \A n \in Node, c \in Core : EditIsMarked(n, c)]_panelVars

\* push.rs:228-229 on the same function: "Validate that active bindings on a node
\* do not ask two cores to listen on the same address/port."
PortsAreDisjoint ==
  \A n \in Node :
    PortsValid(n) =>
      \A b, d \in {x \in ActiveBindings(n) : protos[x[2]] # None} :
        AskedPort(b) = AskedPort(d) => protos[b[2]].core = protos[d[2]].core
==============================================================================
