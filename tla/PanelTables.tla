---------------------------- MODULE PanelTables ----------------------------
(***************************************************************************)
(* The rows of the Hub's database that a core configuration and a          *)
(* subscription are both computed from, and the reading of the JSON object *)
(* `settings` that both computations share (pp-common/settings_helper.rs). *)
(*                                                                         *)
(* A JSON object is a function from its keys to values, and a value keeps  *)
(* what the readers tell apart: its shape ("text" for a string, "list" for *)
(* an array) and its items, a comma-separated string having as many items  *)
(* as it has parts and the empty string none.  `None` stands for null, for *)
(* an absent key and for an absent row.                                    *)
(***************************************************************************)
EXTENDS Integers, Sequences, FiniteSets

CONSTANTS
  Node,     \* rows of `nodes`; a node stands for its own domain or address
  Proto,    \* rows of `protocol_configs`
  Client,   \* rows of `clients` that an administrator creates
  Relay,    \* the ids of system clients, taken in turn by relay rules
  Group,    \* rows of `node_groups`
  Cert,     \* rows of `certificates`; a certificate stands for its domain
  Rule,     \* rows of `relay_rules`
  None

VARIABLES
  nodes,    \* node |-> its parent, or itself when it has none
  protos,   \* configuration |-> [protocol, core, port, settings, tls]
  bindings, \* <<node, configuration>> |-> [active, over, tls, groups]
  clients,  \* client |-> [status, name]
  members,  \* client |-> the groups it is in, which outlive either row
  groups,   \* the groups that have a row
  certs,    \* certificate |-> the node it was issued for
  hosts,    \* <<node, configuration>> |-> [active, port, set], `set` of the settings replaced
  rules,    \* rule |-> [node, exit, client, match, enabled]
  versions  \* core |-> the version the catalogue has activated

tables == <<nodes, protos, bindings, clients, members, groups, certs, hosts, rules,
            versions>>

Core == {"sing-box", "mihomo"}
Account == Client \union Relay
Pair == Node \X Proto

(* core_versions, as far as a configuration depends on them *)
Version == {"1.13", "1.14"}

Rows(table) == {k \in DOMAIN table : table[k] # None}

-----------------------------------------------------------------------------
(* JSON values                                                             *)

Text(x) == [shape |-> "text", items |-> IF x = "" THEN <<>> ELSE <<x>>]
List(seq) == [shape |-> "list", items |-> seq]

Number(n) == [shape |-> "number", items |-> <<n>>]

NoKeys == [k \in {} |-> None]

(* get(key).as_str(): an array is no string *)
Str(s, k) ==
  IF k \in DOMAIN s /\ s[k].shape = "text"
  THEN IF s[k].items = <<>> THEN "" ELSE s[k].items[1]
  ELSE None

(* get(key).as_u64() *)
Num(s, k) == IF k \in DOMAIN s /\ s[k].shape = "number" THEN s[k].items[1] ELSE None

(* The first of two keys that holds a string, be it empty *)
FirstStr(s, key, other) == IF Str(s, key) # None THEN Str(s, key) ELSE Str(s, other)

Or(x, default) == IF x = None THEN default ELSE x
Blank(x) == x \in {None, ""}

(* The first part of a string or entry of an array *)
ItemOf(s, k) ==
  IF k \in DOMAIN s /\ s[k].shape # "number" /\ s[k].items # <<>> THEN s[k].items[1] ELSE None

(* The first item of the first of two keys that is present at all *)
FirstItem(s, key, other) == ItemOf(s, IF key \in DOMAIN s THEN key ELSE other)

FirstServerName(s) == FirstItem(s, "server_names", "reality_server_names")
FirstShortId(s) == FirstItem(s, "short_id", "reality_short_id")

(* A `clients` array holds entries [cred, name, flow]. *)
HasClients(s) == "clients" \in DOMAIN s
ClientsOf(s) == IF HasClients(s) THEN s["clients"].items ELSE <<>>
ClientCred(s, own) ==
  IF ClientsOf(s) # <<>> /\ ~Blank(ClientsOf(s)[1].cred)
  THEN ClientsOf(s)[1].cred
  ELSE IF Blank(own) THEN None ELSE own
ClientUuid(s) == ClientCred(s, IF "id" \in DOMAIN s THEN Str(s, "id") ELSE Str(s, "uuid"))
ClientPassword(s) == ClientCred(s, Str(s, "password"))

(* obj.insert(k, v) for every pair of another object *)
Merge(s, over) ==
  [k \in DOMAIN s \union DOMAIN over |-> IF k \in DOMAIN over THEN over[k] ELSE s[k]]

(* TLS settings are objects of strings, or None. *)
Tls(t, k) == IF k \in DOMAIN t THEN t[k] ELSE ""
MergeTls(base, over) ==
  IF over = None THEN base ELSE IF base = None THEN over ELSE Merge(base, over)
HasRealCertificate(t) ==
  /\ t # None
  /\ \/ Tls(t, "certFile") # "" /\ Tls(t, "keyFile") # ""
     \/ Tls(t, "domain") # ""

NamesCert(t) == t # None /\ "cert_id" \in DOMAIN t

(* A binding's TLS settings over those of its configuration *)
BindingTls(b) == MergeTls(protos[b[2]].tls, bindings[b].tls)

Vision == "xtls-rprx-vision"

(* A builder returns something, or refuses and says why. *)
Built(x) == [ok |-> TRUE, is |-> x]
Refused(why) == [ok |-> FALSE, why |-> why]
=============================================================================
