---------------------------- MODULE PanelProofs ----------------------------
(***************************************************************************)
(* Proofs about Panel, for any rows and any stored configurations: what an *)
(* edit of a row leaves alone in the configurations of the nodes it does   *)
(* not mark; that the two ways of finding who may use a binding agree, and *)
(* that the formats do; and that an inbound accepts the links and the hops *)
(* that are made for it.                                                   *)
(***************************************************************************)
EXTENDS Panel, TLAPS

-----------------------------------------------------------------------------
(* Types                                                                   *)

LEMMA PresetsAreRows ==
  ASSUME NEW preset \in Preset
  PROVE  ExpandPreset(preset) \in ConfigRow
<1>1. ExpandPreset(preset) \in Configs
  BY DEF Configs
<1>2. ExpandPreset(preset).protocol \in Preset /\ ExpandPreset(preset).core \in Core
      /\ ExpandPreset(preset).port \in Nat
  BY DEF ExpandPreset, Core
<1>3. ExpandPreset(preset).settings \in {x.settings : x \in Configs}
      /\ ExpandPreset(preset).tls \in {None} \union {x.tls : x \in Configs}
  BY <1>1
<1> QED
  BY <1>2, <1>3 DEF ExpandPreset, ConfigRow

LEMMA ConfigsAreRows == Configs \subseteq ConfigRow
  BY PresetsAreRows, PanelAssumption DEF Configs

LEMMA SomeOfEach ==
  /\ (CHOOSE n \in Node : TRUE) \in Node
  /\ (CHOOSE e \in Node \ {CHOOSE n \in Node : TRUE} : TRUE) \in Node
  /\ (CHOOSE p \in Proto : TRUE) \in Proto
  /\ (CHOOSE q \in Proto \ {CHOOSE p \in Proto : TRUE} : TRUE) \in Proto
  /\ (CHOOSE a \in Client : TRUE) \in Client
  /\ (CHOOSE c \in Relay : TRUE) \in Relay
  /\ (CHOOSE g \in Group : TRUE) \in Group
<1>1. \A S : S # {} => (CHOOSE x \in S : TRUE) \in S
  OBVIOUS
<1>2. Node # {} /\ Proto # {} /\ Client # {} /\ Relay # {} /\ Group # {}
  BY PanelAssumption
<1>3. Node \ {CHOOSE n \in Node : TRUE} # {} /\ Proto \ {CHOOSE p \in Proto : TRUE} # {}
  <2>1. ASSUME NEW S, NEW x, \E y, z \in S : y # z
        PROVE  S \ {x} # {}
    BY <2>1
  <2> QED
    BY <2>1, PanelAssumption
<1> QED
  BY <1>1, <1>2, <1>3

LEMMA ProvisionedType ==
  ASSUME NEW bound \in SUBSET Pair, NEW used \in SUBSET Account, NEW g \in Group,
         NEW x \in Configs, Provisioned(bound, used, g, x),
         rules \in [Rule -> RuleRow \union {None}], edit = NoEdit
  PROVE  PanelTypeOK
<1>1. nodes \in [Node -> Node \union {None}]
  BY DEF Provisioned
<1>2. protos \in [Proto -> ConfigRow \union {None}]
  BY ConfigsAreRows DEF Provisioned
<1>3. bindings \in [Pair -> BindingRow \union {None}]
  BY DEF Provisioned, BindingRow
<1>4. clients \in [Account -> ClientRow \union {None}]
  BY DEF Provisioned, ClientRow, Status
<1>5. members \in [Account -> SUBSET Group] /\ groups \subseteq Group
  BY DEF Provisioned
<1>6. certs \in [Cert -> Node \union {None}]
  BY SomeOfEach DEF Provisioned
<1>7. hosts \in [Pair -> HostEntry \union {None}] /\ versions \in [Core -> Version \union {None}]
  BY DEF Provisioned
<1>8. edit.done \in BOOLEAN /\ edit.marks \union edit.lost \subseteq Node \X Core
  BY DEF NoEdit
<1> QED
  BY <1>1, <1>2, <1>3, <1>4, <1>5, <1>6, <1>7, <1>8 DEF PanelTypeOK

LEMMA PanelTypeInit == PanelInit => PanelTypeOK
<1> SUFFICES ASSUME PanelInit
             PROVE  PanelTypeOK
  OBVIOUS
<1> DEFINE n == CHOOSE n \in Node : TRUE
           e == CHOOSE e \in Node \ {n} : TRUE
           p == CHOOSE p \in Proto : TRUE
           own == CHOOSE q \in Proto \ {p} : TRUE
           a == CHOOSE a \in Client : TRUE
           c == CHOOSE c \in Relay : TRUE
           g == CHOOSE g \in Group : TRUE
           r == CHOOSE r \in Rule : TRUE
<1>1. n \in Node /\ e \in Node /\ p \in Proto /\ own \in Proto /\ a \in Client /\ c \in Relay
      /\ g \in Group
  BY SomeOfEach
<1>2. edit = NoEdit
  BY DEF PanelInit
<1>3. PICK x \in Configs :
        \/ /\ Provisioned({<<n, p>>}, {a}, g, x)
           /\ rules = [q \in Rule |-> None]
        \/ /\ x.protocol \in Relayable
           /\ Provisioned({<<n, own>>} \union (Node \ {n}) \X {p}, {a, c}, g, x)
           /\ \E m \in Match :
                rules = [q \in Rule |-> IF q # r THEN None
                           ELSE [node |-> n, exit |-> <<e, p>>, client |-> c, match |-> m,
                                 enabled |-> TRUE]]
  BY DEF PanelInit
<1> HIDE DEF n, e, p, own, a, c, g, r
<1>4. CASE Provisioned({<<n, p>>}, {a}, g, x) /\ rules = [q \in Rule |-> None]
  <2>1. {<<n, p>>} \in SUBSET Pair /\ {a} \in SUBSET Account
    BY <1>1 DEF Pair, Account
  <2> QED
    BY <1>1, <1>2, <1>4, <2>1, ProvisionedType
<1>5. CASE /\ Provisioned({<<n, own>>} \union (Node \ {n}) \X {p}, {a, c}, g, x)
           /\ \E m \in Match :
                rules = [q \in Rule |-> IF q # r THEN None
                           ELSE [node |-> n, exit |-> <<e, p>>, client |-> c, match |-> m,
                                 enabled |-> TRUE]]
  <2>1. {<<n, own>>} \union (Node \ {n}) \X {p} \in SUBSET Pair /\ {a, c} \in SUBSET Account
    BY <1>1 DEF Pair, Account
  <2>2. rules \in [Rule -> RuleRow \union {None}]
    BY <1>1, <1>5 DEF RuleRow, Pair
  <2> QED
    BY <1>1, <1>2, <1>5, <2>1, <2>2, ProvisionedType
<1> QED
  BY <1>3, <1>4, <1>5

EditTyped == edit.done \in BOOLEAN /\ edit.marks \union edit.lost \subseteq Node \X Core

\* What is written and what is lost make up what the handler went to mark.
LEMMA EditSeeks ==
  ASSUME NEW op, NEW done, NEW marks, Edit(op, done, marks)
  PROVE  edit'.op = op /\ edit'.done = done /\ Sought' = marks
<1>1. PICK failing \in SUBSET Core :
        edit' = [op |-> op, done |-> done, marks |-> marks \ {m \in marks : m[2] \in failing},
                 lost |-> {m \in marks : m[2] \in failing}]
  BY DEF Edit
<1> QED
  BY <1>1 DEF Sought

LEMMA EditType ==
  ASSUME NEW op, NEW done \in BOOLEAN, NEW marks \in SUBSET (Node \X Core), Edit(op, done, marks)
  PROVE  EditTyped'
  BY EditSeeks DEF EditTyped, Sought

LEMMA ConfigTypeStep == PanelTypeOK /\ ConfigEdit => PanelTypeOK'
<1> SUFFICES ASSUME PanelTypeOK, NEW p \in Proto,
                    \/ \E x \in Payload : CreateConfig(p, x) \/ UpdateConfig(p, x)
                    \/ \E c \in Core : MoveConfig(p, c)
                    \/ \E preset \in Preset : ApplyPreset(p, preset)
                    \/ \E fate \in Fate, k \in 1..2 : DeleteConfig(p, fate, k)
             PROVE  PanelTypeOK'
  BY DEF ConfigEdit
<1>1. ASSUME NEW x \in ConfigRow, InsertConfig(p, x)
      PROVE  PanelTypeOK'
  BY <1>1, EditType DEF InsertConfig, PanelTypeOK, EditTyped
<1>2. ASSUME NEW x \in ConfigRow, StoreConfig(p, x)
      PROVE  PanelTypeOK'
  BY <1>2, EditType DEF StoreConfig, NodesUsing, PanelTypeOK, EditTyped, ConfigRow
<1>3. ASSUME NEW x \in Payload, CreateConfig(p, x) \/ UpdateConfig(p, x)
      PROVE  PanelTypeOK'
  BY <1>1, <1>2, <1>3, PanelAssumption DEF CreateConfig, UpdateConfig
<1>4. ASSUME NEW c \in Core, MoveConfig(p, c)
      PROVE  PanelTypeOK'
  <2>1. [protos[p] EXCEPT !.core = c, !.tls = None] \in ConfigRow
    BY <1>4 DEF MoveConfig, PanelTypeOK, ConfigRow
  <2> QED
    BY <1>2, <1>4, <2>1 DEF MoveConfig
<1>5. ASSUME NEW preset \in Preset, ApplyPreset(p, preset)
      PROVE  PanelTypeOK'
  BY <1>1, <1>5, PresetsAreRows DEF ApplyPreset
<1>6. ASSUME NEW fate \in Fate, NEW k \in 1..2, DeleteConfig(p, fate, k)
      PROVE  PanelTypeOK'
  <2>1. \A b \in Pair : bindings[b] # None => BindingAfter(b, fate) \in BindingRow \union {None}
    <3> SUFFICES ASSUME NEW b \in Pair, bindings[b] # None
                 PROVE  BindingAfter(b, fate) \in BindingRow \union {None}
      OBVIOUS
    <3>1. bindings[b] \in BindingRow
      BY DEF PanelTypeOK
    <3>2. [bindings[b] EXCEPT !.groups = {}] \in BindingRow
      BY <3>1 DEF BindingRow
    <3> QED
      BY <3>1, <3>2 DEF BindingAfter, Fate
  <2>2. bindings' \in [Pair -> BindingRow \union {None}]
    BY <1>6, <2>1 DEF DeleteConfig, Rows, PanelTypeOK
  <2>3. protos' \in [Proto -> ConfigRow \union {None}]
    BY <1>6 DEF DeleteConfig, PanelTypeOK
  <2> DEFINE done == k = 2 /\ protos[p] # None
             marks == IF done THEN {b[1] : b \in {x \in Rows(bindings) : x[2] = p}} \X Core ELSE {}
  <2>4. marks \in SUBSET (Node \X Core)
    BY DEF Rows, PanelTypeOK, Pair
  <2>5. Edit("delete_config", done, marks)
    BY <1>6 DEF DeleteConfig
  <2> HIDE DEF done, marks
  <2>6. EditTyped'
    <3>1. done \in BOOLEAN
      BY DEF done
    <3> QED
      BY <2>4, <2>5, <3>1, EditType
  <2> QED
    BY <1>6, <2>2, <2>3, <2>6 DEF DeleteConfig, PanelTypeOK, EditTyped
<1> QED
  BY <1>3, <1>4, <1>5, <1>6

LEMMA BindingTypeStep == PanelTypeOK /\ BindingEdit => PanelTypeOK'
<1> SUFFICES ASSUME PanelTypeOK, NEW b \in Pair,
                    \/ \E o \in Override : CreateBinding(b, o) \/ OverrideBinding(b, o)
                    \/ \E active \in BOOLEAN : SetBindingActive(b, active)
                    \/ DeleteBinding(b)
             PROVE  PanelTypeOK'
  BY DEF BindingEdit
<1>1. ASSUME NEW o \in Override, CreateBinding(b, o)
      PROVE  PanelTypeOK'
  <2>1. bindings' \in [Pair -> BindingRow \union {None}]
    BY <1>1 DEF CreateBinding, PanelTypeOK, BindingRow
  <2>2. EditTyped'
    BY <1>1, EditType DEF CreateBinding
  <2> QED
    BY <1>1, <2>1, <2>2 DEF CreateBinding, PanelTypeOK, EditTyped
<1>2. ASSUME NEW o \in Override, OverrideBinding(b, o)
      PROVE  PanelTypeOK'
  <2>1. bindings[b] \in BindingRow
    BY <1>2 DEF OverrideBinding, PanelTypeOK
  <2>2. bindings' \in [Pair -> BindingRow \union {None}]
    BY <1>2, <2>1 DEF OverrideBinding, PanelTypeOK, BindingRow
  <2> QED
    BY <1>2, <2>2, EditType DEF OverrideBinding, PanelTypeOK, EditTyped
<1>3. ASSUME NEW active \in BOOLEAN, SetBindingActive(b, active)
      PROVE  PanelTypeOK'
  <2>1. bindings' \in [Pair -> BindingRow \union {None}]
    BY <1>3 DEF SetBindingActive, PanelTypeOK, BindingRow
  <2>2. EditTyped'
    BY <1>3, EditType DEF SetBindingActive
  <2> QED
    BY <1>3, <2>1, <2>2 DEF SetBindingActive, PanelTypeOK, EditTyped
<1>4. ASSUME DeleteBinding(b)
      PROVE  PanelTypeOK'
  BY <1>4, EditType DEF DeleteBinding, PanelTypeOK, EditTyped
<1> QED
  BY <1>1, <1>2, <1>3, <1>4

LEMMA SyncType ==
  ASSUME PanelTypeOK, NEW g \in Group, NEW in, SyncGroup(g, in)
  PROVE  bindings' \in [Pair -> BindingRow \union {None}]
<1>1. ASSUME NEW b \in Pair, bindings[b] # None
      PROVE  [bindings[b] EXCEPT !.groups = IF b \in in THEN @ \union {g} ELSE @ \ {g}]
               \in BindingRow
  BY <1>1 DEF PanelTypeOK, BindingRow
<1> QED
  BY <1>1 DEF SyncGroup

LEMMA GroupTypeStep == PanelTypeOK /\ GroupEdit => PanelTypeOK'
<1> SUFFICES ASSUME PanelTypeOK, NEW g \in Group,
                    \/ \E in \in SUBSET Rows(bindings) : CreateGroup(g, in) \/ UpdateGroup(g, in)
                    \/ DeleteGroup(g)
             PROVE  PanelTypeOK'
  BY DEF GroupEdit
<1>1. ASSUME NEW in, CreateGroup(g, in) \/ UpdateGroup(g, in)
      PROVE  PanelTypeOK'
  <2>1. bindings' \in [Pair -> BindingRow \union {None}]
    BY <1>1, SyncType DEF CreateGroup, UpdateGroup
  <2>2. groups' \subseteq Group
    BY <1>1 DEF CreateGroup, UpdateGroup, PanelTypeOK
  <2>3. /\ EditTyped'
        /\ UNCHANGED <<nodes, protos, clients, members, certs, hosts, rules, versions>>
    <3>1. CASE CreateGroup(g, in)
      BY <3>1, EditType DEF CreateGroup
    <3>2. CASE UpdateGroup(g, in)
      BY <3>2, EditType DEF UpdateGroup
    <3> QED
      BY <1>1, <3>1, <3>2
  <2> QED
    BY <2>1, <2>2, <2>3 DEF PanelTypeOK, EditTyped
<1>2. ASSUME DeleteGroup(g)
      PROVE  PanelTypeOK'
  BY <1>2, EditType DEF DeleteGroup, PanelTypeOK, EditTyped
<1> QED
  BY <1>1, <1>2

LEMMA ClientTypeStep == PanelTypeOK /\ ClientEdit => PanelTypeOK'
<1> SUFFICES ASSUME PanelTypeOK, NEW a \in Account,
                    \/ \E status \in Status, in \in SUBSET groups :
                         \/ \E name \in Client : CreateClient(a, name, status, in)
                         \/ UpdateClient(a, status, in)
                    \/ DeleteClient(a)
             PROVE  PanelTypeOK'
  BY DEF ClientEdit
<1>1. ASSUME NEW status \in Status, NEW in \in SUBSET groups, NEW name \in Client,
             CreateClient(a, name, status, in)
      PROVE  PanelTypeOK'
  BY <1>1, EditType DEF CreateClient, PanelTypeOK, EditTyped, ClientRow, Account
<1>2. ASSUME NEW status \in Status, NEW in \in SUBSET groups, UpdateClient(a, status, in)
      PROVE  PanelTypeOK'
  BY <1>2, EditType DEF UpdateClient, PanelTypeOK, EditTyped, ClientRow
<1>3. ASSUME DeleteClient(a)
      PROVE  PanelTypeOK'
  BY <1>3, EditType DEF DeleteClient, PanelTypeOK, EditTyped
<1> QED
  BY <1>1, <1>2, <1>3

LEMMA NodeTypeStep == PanelTypeOK /\ NodeEdit => PanelTypeOK'
<1> SUFFICES ASSUME PanelTypeOK, NodeEdit
             PROVE  PanelTypeOK'
  OBVIOUS
<1>1. ASSUME NEW n \in Node, NEW parent \in Node, SetParent(n, parent)
      PROVE  PanelTypeOK'
  BY <1>1, EditType DEF SetParent, PanelTypeOK, EditTyped
<1>2. ASSUME NEW n \in Node, DeleteNode(n)
      PROVE  PanelTypeOK'
  BY <1>2, EditType DEF DeleteNode, PanelTypeOK, EditTyped
<1>3. ASSUME NEW k \in Cert, DeleteCert(k)
      PROVE  PanelTypeOK'
  BY <1>3, EditType DEF DeleteCert, PanelTypeOK, EditTyped
<1>4. ASSUME NEW b \in Pair, NEW h \in HostEntry, PutHost(b, h)
      PROVE  PanelTypeOK'
  BY <1>4, EditType DEF PutHost, PanelTypeOK, EditTyped
<1>5. ASSUME NEW b \in Pair, DeleteHost(b)
      PROVE  PanelTypeOK'
  BY <1>5, EditType DEF DeleteHost, PanelTypeOK, EditTyped
<1> QED
  BY <1>1, <1>2, <1>3, <1>4, <1>5 DEF NodeEdit

LEMMA FreshRelay ==
  ASSUME Fresh # {}
  PROVE  NextRelay \in Fresh /\ NextRelay \in Relay /\ NextRelay \in Account
  BY DEF NextRelay, Fresh, Account

LEMMA WithRowType ==
  ASSUME NEW table \in [Account -> ClientRow \union {None}], NEW c \in Account
  PROVE  /\ WithRow(table, c) \in [Account -> ClientRow \union {None}]
         /\ [table EXCEPT ![c] = None] \in [Account -> ClientRow \union {None}]
<1>1. [status |-> "active", name |-> c] \in ClientRow
  BY DEF ClientRow, Status
<1> QED
  BY <1>1 DEF WithRow

LEMMA WithGroupsType ==
  ASSUME PanelTypeOK, NEW table \in [Account -> SUBSET Group], NEW c \in Account, NEW b \in Pair,
         bindings[b] # None
  PROVE  WithGroups(table, c, b) \in [Account -> SUBSET Group]
<1>1. bindings[b].groups \in SUBSET Group
  BY DEF PanelTypeOK, BindingRow
<1> QED
  BY <1>1 DEF WithGroups

LEMMA ExitNodesType ==
  ASSUME NEW bs \in SUBSET Pair
  PROVE  ExitNodes(bs) \subseteq Node
  BY DEF ExitNodes, Pair

LEMMA RuleTypeStep == PanelTypeOK /\ RuleEdit => PanelTypeOK'
<1> SUFFICES ASSUME PanelTypeOK, NEW r \in Rule,
                    \/ \E b \in Pair : \/ \E n \in Node, m \in Match, k \in 1..4 :
                                            CreateRule(r, n, b, m, k)
                                       \/ \E k \in 1..6 : MoveRule(r, b, k)
                    \/ \E m \in Match, enabled \in BOOLEAN, k \in 1..2 :
                         UpdateRule(r, m, enabled, k)
                    \/ \E k \in 1..3 : DeleteRule(r, k)
             PROVE  PanelTypeOK'
  BY DEF RuleEdit
<1>1. ASSUME NEW b \in Pair, NEW n \in Node, NEW m \in Match, NEW k \in 1..4,
             CreateRule(r, n, b, m, k)
      PROVE  PanelTypeOK'
  <2>1. bindings[b] # None /\ Fresh # {}
    BY <1>1 DEF CreateRule, ValidRelay
  <2>2. clients' \in [Account -> ClientRow \union {None}]
    BY <1>1, <2>1, FreshRelay, WithRowType DEF CreateRule, PanelTypeOK
  <2>3. members' \in [Account -> SUBSET Group]
    BY <1>1, <2>1, FreshRelay, WithGroupsType DEF CreateRule, PanelTypeOK
  <2>4. [node |-> n, exit |-> b, client |-> NextRelay, match |-> m, enabled |-> TRUE] \in RuleRow
    BY <2>1, FreshRelay DEF RuleRow
  <2>5. rules' \in [Rule -> RuleRow \union {None}]
    BY <1>1, <2>4 DEF CreateRule, PanelTypeOK
  <2>6. {n, b[1]} \X Core \subseteq Node \X Core
    BY DEF Pair
  <2> QED
    BY <1>1, <2>2, <2>3, <2>5, <2>6, EditType DEF CreateRule, PanelTypeOK, EditTyped
<1>2. ASSUME NEW b \in Pair, NEW k \in 1..6, MoveRule(r, b, k)
      PROVE  PanelTypeOK'
  <2>1. bindings[b] # None /\ Fresh # {} /\ rules[r] \in RuleRow
    BY <1>2 DEF MoveRule, ValidRelay, PanelTypeOK
  <2>2. rules[r].client \in Account /\ rules[r].node \in Node /\ rules[r].exit \in Pair
    BY <2>1 DEF RuleRow, Account
  <2>3. clients' \in [Account -> ClientRow \union {None}]
    BY <1>2, <2>1, <2>2, FreshRelay, WithRowType DEF MoveRule, PanelTypeOK
  <2>4. [members EXCEPT ![rules[r].client] = {}] \in [Account -> SUBSET Group]
    BY DEF PanelTypeOK
  <2>5. members' \in [Account -> SUBSET Group]
    BY <1>2, <2>1, <2>4, FreshRelay, WithGroupsType DEF MoveRule
  <2>6. rules' \in [Rule -> RuleRow \union {None}]
    BY <1>2, <2>1, FreshRelay DEF MoveRule, PanelTypeOK, RuleRow
  <2>7. ({rules[r].node} \union ExitNodes({rules[r].exit, b})) \X Core \subseteq Node \X Core
    BY <2>2, ExitNodesType
  <2> QED
    BY <1>2, <2>3, <2>5, <2>6, <2>7, EditType DEF MoveRule, PanelTypeOK, EditTyped
<1>3. ASSUME NEW m \in Match, NEW enabled \in BOOLEAN, NEW k \in 1..2, UpdateRule(r, m, enabled, k)
      PROVE  PanelTypeOK'
  <2>1. rules[r] \in RuleRow
    BY <1>3 DEF UpdateRule, PanelTypeOK
  <2>2. rules' \in [Rule -> RuleRow \union {None}]
    BY <1>3, <2>1 DEF UpdateRule, PanelTypeOK, RuleRow
  <2>3. {rules[r].node, rules[r].exit[1]} \X Core \subseteq Node \X Core
    BY <2>1 DEF RuleRow, Pair
  <2> QED
    BY <1>3, <2>2, <2>3, EditType DEF UpdateRule, PanelTypeOK, EditTyped
<1>4. ASSUME NEW k \in 1..3, DeleteRule(r, k)
      PROVE  PanelTypeOK'
  <2>1. rules[r] \in RuleRow
    BY <1>4 DEF DeleteRule, PanelTypeOK
  <2>2. rules[r].node \in Node /\ rules[r].exit \in Pair /\ rules[r].client \in Account
    BY <2>1 DEF RuleRow, Account
  <2>3. ({rules[r].node} \union ExitNodes({rules[r].exit})) \X Core \subseteq Node \X Core
    BY <2>2, ExitNodesType
  <2>4. clients' \in [Account -> ClientRow \union {None}]
    BY <1>4, <2>2, WithRowType DEF DeleteRule, PanelTypeOK
  <2> QED
    BY <1>4, <2>3, <2>4, EditType DEF DeleteRule, PanelTypeOK, EditTyped
<1> QED
  BY <1>1, <1>2, <1>3, <1>4

LEMMA PanelTypeStep == PanelTypeOK /\ [PanelNext]_panelVars => PanelTypeOK'
<1> SUFFICES ASSUME PanelTypeOK, [PanelNext]_panelVars
             PROVE  PanelTypeOK'
  OBVIOUS
<1>1. CASE VersionEdit
  <2> SUFFICES ASSUME NEW c \in Core, NEW v \in Version, NEW found \in BOOLEAN,
                      ActivateVersion(c, v, found)
               PROVE  PanelTypeOK'
    BY <1>1 DEF VersionEdit
  <2> QED
    BY EditType DEF ActivateVersion, NodesWithBindings, PanelTypeOK, EditTyped
<1>2. CASE UNCHANGED panelVars
  BY <1>2 DEF panelVars, tables, PanelTypeOK
<1> QED
  BY <1>1, <1>2, ConfigTypeStep, BindingTypeStep, GroupTypeStep, ClientTypeStep, NodeTypeStep,
     RuleTypeStep DEF PanelNext

\* The tables keep their columns' types: every row has the shape its handler
\* validated, and a mark is of a node and a core.
THEOREM PanelTypeCorrect == PanelSpec => []PanelTypeOK
  BY PanelTypeInit, PanelTypeStep, PTL DEF PanelSpec
-----------------------------------------------------------------------------
(* What a configuration depends on                                         *)

(* The binding's clients, as far as they share a group with it *)
ClientsKept(b) ==
  \A a \in Account : \/ members'[a] = members[a] /\ clients'[a] = clients[a]
                     \/ (members[a] \union members'[a]) \cap bindings[b].groups = {}

(* The configuration of a binding is the same, or is of the other core.    *)
ConfigKept(b, c) ==
  \/ protos'[b[2]] = protos[b[2]]
  \/ /\ protos[b[2]] # None /\ protos'[b[2]] # None
     /\ protos[b[2]].core # c /\ protos'[b[2]].core # c

BindingsKept(n, c) ==
  /\ ActiveBindings(n)' = ActiveBindings(n)
  /\ \A b \in ActiveBindings(n) : bindings'[b] = bindings[b] /\ ClientsKept(b) /\ ConfigKept(b, c)

RulesKept(n) ==
  /\ RulesOf(n)' = RulesOf(n)
  /\ \A r \in RulesOf(n) : /\ rules'[r] = rules[r]
                           /\ protos'[rules[r].exit[2]] = protos[rules[r].exit[2]]
                          /\ bindings'[rules[r].exit] = bindings[rules[r].exit]

LEMMA JoinedKept ==
  ASSUME NEW b, bindings'[b] = bindings[b], ClientsKept(b)
  PROVE  Joined(b)' = Joined(b)
<1>1. \A a \in Account : members'[a] \cap bindings[b].groups # {}
                        <=> members[a] \cap bindings[b].groups # {}
  BY DEF ClientsKept
<1> QED
  BY <1>1 DEF Joined

LEMMA InputKept ==
  ASSUME NEW b, bindings'[b] = bindings[b], ClientsKept(b), protos'[b[2]] = protos[b[2]]
  PROVE  InboundConfig(b)' = InboundConfig(b)
<1> DEFINE s == Merge(protos[b[2]].settings, bindings[b].over)
           Open == {x \in Joined(b) : clients[x] # None /\ clients[x].status = "active"}
           Entries == {ClientEntry(a, protos[b[2]].protocol) : a \in Open}
<1>1. s' = s
  OBVIOUS
<1>2. Joined(b)' = Joined(b)
  BY JoinedKept
<1>3. \A a \in Joined(b) : clients'[a] = clients[a]
  BY DEF Joined, ClientsKept
<1>4. Open' = Open
  BY <1>2, <1>3
<1>5. ASSUME NEW a \in Open
      PROVE  ClientEntry(a, protos[b[2]].protocol)' = ClientEntry(a, protos[b[2]].protocol)
  BY <1>3, <1>5 DEF ClientEntry
<1>6. Entries' = Entries
  BY <1>4, <1>5
<1> HIDE DEF Open, Entries
<1>7. ServerEntries(b, s)' = ServerEntries(b, s)
  BY <1>1, <1>2, <1>6 DEF ServerEntries, Entries, Open
<1>8. BindingTls(b)' = BindingTls(b)
  BY DEF BindingTls
<1> QED
  BY <1>1, <1>2, <1>7, <1>8 DEF InboundConfig

LEMMA ForCoreKept ==
  ASSUME NEW n, NEW c, BindingsKept(n, c)
  PROVE  /\ ForCore(n, c)' = ForCore(n, c)
         /\ \A b \in ForCore(n, c) : /\ bindings'[b] = bindings[b] /\ ClientsKept(b)
                                     /\ protos'[b[2]] = protos[b[2]]
  BY DEF BindingsKept, ForCore, ConfigKept

LEMMA InputsKept ==
  ASSUME NEW n, NEW c, BindingsKept(n, c)
  PROVE  Inputs(n, c)' = Inputs(n, c)
<1>1. \A b \in ForCore(n, c) : InboundConfig(b)' = InboundConfig(b)
  BY ForCoreKept, InputKept
<1> QED
  BY <1>1, ForCoreKept DEF Inputs

LEMMA FailuresKept ==
  ASSUME NEW n, NEW c, BindingsKept(n, c), certs' = certs
  PROVE  (Dangling(n)' <=> Dangling(n)) /\ (Misnamed(n, c)' <=> Misnamed(n, c))
<1>1. Dangling(n)' <=> Dangling(n)
  BY DEF Dangling, BindingsKept, ConfigKept
<1>2. \A b \in ForCore(n, c) : BindingTls(b)' = BindingTls(b)
  BY ForCoreKept DEF BindingTls
<1>3. Misnamed(n, c)' <=> Misnamed(n, c)
  BY <1>2, ForCoreKept DEF Misnamed, CertIsOf
<1> QED
  BY <1>1, <1>3

LEMMA HopsKept ==
  ASSUME NEW n, RulesKept(n), certs' = certs
  PROVE  Hops(n)' = Hops(n)
<1>1. ASSUME NEW r \in RulesOf(n)
      PROVE  Hop(r)' = Hop(r)
  <2>1. /\ rules'[r] = rules[r] /\ protos'[rules[r].exit[2]] = protos[rules[r].exit[2]]
        /\ bindings'[rules[r].exit] = bindings[rules[r].exit]
    BY DEF RulesKept
  <2>2. RelaySni(rules[r].exit)' = RelaySni(rules[r].exit)
    BY <2>1 DEF RelaySni
  <2>3. RouteOf(r)' = RouteOf(r)
    BY <2>1 DEF RouteOf
  <2> QED
    BY <2>1, <2>2, <2>3 DEF Hop
<1> QED
  BY <1>1 DEF Hops, RulesKept

LEMMA ConfigurationKept ==
  ASSUME NEW n, NEW c, BindingsKept(n, c), RulesKept(n), certs' = certs, versions'[c] = versions[c]
  PROVE  GenerateNodeConfig(n, c)' = GenerateNodeConfig(n, c)
<1>1. EffectiveVersion(c)' = EffectiveVersion(c)
  BY DEF EffectiveVersion
<1> QED
  BY <1>1, InputsKept, FailuresKept, HopsKept DEF GenerateNodeConfig
-----------------------------------------------------------------------------
(* Edits of configurations and versions                                    *)

LEMMA ActiveOnes ==
  ASSUME PanelTypeOK, NEW n, NEW b \in ActiveBindings(n)
  PROVE  b \in Pair /\ b = <<n, b[2]>> /\ b[2] \in Proto /\ bindings[b] # None
         /\ bindings[b].active /\ bindings[b] \in BindingRow
  BY DEF ActiveBindings, Rows, PanelTypeOK, Pair

LEMMA RulesHaveExits ==
  ASSUME PanelTypeOK, NEW n, NEW r \in RulesOf(n)
  PROVE  /\ r \in Rule /\ rules[r] \in RuleRow /\ rules[r] # None /\ rules[r].node = n
         /\ rules[r].exit \in Pair /\ rules[r].exit[2] \in Proto
         /\ bindings[rules[r].exit] # None /\ protos[rules[r].exit[2]] # None
  BY DEF RulesOf, Rows, PanelTypeOK, RuleRow, Pair

LEMMA StoreKeeps ==
  ASSUME PanelTypeOK, NEW p \in Proto, NEW x \in ConfigRow, StoreConfig(p, x),
         NEW n \in Node, NEW c \in Core, <<n, c>> \notin Sought', ~LeftBehind(n, c)
  PROVE  GenerateNodeConfig(n, c)' = GenerateNodeConfig(n, c)
<1>1. /\ protos[p] # None /\ protos' = [protos EXCEPT ![p] = x]
      /\ Sought' = NodesUsing(p) \X {x.core}
      /\ UNCHANGED <<nodes, bindings, clients, members, groups, certs, hosts, rules, versions>>
  BY EditSeeks DEF StoreConfig
<1>2. x # None /\ protos'[p] = x /\ \A q \in Proto \ {p} : protos'[q] = protos[q]
  BY <1>1, PanelAssumption DEF PanelTypeOK
<1>3. ASSUME NEW b \in ActiveBindings(n)
      PROVE  ConfigKept(b, c)
  <2>1. CASE b[2] # p \/ protos[p] = x
    BY <1>2, <2>1, ActiveOnes DEF ConfigKept
  <2>2. CASE b[2] = p /\ protos[p] # x
    <3>1. n \in NodesUsing(p)
      BY <2>2, ActiveOnes DEF NodesUsing
    <3>2. c # x.core
      BY <1>1, <3>1
    <3>3. c # protos[p].core
      BY <1>2, <2>2, <3>2 DEF LeftBehind
    <3> QED
      BY <1>1, <1>2, <2>2, <3>2, <3>3 DEF ConfigKept
  <2> QED
    BY <2>1, <2>2
<1>4. ActiveBindings(n)' = ActiveBindings(n)
  BY <1>1 DEF ActiveBindings, Rows
<1>5. BindingsKept(n, c)
  BY <1>1, <1>3, <1>4 DEF BindingsKept, ClientsKept
<1>6. \A q \in Proto : protos'[q] = None <=> protos[q] = None
  BY <1>1, <1>2
<1>7. RulesOf(n)' = RulesOf(n)
  <2>1. ASSUME NEW r \in Rows(rules)
        PROVE  protos'[rules[r].exit[2]] = None <=> protos[rules[r].exit[2]] = None
    BY <1>6 DEF Rows, PanelTypeOK, RuleRow, Pair
  <2> QED
    BY <1>1, <2>1 DEF RulesOf, Rows
<1>8. ASSUME NEW r \in RulesOf(n)
      PROVE  protos'[rules[r].exit[2]] = protos[rules[r].exit[2]]
  <2>1. CASE rules[r].exit[2] = p /\ protos[p] # x
    BY <1>2, <2>1 DEF LeftBehind, Dialled
  <2> QED
    BY <1>2, <2>1, RulesHaveExits
<1>9. RulesKept(n)
  BY <1>1, <1>7, <1>8 DEF RulesKept
<1> QED
  BY <1>1, <1>5, <1>9, ConfigurationKept

LEMMA DeleteKeeps ==
  ASSUME PanelTypeOK, NEW p \in Proto, NEW fate \in Fate, DeleteConfig(p, fate, 2),
         protos[p] # None,
         NEW n \in Node, NEW c \in Core, <<n, c>> \notin Sought', ~LeftBehind(n, c)
  PROVE  GenerateNodeConfig(n, c)' = GenerateNodeConfig(n, c)
<1>1. /\ protos[p] # None /\ protos' = [protos EXCEPT ![p] = None]
      /\ bindings' = [b \in Pair |-> IF b \in {x \in Rows(bindings) : x[2] = p}
                                    THEN BindingAfter(b, fate) ELSE bindings[b]]
      /\ Sought' = {b[1] : b \in {x \in Rows(bindings) : x[2] = p}} \X Core
      /\ UNCHANGED <<nodes, clients, members, groups, certs, hosts, rules, versions>>
  BY EditSeeks DEF DeleteConfig
<1>2. protos'[p] = None /\ \A q \in Proto \ {p} : protos'[q] = protos[q]
  BY <1>1 DEF PanelTypeOK
<1>3. bindings[<<n, p>>] = None
  <2>1. n \notin {b[1] : b \in {x \in Rows(bindings) : x[2] = p}}
    BY <1>1
  <2> QED
    BY <2>1 DEF Rows, PanelTypeOK, Pair
<1>4. ASSUME NEW b \in Pair, b[2] # p
      PROVE  bindings'[b] = bindings[b]
  BY <1>1, <1>4
<1>5. ASSUME NEW b \in Pair, b[1] = n
      PROVE  bindings'[b] = bindings[b]
  <2>1. CASE b[2] = p
    <3>1. b = <<n, p>> /\ b \notin Rows(bindings)
      BY <1>3, <1>5, <2>1 DEF Pair, Rows
    <3> QED
      BY <1>1, <3>1
  <2> QED
    BY <1>4, <2>1
<1>6. DOMAIN bindings = Pair /\ DOMAIN bindings' = Pair
  BY <1>1 DEF PanelTypeOK
<1>7. ActiveBindings(n)' = ActiveBindings(n)
  BY <1>5, <1>6 DEF ActiveBindings, Rows
<1>8. \A b \in ActiveBindings(n) : b \in Pair /\ b[1] = n /\ b[2] \in Proto \ {p}
  BY <1>3, ActiveOnes
<1>9. BindingsKept(n, c)
  BY <1>1, <1>2, <1>5, <1>7, <1>8 DEF BindingsKept, ClientsKept, ConfigKept
<1>10. ASSUME NEW r \in RulesOf(n)
       PROVE  rules[r].exit[2] # p
  BY <1>1, <1>2, <1>10 DEF LeftBehind, Dialled
<1>11. ASSUME NEW r \in Rows(rules), rules[r].exit[2] # p
       PROVE  /\ protos'[rules[r].exit[2]] = protos[rules[r].exit[2]]
              /\ bindings'[rules[r].exit] = bindings[rules[r].exit]
  <2>1. rules[r].exit \in Pair /\ rules[r].exit[2] \in Proto
    BY DEF Rows, PanelTypeOK, RuleRow, Pair
  <2> QED
    BY <1>2, <1>4, <1>11, <2>1
<1>12. ASSUME NEW r \in RulesOf(n)'
       PROVE  rules[r].exit[2] # p
  BY <1>1, <1>2, <1>12 DEF RulesOf
<1>13. RulesOf(n)' = RulesOf(n)
  BY <1>1, <1>10, <1>11, <1>12 DEF RulesOf, Rows
<1>14. RulesKept(n)
  <2>1. RulesOf(n) \subseteq Rows(rules)
    BY DEF RulesOf
  <2> QED
    BY <1>1, <1>10, <1>11, <1>13, <2>1 DEF RulesKept
<1> QED
  BY <1>1, <1>9, <1>14, ConfigurationKept

LEMMA ActivateKeeps ==
  ASSUME PanelTypeOK, NEW k \in Core, NEW v \in Version, ActivateVersion(k, v, TRUE),
         NEW n \in Node, NEW c \in Core, <<n, c>> \notin Sought'
  PROVE  \/ GenerateNodeConfig(n, c)' = GenerateNodeConfig(n, c)
         \/ ~(Runs(GenerateNodeConfig(n, c)) \/ Runs(GenerateNodeConfig(n, c)'))
<1>1. /\ versions' = [versions EXCEPT ![k] = v]
      /\ Sought' = NodesWithBindings(k) \X {k}
      /\ UNCHANGED <<nodes, protos, bindings, clients, members, groups, certs, hosts, rules>>
  BY EditSeeks DEF ActivateVersion
<1>2. CASE c # k
  <2>1. versions'[c] = versions[c]
    BY <1>1, <1>2 DEF PanelTypeOK
  <2>2. BindingsKept(n, c)
    BY <1>1 DEF BindingsKept, ClientsKept, ConfigKept, ActiveBindings, Rows
  <2>3. RulesKept(n)
    BY <1>1 DEF RulesKept, RulesOf, Rows
  <2> QED
    BY <1>1, <2>1, <2>2, <2>3, ConfigurationKept
<1>3. CASE c = k
  <2>1. n \notin NodesWithBindings(c)
    BY <1>1, <1>3
  <2>2. ForCore(n, c) = {}
    BY <2>1 DEF NodesWithBindings, ForCore
  <2>3. ForCore(n, c)' = ForCore(n, c)
    BY <1>1 DEF ForCore, ActiveBindings, Rows
  <2>4. Inputs(n, c) = {} /\ Inputs(n, c)' = {}
    BY <2>2, <2>3 DEF Inputs
  <2>5. Inbounds(c, {}) = {}
    BY DEF Inbounds
  <2>6. ~Runs(GenerateNodeConfig(n, c))
    BY <2>4, <2>5 DEF Runs, GenerateNodeConfig, NoConfig, Assembled
  <2>7. ~Runs(GenerateNodeConfig(n, c)')
    BY <2>4, <2>5 DEF Runs, GenerateNodeConfig, NoConfig, Assembled
  <2> QED
    BY <2>6, <2>7
<1> QED
  BY <1>2, <1>3
-----------------------------------------------------------------------------
(* Edits of rules                                                          *)

(* A client whose row or groups change loses or gains groups, or has none. *)
GroupsTell ==
  \A a \in Account : \/ members'[a] = members[a] /\ clients'[a] = clients[a]
                     \/ members'[a] # members[a]
                     \/ members[a] = {} /\ members'[a] = {}

NotOf(r, n) == rules[r] = None \/ rules[r].node # n

LEMMA OtherNodesKept ==
  ASSUME PanelTypeOK, NEW r \in Rule, NEW n \in Node, NEW c \in Core,
         UNCHANGED <<nodes, protos, bindings, groups, certs, hosts, versions>>,
         DOMAIN rules' = Rule, \A q \in Rule \ {r} : rules'[q] = rules[q],
         NotOf(r, n), NotOf(r, n)', GroupsTell, ~SharesGroup(n)
  PROVE  GenerateNodeConfig(n, c)' = GenerateNodeConfig(n, c)
<1>1. ActiveBindings(n)' = ActiveBindings(n)
  BY DEF ActiveBindings, Rows
<1>2. ASSUME NEW b \in ActiveBindings(n)
      PROVE  ClientsKept(b)
  BY <1>2 DEF ClientsKept, GroupsTell, SharesGroup
<1>3. BindingsKept(n, c)
  BY <1>1, <1>2 DEF BindingsKept, ConfigKept
<1>4. r \notin RulesOf(n) /\ r \notin RulesOf(n)'
  BY DEF RulesOf, NotOf, Rows
<1>5. DOMAIN rules = Rule
  BY DEF PanelTypeOK
<1>6. RulesOf(n)' = RulesOf(n)
  <2>1. ASSUME NEW q \in Rule \ {r}
        PROVE  q \in RulesOf(n)' <=> q \in RulesOf(n)
    BY <1>5, <2>1 DEF RulesOf, Rows
  <2>2. RulesOf(n) \subseteq Rule /\ RulesOf(n)' \subseteq Rule
    BY <1>5 DEF RulesOf, Rows
  <2> QED
    BY <1>4, <2>1, <2>2
<1>7. RulesKept(n)
  BY <1>4, <1>5, <1>6 DEF RulesKept, RulesOf, Rows
<1> QED
  BY <1>3, <1>7, ConfigurationKept

LEMMA CreateRuleKeeps ==
  ASSUME PanelTypeOK, NEW r \in Rule, NEW e \in Node, NEW b \in Pair, NEW m \in Match,
         CreateRule(r, e, b, m, 4), NEW n \in Node, NEW c \in Core,
         <<n, c>> \notin Sought', ~Unlisted(n)
  PROVE  GenerateNodeConfig(n, c)' = GenerateNodeConfig(n, c)
<1> DEFINE x == NextRelay
           row == [node |-> e, exit |-> b, client |-> x, match |-> m, enabled |-> TRUE]
<1>1. /\ rules[r] = None /\ Fresh # {} /\ bindings[b] # None
      /\ clients' = WithRow(clients, x) /\ members' = WithGroups(members, x, b)
      /\ rules' = [rules EXCEPT ![r] = row] /\ Sought' = {e, b[1]} \X Core
      /\ UNCHANGED <<nodes, protos, bindings, groups, certs, hosts, versions>>
  BY EditSeeks DEF CreateRule, ValidRelay
<1>2. x \in Relay /\ x \in Account /\ clients[x] = None /\ members[x] = {}
  BY <1>1, FreshRelay DEF Fresh
<1> HIDE DEF x
<1>3. row # None
  <2>1. row \in RuleRow
    BY <1>2 DEF RuleRow
  <2> QED
    BY <2>1, PanelAssumption
<1>4. n # e /\ n # b[1]
  BY <1>1
<1>5. rules'[r] = row /\ \A q \in Rule \ {r} : rules'[q] = rules[q]
  BY <1>1 DEF PanelTypeOK
<1>6. n \notin EndsOf(r) \union EndsOf(r)'
  BY <1>1, <1>4, <1>5 DEF EndsOf, ExitNodes
<1>7. ~SharesGroup(n)
  BY <1>1, <1>3, <1>5, <1>6 DEF Unlisted
<1>8. GroupsTell
  BY <1>1, <1>2 DEF GroupsTell, WithRow, WithGroups, PanelTypeOK
<1>9. NotOf(r, n) /\ NotOf(r, n)' /\ DOMAIN rules' = Rule
  BY <1>1, <1>4, <1>5 DEF NotOf, PanelTypeOK
<1> QED
  BY <1>1, <1>5, <1>7, <1>8, <1>9, OtherNodesKept

LEMMA UpdateRuleKeeps ==
  ASSUME PanelTypeOK, NEW r \in Rule, NEW m \in Match, NEW enabled \in BOOLEAN,
         UpdateRule(r, m, enabled, 2), NEW n \in Node, NEW c \in Core, <<n, c>> \notin Sought'
  PROVE  GenerateNodeConfig(n, c)' = GenerateNodeConfig(n, c)
<1>1. /\ rules[r] # None /\ rules' = [rules EXCEPT ![r].match = m, ![r].enabled = enabled]
      /\ Sought' = {rules[r].node, rules[r].exit[1]} \X Core
      /\ UNCHANGED <<nodes, protos, bindings, clients, members, groups, certs, hosts, versions>>
  BY EditSeeks DEF UpdateRule
<1>2. rules[r] \in RuleRow /\ n # rules[r].node
  BY <1>1 DEF PanelTypeOK
<1>3. rules'[r].node = rules[r].node /\ DOMAIN rules' = Rule
      /\ \A q \in Rule \ {r} : rules'[q] = rules[q]
  BY <1>1, <1>2 DEF PanelTypeOK, RuleRow
<1>4. NotOf(r, n) /\ NotOf(r, n)' /\ ~SharesGroup(n) /\ GroupsTell
  BY <1>1, <1>2, <1>3 DEF NotOf, SharesGroup, GroupsTell
<1> QED
  BY <1>1, <1>3, <1>4, OtherNodesKept

LEMMA MoveRuleKeeps ==
  ASSUME PanelTypeOK, NEW r \in Rule, NEW b \in Pair, MoveRule(r, b, 6),
         NEW n \in Node, NEW c \in Core, <<n, c>> \notin Sought', ~Unlisted(n)
  PROVE  GenerateNodeConfig(n, c)' = GenerateNodeConfig(n, c)
<1> DEFINE x == NextRelay
           old == rules[r].client
<1>1. /\ rules[r] # None /\ rules[r].exit # b /\ Fresh # {} /\ bindings[b] # None
      /\ clients' = WithRow([clients EXCEPT ![old] = None], x)
      /\ members' = WithGroups([members EXCEPT ![old] = {}], x, b)
      /\ rules' = [rules EXCEPT ![r].exit = b, ![r].client = x]
      /\ Sought' = ({rules[r].node} \union ExitNodes({rules[r].exit, b})) \X Core
      /\ UNCHANGED <<nodes, protos, bindings, groups, certs, hosts, versions>>
  <2>1. /\ rules[r] # None /\ rules[r].exit # b /\ Fresh # {} /\ bindings[b] # None
        /\ rules' = [rules EXCEPT ![r].exit = b, ![r].client = x]
        /\ UNCHANGED <<nodes, protos, bindings, groups, certs, hosts, versions>>
    BY DEF MoveRule, ValidRelay
  <2>2. /\ clients' = WithRow([clients EXCEPT ![old] = None], x)
        /\ members' = WithGroups([members EXCEPT ![old] = {}], x, b)
    BY DEF MoveRule
  <2>3. Sought' = ({rules[r].node} \union ExitNodes({rules[r].exit, b})) \X Core
    <3> DEFINE done == 6 = 6
               ends == ({rules[r].node} \union ExitNodes({rules[r].exit, b})) \X Core
    <3>1. Edit("move_rule", done, IF done THEN ends ELSE {})
      BY Zenon DEF MoveRule
    <3>2. done
      OBVIOUS
    <3> HIDE DEF done, ends
    <3>3. Sought' = ends
      BY <3>1, <3>2, EditSeeks
    <3> QED
      BY <3>3 DEF ends
  <2> QED
    BY <2>1, <2>2, <2>3
<1>2. rules[r] \in RuleRow /\ old \in Account
  BY <1>1 DEF PanelTypeOK, RuleRow, Account
<1>3. x \in Account /\ clients[x] = None /\ members[x] = {} /\ x # old
  <2>1. r \in Rows(rules)
    BY <1>1 DEF Rows, PanelTypeOK
  <2> QED
    BY <1>1, <2>1, FreshRelay DEF Fresh
<1> HIDE DEF x
<1>4. /\ rules'[r].node = rules[r].node /\ rules'[r].exit = b /\ DOMAIN rules' = Rule
      /\ \A q \in Rule \ {r} : rules'[q] = rules[q]
  BY <1>1, <1>2 DEF PanelTypeOK, RuleRow
<1>5. n # rules[r].node /\ n \notin ExitNodes({rules[r].exit, b})
  BY <1>1
<1>6. n \notin EndsOf(r) \union EndsOf(r)'
  BY <1>1, <1>4, <1>5 DEF EndsOf, ExitNodes
<1>7. ~SharesGroup(n)
  BY <1>1, <1>4, <1>6 DEF Unlisted
<1>8. GroupsTell
  <2>1. members'[old] = {}
    BY <1>1, <1>2, <1>3 DEF WithGroups, PanelTypeOK
  <2>2. \A a \in Account \ {old, x} : members'[a] = members[a] /\ clients'[a] = clients[a]
    BY <1>1 DEF WithGroups, WithRow, PanelTypeOK
  <2> QED
    BY <1>3, <2>1, <2>2 DEF GroupsTell
<1>9. NotOf(r, n) /\ NotOf(r, n)'
  BY <1>4, <1>5 DEF NotOf
<1> QED
  BY <1>1, <1>4, <1>7, <1>8, <1>9, OtherNodesKept

LEMMA DeleteRuleKeeps ==
  ASSUME PanelTypeOK, NEW r \in Rule, DeleteRule(r, 3), NEW n \in Node, NEW c \in Core,
         <<n, c>> \notin Sought', ~Unlisted(n)
  PROVE  GenerateNodeConfig(n, c)' = GenerateNodeConfig(n, c)
<1> DEFINE old == rules[r].client
<1>1. /\ rules[r] # None /\ rules' = [rules EXCEPT ![r] = None]
      /\ members' = [members EXCEPT ![old] = {}] /\ clients' = [clients EXCEPT ![old] = None]
      /\ Sought' = ({rules[r].node} \union ExitNodes({rules[r].exit})) \X Core
      /\ UNCHANGED <<nodes, protos, bindings, groups, certs, hosts, versions>>
  BY EditSeeks DEF DeleteRule
<1>2. rules'[r] = None /\ DOMAIN rules' = Rule /\ \A q \in Rule \ {r} : rules'[q] = rules[q]
  BY <1>1 DEF PanelTypeOK
<1>3. n # rules[r].node /\ n \notin ExitNodes({rules[r].exit})
  BY <1>1
<1>4. ~SharesGroup(n)
  BY <1>1, <1>2, <1>3 DEF Unlisted, EndsOf
<1>5. GroupsTell
  <2>1. \A a \in Account \ {old} : members'[a] = members[a] /\ clients'[a] = clients[a]
    BY <1>1 DEF PanelTypeOK
  <2>2. old \in Account => members'[old] = {}
    BY <1>1 DEF PanelTypeOK
  <2> QED
    BY <2>1, <2>2 DEF GroupsTell
<1>6. NotOf(r, n) /\ NotOf(r, n)'
  BY <1>2, <1>3 DEF NotOf
<1> QED
  BY <1>1, <1>2, <1>4, <1>5, <1>6, OtherNodesKept

-----------------------------------------------------------------------------
LEMMA MarksStep ==
  ASSUME PanelTypeOK, [PanelNext]_panelVars, edit'.op \in Edits, edit'.done,
         NEW n \in Node, NEW c \in Core, ~UNCHANGED panelVars
  PROVE  EditIsMarked(n, c)
<1> SUFFICES ASSUME <<n, c>> \notin Sought', ~LeftBehind(n, c), ~Unlisted(n)
             PROVE  \/ GenerateNodeConfig(n, c)' = GenerateNodeConfig(n, c)
                    \/ ~(Runs(GenerateNodeConfig(n, c)) \/ Runs(GenerateNodeConfig(n, c)'))
  BY DEF EditIsMarked
<1>1. CASE ConfigEdit
  <2> PICK p \in Proto : \/ \E x \in Payload : CreateConfig(p, x) \/ UpdateConfig(p, x)
                         \/ \E k \in Core : MoveConfig(p, k)
                         \/ \E preset \in Preset : ApplyPreset(p, preset)
                         \/ \E fate \in Fate, k \in 1..2 : DeleteConfig(p, fate, k)
    BY <1>1, Zenon DEF ConfigEdit
  <2>1. CASE \E x : InsertConfig(p, x)
    <3>1. edit'.op = "create_config"
      BY <2>1, EditSeeks DEF InsertConfig
    <3> QED
      BY <3>1 DEF Edits
  <2>2. CASE \E x \in Payload : UpdateConfig(p, x)
    BY <2>2, StoreKeeps, PanelAssumption DEF UpdateConfig
  <2>3. ASSUME NEW k \in Core, MoveConfig(p, k)
        PROVE  GenerateNodeConfig(n, c)' = GenerateNodeConfig(n, c)
    <3>1. [protos[p] EXCEPT !.core = k, !.tls = None] \in ConfigRow
      BY <2>3 DEF MoveConfig, PanelTypeOK, ConfigRow
    <3> QED
      BY <2>3, <3>1, StoreKeeps DEF MoveConfig
  <2>4. ASSUME NEW fate \in Fate, NEW k \in 1..2, DeleteConfig(p, fate, k)
        PROVE  GenerateNodeConfig(n, c)' = GenerateNodeConfig(n, c)
    <3>1. k = 2 /\ protos[p] # None
      BY <2>4, EditSeeks DEF DeleteConfig
    <3> QED
      BY <2>4, <3>1, DeleteKeeps
  <2> QED
    BY <2>1, <2>2, <2>3, <2>4 DEF CreateConfig, ApplyPreset
<1>2. CASE RuleEdit
  <2> PICK r \in Rule :
        \/ \E b \in Pair : \/ \E e \in Node, m \in Match, k \in 1..4 : CreateRule(r, e, b, m, k)
                           \/ \E k \in 1..6 : MoveRule(r, b, k)
        \/ \E m \in Match, enabled \in BOOLEAN, k \in 1..2 : UpdateRule(r, m, enabled, k)
        \/ \E k \in 1..3 : DeleteRule(r, k)
    BY <1>2 DEF RuleEdit
  <2>1. ASSUME NEW e \in Node, NEW b \in Pair, NEW m \in Match, NEW k \in 1..4,
               CreateRule(r, e, b, m, k)
        PROVE  GenerateNodeConfig(n, c)' = GenerateNodeConfig(n, c)
    <3>1. k = 4
      BY <2>1, EditSeeks DEF CreateRule
    <3> QED
      BY <2>1, <3>1, CreateRuleKeeps
  <2>2. ASSUME NEW b \in Pair, NEW k \in 1..6, MoveRule(r, b, k)
        PROVE  GenerateNodeConfig(n, c)' = GenerateNodeConfig(n, c)
    <3>1. k = 6
      BY <2>2, EditSeeks DEF MoveRule
    <3> QED
      BY <2>2, <3>1, MoveRuleKeeps
  <2>3. ASSUME NEW m \in Match, NEW enabled \in BOOLEAN, NEW k \in 1..2,
               UpdateRule(r, m, enabled, k)
        PROVE  GenerateNodeConfig(n, c)' = GenerateNodeConfig(n, c)
    <3>1. k = 2
      BY <2>3, EditSeeks DEF UpdateRule
    <3> QED
      BY <2>3, <3>1, UpdateRuleKeeps
  <2>4. ASSUME NEW k \in 1..3, DeleteRule(r, k)
        PROVE  GenerateNodeConfig(n, c)' = GenerateNodeConfig(n, c)
    <3>1. k = 3
      BY <2>4, EditSeeks DEF DeleteRule
    <3> QED
      BY <2>4, <3>1, DeleteRuleKeeps
  <2> QED
    BY <2>1, <2>2, <2>3, <2>4
<1>3. CASE VersionEdit
  <2> PICK k \in Core, v \in Version, found \in BOOLEAN : ActivateVersion(k, v, found)
    BY <1>3 DEF VersionEdit
  <2>1. ActivateVersion(k, v, TRUE)
    <3>1. edit'.done = found
      BY EditSeeks DEF ActivateVersion
    <3> QED
      BY <3>1
  <2> QED
    BY <2>1, ActivateKeeps
<1>4. CASE BindingEdit
  <2>1. edit'.op \in {"create_binding", "update_binding", "delete_binding"}
    <3> SUFFICES ASSUME NEW b \in Pair,
                        \/ \E o \in Override : CreateBinding(b, o) \/ OverrideBinding(b, o)
                        \/ \E active \in BOOLEAN : SetBindingActive(b, active)
                        \/ DeleteBinding(b)
                 PROVE  edit'.op \in {"create_binding", "update_binding", "delete_binding"}
      BY <1>4, Zenon DEF BindingEdit
    <3>1. ASSUME NEW o \in Override, CreateBinding(b, o) \/ OverrideBinding(b, o)
          PROVE  edit'.op \in {"create_binding", "update_binding"}
      BY <3>1, EditSeeks DEF CreateBinding, OverrideBinding
    <3>2. ASSUME NEW active \in BOOLEAN, SetBindingActive(b, active)
          PROVE  edit'.op = "update_binding"
      BY <3>2, EditSeeks DEF SetBindingActive
    <3>3. CASE DeleteBinding(b)
      BY <3>3, EditSeeks DEF DeleteBinding
    <3> QED
      BY <3>1, <3>2, <3>3
  <2> QED
    BY <2>1 DEF Edits
<1>5. CASE GroupEdit
  <2>1. ASSUME NEW g, NEW in, CreateGroup(g, in)
        PROVE  edit'.op = "create_group"
    BY <2>1, EditSeeks DEF CreateGroup
  <2>2. ASSUME NEW g, NEW in, UpdateGroup(g, in)
        PROVE  edit'.op = "update_group"
    BY <2>2, EditSeeks DEF UpdateGroup
  <2>3. ASSUME NEW g, DeleteGroup(g)
        PROVE  edit'.op = "delete_group"
    BY <2>3, EditSeeks DEF DeleteGroup
  <2> QED
    BY <1>5, <2>1, <2>2, <2>3 DEF GroupEdit, Edits
<1>6. CASE ClientEdit
  <2>1. ASSUME NEW a, NEW name, NEW status, NEW in, CreateClient(a, name, status, in)
        PROVE  edit'.op = "create_client"
    BY <2>1, EditSeeks DEF CreateClient
  <2>2. ASSUME NEW a, NEW status, NEW in, UpdateClient(a, status, in)
        PROVE  edit'.op = "update_client"
    BY <2>2, EditSeeks DEF UpdateClient
  <2>3. ASSUME NEW a, DeleteClient(a)
        PROVE  edit'.op = "delete_client"
    BY <2>3, EditSeeks DEF DeleteClient
  <2> QED
    BY <1>6, <2>1, <2>2, <2>3 DEF ClientEdit, Edits
<1>7. CASE NodeEdit
  <2>1. ASSUME NEW k, NEW e, SetParent(k, e)
        PROVE  edit'.op = "update_node"
    BY <2>1, EditSeeks DEF SetParent
  <2>2. ASSUME NEW k, DeleteNode(k)
        PROVE  edit'.op = "delete_node"
    BY <2>2, EditSeeks DEF DeleteNode
  <2>3. ASSUME NEW k, DeleteCert(k)
        PROVE  edit'.op = "delete_certificate"
    BY <2>3, EditSeeks DEF DeleteCert
  <2>4. ASSUME NEW b, NEW h, PutHost(b, h)
        PROVE  edit'.op = "put_host"
    BY <2>4, EditSeeks DEF PutHost
  <2>5. ASSUME NEW b, DeleteHost(b)
        PROVE  edit'.op = "delete_host"
    BY <2>5, EditSeeks DEF DeleteHost
  <2> QED
    BY <1>7, <2>1, <2>2, <2>3, <2>4, <2>5 DEF NodeEdit, Edits
<1> QED
  BY <1>1, <1>2, <1>3, <1>4, <1>5, <1>6, <1>7 DEF PanelNext

\* No handler leaves out a node whose configuration it changed, but for the
\* causes the property names, for any tables, configurations and presets
\* (mark_pending, push.rs:117, after nodes_using_config and its like).
THEOREM EditsAlwaysMarked == PanelSpec => EditsAreMarked
<1>1. PanelTypeOK /\ [PanelNext]_panelVars
        => [edit'.op \in Edits /\ edit'.done
              => \A n \in Node, c \in Core : EditIsMarked(n, c)]_panelVars
  BY MarksStep
<1> QED
  BY <1>1, PanelTypeCorrect, PTL DEF PanelSpec, EditsAreMarked
-----------------------------------------------------------------------------
(* Who may use a binding                                                   *)

LEMMA AccessBySides ==
  ASSUME PanelTypeOK, NEW a \in Rows(clients), NEW b \in Rows(bindings), bindings[b].active,
         nodes[b[1]] # None, protos[b[2]] # None
  PROVE  clients[a].status = "active" /\ b \in {q.pair : q \in BuildProxyNodes(a, NoFilter)}
         <=> Joined(b) # {} /\ \E u \in ServerEntries(b, NoKeys) : u.cred = a
<1>1. a \in Account /\ clients[a] # None /\ b \in Pair /\ bindings[b] # None
  BY DEF Rows, PanelTypeOK
<1>2. \A x : ProxyNode(a, x).pair = x
  BY DEF ProxyNode
<1>3. Listed(a, b, NoFilter) <=> a \in Joined(b)
  BY <1>1 DEF Listed, NoFilter, Joined
<1>4. clients[a].status = "active"
        => (b \in {q.pair : q \in BuildProxyNodes(a, NoFilter)} <=> a \in Joined(b))
  <2> SUFFICES ASSUME clients[a].status = "active"
               PROVE  b \in {q.pair : q \in BuildProxyNodes(a, NoFilter)} <=> a \in Joined(b)
    OBVIOUS
  <2> DEFINE Mine == {x \in Pair : Listed(a, x, NoFilter)}
  <2>1. b \in Mine <=> a \in Joined(b)
    BY <1>1, <1>3
  <2>2. BuildProxyNodes(a, NoFilter) = {ProxyNode(a, x) : x \in Mine}
    BY DEF BuildProxyNodes
  <2> HIDE DEF Mine
  <2>3. b \in {q.pair : q \in {ProxyNode(a, x) : x \in Mine}} <=> b \in Mine
    <3>1. ASSUME NEW q \in {ProxyNode(a, x) : x \in Mine}, q.pair = b
          PROVE  b \in Mine
      <4>1. PICK x \in Mine : q = ProxyNode(a, x)
        BY <3>1
      <4> QED
        BY <1>2, <3>1, <4>1
    <3>2. b \in Mine => ProxyNode(a, b) \in {ProxyNode(a, x) : x \in Mine}
      OBVIOUS
    <3>3. ProxyNode(a, b).pair = b
      BY <1>2
    <3> QED
      BY <3>1, <3>2, <3>3
  <2> QED
    BY <2>1, <2>2, <2>3
<1>5. \A x, protocol : ClientEntry(x, protocol).cred = x
  BY DEF ClientEntry
<1>6. Joined(b) # {} => ((\E u \in ServerEntries(b, NoKeys) : u.cred = a)
                           <=> a \in Joined(b) /\ clients[a].status = "active")
  <2> DEFINE Open == {x \in Joined(b) : clients[x] # None /\ clients[x].status = "active"}
             protocol == protos[b[2]].protocol
  <2>1. a \in Open <=> a \in Joined(b) /\ clients[a].status = "active"
    BY <1>1
  <2>2. Joined(b) # {} => ServerEntries(b, NoKeys) = {ClientEntry(x, protocol) : x \in Open}
    BY DEF ServerEntries
  <2> HIDE DEF Open, protocol
  <2>3. (\E u \in {ClientEntry(x, protocol) : x \in Open} : u.cred = a) <=> a \in Open
    <3>1. ASSUME NEW u \in {ClientEntry(x, protocol) : x \in Open}, u.cred = a
          PROVE  a \in Open
      <4>1. PICK x \in Open : u = ClientEntry(x, protocol)
        BY <3>1
      <4> QED
        BY <1>5, <3>1, <4>1
    <3>2. a \in Open => ClientEntry(a, protocol) \in {ClientEntry(x, protocol) : x \in Open}
      OBVIOUS
    <3>3. ClientEntry(a, protocol).cred = a
      BY <1>5
    <3> QED
      BY <3>1, <3>2, <3>3
  <2> QED
    BY <2>1, <2>2, <2>3
<1> QED
  BY <1>4, <1>6

\* The subscription of a client and the inbounds that have its credential
\* agree, whatever was deleted in between (build_proxy_nodes,
\* generator.rs:14, and inject_binding_clients, config_gen.rs:148).
THEOREM AccessIsTheSame == PanelSpec => []SameAccess
<1>1. PanelTypeOK => SameAccess
  BY AccessBySides DEF SameAccess
<1> QED
  BY <1>1, PanelTypeCorrect, PTL

-----------------------------------------------------------------------------
(* The formats                                                             *)

LEMMA NoName ==
  ASSUME NEW s, "sni" \notin DOMAIN s
  PROVE  Str(s, "sni") = None
  BY DEF Str

LEMMA OrDefaults ==
  /\ \A d : Or(None, d) = d
  /\ \A x, d : x # None => Or(x, d) = x
  BY DEF Or

(* What a format may write as the server's name *)
Names(q) == {SbSni(q), ClashSni(q), Or(TlsServerName(q), q.server)}

(* The name a proxy is shown to connect with *)
NameShown(q) == IF ServerName(q.tls) \in {None, ""} THEN q.server ELSE ServerName(q.tls)

LEMMA NamesAgree ==
  ASSUME NEW q, "sni" \notin DOMAIN q.settings
  PROVE  \A sni \in Names(q) : (IF sni = "" THEN q.server ELSE sni) = NameShown(q)
<1>1. Str(q.settings, "sni") = None
  BY NoName
<1>2. SbSni(q) = Or(ServerName(q.tls), "")
  BY <1>1, OrDefaults DEF SbSni
<1>3. ClashSni(q) = Or(ServerName(q.tls), q.server)
  BY <1>1, OrDefaults DEF ClashSni
<1>4. TlsServerName(q) = ServerName(q.tls)
  BY <1>1 DEF TlsServerName, Or
<1> QED
  BY <1>2, <1>3, <1>4 DEF Or, Names, NameShown

Agree(q) == /\ \A k, l \in Links(q) : Shown(k) = Shown(l)
            /\ SbSupports(q) => (SbLink(q).ok <=> ShareLink(q).ok /\ SchemaKnows(q))

LEMMA LinkIs ==
  ASSUME NEW q, NEW l \in Links(q)
  PROVE  \/ ClashLink(q).ok /\ l = ClashLink(q).is
         \/ ShareLink(q).ok /\ l = ShareLink(q).is
         \/ SbSupports(q) /\ SbLink(q).ok /\ l = SbLink(q).is
  BY DEF Links

LEMMA WhatIsBuilt ==
  ASSUME NEW x, NEW why, NEW made \in {Refused(why), Built(x)}, made.ok
  PROVE  made.is = x
  BY DEF Built, Refused

LEMMA AreBuilt ==
  /\ \A x : Built(x).ok
  /\ \A why : ~Refused(why).ok
  BY DEF Built, Refused

LEMMA RealityAgrees ==
  ASSUME NEW q, q.protocol = "vless_reality", Network(q.settings) \in {"tcp", "ws"}
  PROVE  Agree(q)
<1> DEFINE s == q.settings
           X(t) == Link(q, ClientUuid(s), Or(Str(s, "flow"), ""), Reality(s), "", None, t)
           made == Built(X(SbLinkTransport(s)))
           lacks == Blank(ClientUuid(s)) \/ Keyless(s)
<1>1. ClashTransport(q) = SbLinkTransport(s) /\ ShareTransport(q) = SbLinkTransport(s)
  BY DEF ClashTransport, ShareTransport, SbLinkTransport
<1>2. SchemaKnows(q) <=> SchemaTransport(s) /\ SchemaReality(s)
  BY DEF SchemaKnows
<1>3. SbLink(q) = IF lacks THEN Refused("key")
                  ELSE IF ~(SchemaTransport(s) /\ SchemaReality(s)) THEN Refused("schema") ELSE made
  BY DEF SbLink, SbVlessLink
<1>4. ShareLink(q) = IF lacks THEN Refused("key") ELSE made
  BY <1>1 DEF ShareLink, ShareVlessLink
<1>5. ClashLink(q) = IF Blank(ClientUuid(s)) THEN Refused("id") ELSE made
  BY <1>1 DEF ClashLink, ClashVlessLink
<1> HIDE DEF X, lacks
<1>6. \A l \in Links(q) : l = X(SbLinkTransport(s))
  BY <1>3, <1>4, <1>5, LinkIs, WhatIsBuilt
<1>7. SbLink(q).ok <=> ShareLink(q).ok /\ SchemaKnows(q)
  BY <1>2, <1>3, <1>4, AreBuilt
<1> QED
  BY <1>6, <1>7 DEF Agree

LEMMA ShownName ==
  ASSUME NEW q, "sni" \notin DOMAIN q.settings, NEW cred, NEW flow, NEW reality, NEW obfs,
         NEW transport
  PROVE  \A sni \in Names(q) : Shown(Link(q, cred, flow, reality, sni, obfs, transport))
                                = Link(q, cred, flow, reality, NameShown(q), obfs, transport)
<1> TAKE x \in Names(q)
<1>1. (IF x = "" THEN q.server ELSE x) = NameShown(q)
  BY NamesAgree
<1> DEFINE l == Link(q, cred, flow, reality, x, obfs, transport)
<1>2. l.sni = x /\ l.server = q.server
  BY DEF Link
<1>3. [l EXCEPT !.sni = NameShown(q)] = Link(q, cred, flow, reality, NameShown(q), obfs, transport)
  BY DEF Link
<1> QED
  BY <1>1, <1>2, <1>3 DEF Shown

LEMMA XhttpAgrees ==
  ASSUME NEW q, q.protocol = "vless_xhttp", "sni" \notin DOMAIN q.settings
  PROVE  Agree(q)
<1> DEFINE s == q.settings
           t == [type |-> "xhttp", path |-> XhttpPath(s)]
           X(sni) == Link(q, ClientUuid(s), Or(Str(s, "flow"), ""), None, sni, None, t)
<1>1. ~SbSupports(q)
  BY DEF SbSupports
<1>2. Str(s, "sni") = None
  BY NoName
<1>3. ClashLink(q) = IF Blank(ClientUuid(s)) THEN Refused("id") ELSE Built(X(ClashSni(q)))
  <2>1. ClashTransport(q) = t
    BY DEF ClashTransport
  <2>2. Or(ServerName(q.tls), q.server) = ClashSni(q)
    BY <1>2 DEF ClashSni, Or
  <2> QED
    BY <2>1, <2>2 DEF ClashLink, ClashVlessLink
<1>4. ShareLink(q) = IF Blank(ClientUuid(s)) THEN Refused("key") ELSE Built(X(SbSni(q)))
  <2>1. ShareTransport(q) = t
    BY DEF ShareTransport
  <2>2. (IF q.tls = None THEN "" ELSE Or(TlsServerName(q), "")) = SbSni(q)
    BY <1>2 DEF SbSni, TlsServerName, ServerName, Or
  <2> QED
    BY <2>1, <2>2 DEF ShareLink, ShareVlessLink
<1>5. Shown(X(ClashSni(q))) = Shown(X(SbSni(q)))
  BY ShownName DEF Names
<1> HIDE DEF X
<1>6. \A l \in Links(q) : l = X(ClashSni(q)) \/ l = X(SbSni(q))
  BY <1>1, <1>3, <1>4, LinkIs, WhatIsBuilt
<1> QED
  BY <1>1, <1>5, <1>6 DEF Agree

LEMMA PasswordsAgree ==
  ASSUME NEW q, q.protocol \in {"hysteria2", "anytls"}, "sni" \notin DOMAIN q.settings,
         q.protocol = "hysteria2" =>
           ~(ObfsType(q.settings) # "none" /\ Str(q.settings, "obfs_password") = None)
  PROVE  Agree(q)
<1> DEFINE s == q.settings
           obfs == IF q.protocol = "hysteria2" THEN SbObfs(s) ELSE None
           tcp == [type |-> "tcp", path |-> ""]
           X(sni) == Link(q, ClientPassword(s), "", None, sni, obfs, tcp)
           Made(sni) == IF Blank(ClientPassword(s)) THEN Refused("password") ELSE Built(X(sni))
<1>1. q.protocol = "hysteria2" => TypedObfs(s) = SbObfs(s)
  BY DEF TypedObfs, SbObfs, Or
<1>2. /\ SbLink(q) = IF SchemaObfs(obfs) \/ Blank(ClientPassword(s)) THEN Made(SbSni(q))
                     ELSE Refused("schema")
      /\ SchemaKnows(q) <=> SchemaObfs(obfs)
  BY DEF SbLink, SbPasswordLink, SchemaKnows, SchemaObfs
<1>3. ClashLink(q) = Made(ClashSni(q))
  BY <1>1 DEF ClashLink, ClashPasswordLink
<1>4. ShareLink(q) = Made(Or(TlsServerName(q), q.server))
  BY <1>1 DEF ShareLink, SharePasswordLink
<1> HIDE DEF X, obfs
<1>5. \A l \in Links(q) : \E sni \in Names(q) :
                            l = X(sni)
  <2>1. ASSUME NEW sni, Made(sni).ok
        PROVE  Made(sni).is = X(sni)
    BY <2>1, WhatIsBuilt
  <2> HIDE DEF Made
  <2> QED
    <3> SUFFICES ASSUME NEW l \in Links(q)
                 PROVE  \E sni \in Names(q) : l = X(sni)
      OBVIOUS
    <3>1. SbLink(q).ok => SbLink(q) = Made(SbSni(q))
      BY <1>2, AreBuilt
    <3>2. {SbSni(q), ClashSni(q), Or(TlsServerName(q), q.server)} \subseteq Names(q)
      BY DEF Names
    <3> QED
      BY <1>3, <1>4, <2>1, <3>1, <3>2, LinkIs
<1>6. SbLink(q).ok <=> ShareLink(q).ok /\ SchemaKnows(q)
  BY <1>2, <1>4, AreBuilt
<1>7. \A x \in Names(q) :
         Shown(X(x)) = Link(q, ClientPassword(s), "", None, NameShown(q), obfs, tcp)
  BY ShownName DEF X
<1> QED
  BY <1>5, <1>6, <1>7 DEF Agree

LEMMA OfferedProtocol ==
  ASSUME PanelTypeOK, NEW a, NEW q \in BuildProxyNodes(a, NoFilter)
  PROVE  q.protocol \in Preset
<1>1. PICK b \in Pair : Listed(a, b, NoFilter) /\ q = ProxyNode(a, b)
  BY DEF BuildProxyNodes
<1>2. protos[b[2]] \in ConfigRow
  BY <1>1 DEF Listed, PanelTypeOK, Pair
<1> QED
  BY <1>1, <1>2 DEF ProxyNode, ConfigRow

\* Whatever settings are stored, a proxy is the same connection in every
\* format (singbox.rs, clash.rs, base64.rs), but for the settings the property
\* names, and sing-box refuses the ones that base64 refuses and those that its
\* schema does not know.
THEOREM FormatsAlwaysAgree == PanelSpec => []FormatsAgree
<1>1. PanelTypeOK => FormatsAgree
  <2> SUFFICES ASSUME PanelTypeOK, NEW a \in Rows(clients), NEW q \in BuildProxyNodes(a, NoFilter),
                      "sni" \notin DOMAIN q.settings,
                      ~(/\ q.protocol = "hysteria2"
                        /\ ObfsType(q.settings) # "none" /\ Str(q.settings, "obfs_password") = None),
                      ~(q.protocol = "vless_reality" /\ Network(q.settings) \notin {"tcp", "ws"})
               PROVE  Agree(q)
    BY DEF FormatsAgree, Agree
  <2>1. q.protocol \in Preset
    BY OfferedProtocol
  <2>2. CASE q.protocol = "vless_reality"
    BY <2>2, RealityAgrees
  <2>3. CASE q.protocol = "vless_xhttp"
    BY <2>3, XhttpAgrees
  <2>4. CASE q.protocol \in {"hysteria2", "anytls"}
    BY <2>4, PasswordsAgree
  <2> QED
    BY <2>1, <2>2, <2>3, <2>4 DEF Preset
<1> QED
  BY <1>1, PanelTypeCorrect, PTL

-----------------------------------------------------------------------------
(* Names of clients                                                        *)

(* The email that an administrator gave, or the client's own id *)
Named(table) ==
  \A a \in Account : table[a] # None => table[a].name = a \/ {a, table[a].name} \subseteq Client

LEMMA WithRowNamed ==
  ASSUME NEW table \in [Account -> ClientRow \union {None}], Named(table), NEW c \in Account
  PROVE  Named(WithRow(table, c)) /\ Named([table EXCEPT ![c] = None])
  BY DEF Named, WithRow

LEMMA NamedInit == PanelInit => Named(clients)
<1>1. ASSUME NEW bound, NEW used \in SUBSET Account, NEW g, NEW x, Provisioned(bound, used, g, x)
      PROVE  Named(clients)
  BY <1>1 DEF Provisioned, Named
<1>2. ASSUME PanelInit
      PROVE  \E bound, g, x : \E used \in SUBSET Account : Provisioned(bound, used, g, x)
  <2> DEFINE n == CHOOSE n \in Node : TRUE
             p == CHOOSE p \in Proto : TRUE
             own == CHOOSE q \in Proto \ {p} : TRUE
             a == CHOOSE a \in Client : TRUE
             c == CHOOSE c \in Relay : TRUE
             g == CHOOSE g \in Group : TRUE
  <2>1. {a} \in SUBSET Account /\ {a, c} \in SUBSET Account
    BY SomeOfEach DEF Account
  <2>2. \E x : \/ Provisioned({<<n, p>>}, {a}, g, x)
               \/ Provisioned({<<n, own>>} \union (Node \ {n}) \X {p}, {a, c}, g, x)
    BY <1>2 DEF PanelInit
  <2> QED
    BY <2>1, <2>2
<1> QED
  BY <1>1, <1>2

LEMMA NamedStep == PanelTypeOK /\ Named(clients) /\ [PanelNext]_panelVars => Named(clients')
<1> SUFFICES ASSUME PanelTypeOK, Named(clients), [PanelNext]_panelVars
             PROVE  Named(clients')
  OBVIOUS
<1>1. clients \in [Account -> ClientRow \union {None}]
  BY DEF PanelTypeOK
<1>2. CASE ConfigEdit
  BY <1>2 DEF ConfigEdit, CreateConfig, UpdateConfig, MoveConfig, ApplyPreset, InsertConfig,
              StoreConfig, DeleteConfig
<1>3. CASE BindingEdit
  BY <1>3 DEF BindingEdit, CreateBinding, OverrideBinding, SetBindingActive, DeleteBinding
<1>4. CASE GroupEdit
  BY <1>4 DEF GroupEdit, CreateGroup, UpdateGroup, DeleteGroup
<1>5. CASE ClientEdit
  <2>1. ASSUME NEW a \in Account, NEW status, NEW in, NEW name \in Client,
               CreateClient(a, name, status, in)
        PROVE  Named(clients')
    BY <1>1, <2>1 DEF CreateClient, Named
  <2>2. ASSUME NEW a \in Account, NEW status, NEW in, UpdateClient(a, status, in)
        PROVE  Named(clients')
    BY <1>1, <2>2 DEF UpdateClient, Named, ClientRow
  <2>3. ASSUME NEW a \in Account, DeleteClient(a)
        PROVE  Named(clients')
    BY <1>1, <2>3, WithRowNamed DEF DeleteClient
  <2> QED
    BY <1>5, <2>1, <2>2, <2>3 DEF ClientEdit
<1>6. CASE NodeEdit
  BY <1>6 DEF NodeEdit, SetParent, DeleteNode, DeleteCert, PutHost, DeleteHost
<1>7. CASE RuleEdit
  <2>1. ASSUME NEW r, NEW n, NEW b, NEW m, NEW k, CreateRule(r, n, b, m, k)
        PROVE  Named(clients')
    BY <1>1, <2>1, FreshRelay, WithRowNamed DEF CreateRule
  <2>2. ASSUME NEW r \in Rule, NEW b, NEW k, MoveRule(r, b, k)
        PROVE  Named(clients')
    <3>1. rules[r].client \in Account
      BY <2>2 DEF MoveRule, PanelTypeOK, RuleRow, Account
    <3> DEFINE gone == [clients EXCEPT ![rules[r].client] = None]
    <3>2. gone \in [Account -> ClientRow \union {None}] /\ Named(gone)
      BY <1>1, <3>1, WithRowNamed, WithRowType
    <3> HIDE DEF gone
    <3>3. clients' \in {clients, gone, WithRow(clients, NextRelay), WithRow(gone, NextRelay)}
          /\ NextRelay \in Account
      BY <2>2, FreshRelay DEF MoveRule, gone
    <3> QED
      BY <1>1, <3>2, <3>3, WithRowNamed
  <2>3. ASSUME NEW r, NEW m, NEW enabled, NEW k, UpdateRule(r, m, enabled, k)
        PROVE  Named(clients')
    BY <2>3 DEF UpdateRule
  <2>4. ASSUME NEW r \in Rule, NEW k, DeleteRule(r, k)
        PROVE  Named(clients')
    <3>1. rules[r].client \in Account
      BY <2>4 DEF DeleteRule, PanelTypeOK, RuleRow, Account
    <3> QED
      BY <1>1, <2>4, <3>1, WithRowNamed DEF DeleteRule
  <2> QED
    BY <1>7, <2>1, <2>2, <2>3, <2>4 DEF RuleEdit
<1>8. CASE VersionEdit
  BY <1>8 DEF VersionEdit, ActivateVersion
<1>9. CASE UNCHANGED panelVars
  BY <1>9 DEF panelVars, tables
<1> QED
  BY <1>2, <1>3, <1>4, <1>5, <1>6, <1>7, <1>8, <1>9 DEF PanelNext

(* Every row of the tables has its shape and its name. *)
LEMMA NamesAreTheirs == PanelSpec => [](PanelTypeOK /\ Named(clients))
<1>1. PanelTypeOK /\ Named(clients) /\ [PanelNext]_panelVars => Named(clients)'
  BY NamedStep DEF Named
<1> QED
  BY <1>1, NamedInit, PanelTypeCorrect, PTL DEF PanelSpec

-----------------------------------------------------------------------------
(* Links and the inbounds they are for                                     *)

(* Settings that differ in what says who the clients are *)
Credential == {"clients", "id"}
Alike(t, s) ==
  \A k : k \notin Credential => /\ k \in DOMAIN t <=> k \in DOMAIN s
                                /\ k \in DOMAIN s => t[k] = s[k]

LEMMA AlikeReads ==
  ASSUME NEW s, NEW t, Alike(t, s)
  PROVE  \A k : k \notin Credential => Str(t, k) = Str(s, k) /\ ItemOf(t, k) = ItemOf(s, k)
  BY DEF Alike, Str, ItemOf

LEMMA AlikeItems ==
  ASSUME NEW s, NEW t, Alike(t, s)
  PROVE  /\ FirstServerName(t) = FirstServerName(s) /\ FirstShortId(t) = FirstShortId(s)
         /\ Reality(t) = Reality(s) /\ Keyless(t) = Keyless(s)
<1>1. /\ "server_names" \in DOMAIN t <=> "server_names" \in DOMAIN s
      /\ "short_id" \in DOMAIN t <=> "short_id" \in DOMAIN s
  BY DEF Alike, Credential
<1>2. FirstServerName(t) = FirstServerName(s) /\ FirstShortId(t) = FirstShortId(s)
  BY <1>1, AlikeReads DEF FirstServerName, FirstShortId, FirstItem, Credential
<1> QED
  BY <1>2, AlikeReads DEF Reality, Keyless, Credential

LEMMA AlikeTexts ==
  ASSUME NEW s, NEW t, Alike(t, s)
  PROVE  /\ Network(t) = Network(s) /\ XhttpPath(t) = XhttpPath(s)
         /\ SbLinkTransport(t) = SbLinkTransport(s) /\ SbTransport(t) = SbTransport(s)
         /\ SbObfs(t) = SbObfs(s) /\ TypedObfs(t) = TypedObfs(s) /\ ServerObfs(t) = ServerObfs(s)
<1>1. Network(t) = Network(s)
  BY AlikeReads DEF Network, Credential
<1>2. XhttpPath(t) = XhttpPath(s)
  BY AlikeReads DEF XhttpPath, FirstStr, Credential
<1>3. SbLinkTransport(t) = SbLinkTransport(s)
  BY <1>1, AlikeReads DEF SbLinkTransport, Credential
<1>4. SbTransport(t) = SbTransport(s)
  <2>1. Str(t, "network") = Str(s, "network") /\ Str(t, "path") = Str(s, "path")
        /\ Str(t, "service_name") = Str(s, "service_name")
    BY AlikeReads DEF Credential
  <2>2. FirstStr(t, "path", "xhttp_path") = FirstStr(s, "path", "xhttp_path")
    BY AlikeReads DEF FirstStr, Credential
  <2> QED
    BY <2>1, <2>2 DEF SbTransport
<1>5. SbObfs(t) = SbObfs(s) /\ TypedObfs(t) = TypedObfs(s) /\ ServerObfs(t) = ServerObfs(s)
  BY AlikeReads DEF SbObfs, TypedObfs, ServerObfs, ObfsType, Credential
<1> QED
  BY <1>1, <1>2, <1>3, <1>4, <1>5

LEMMA AlikeKeys ==
  ASSUME NEW s, NEW t, Alike(t, s)
  PROVE  SbReality(t) = SbReality(s) /\ MhReality(t) = MhReality(s)
<1>1. /\ FirstStr(t, "reality_dest", "dest") = FirstStr(s, "reality_dest", "dest")
      /\ FirstStr(t, "reality_private_key", "private_key")
           = FirstStr(s, "reality_private_key", "private_key")
  BY AlikeReads DEF FirstStr, Credential
<1>2. SbReality(t) = SbReality(s)
  <2>1. "reality_short_id" \in DOMAIN t <=> "reality_short_id" \in DOMAIN s
    BY DEF Alike, Credential
  <2>2. /\ Str(t, "reality_short_id") = Str(s, "reality_short_id")
        /\ Str(t, "short_id") = Str(s, "short_id")
    BY AlikeReads DEF Credential
  <2> QED
    BY <1>1, <2>1, <2>2, AlikeItems DEF SbReality
<1>3. ASSUME NEW key, NEW other, key \notin Credential, other \notin Credential
      PROVE  CommaList(t, key, other) = CommaList(s, key, other)
  <2>1. \A k \in {key, other} : Str(t, k) = Str(s, k)
    BY <1>3, AlikeReads
  <2>2. PICK k \in {key, other} : k = IF Str(s, key) # None THEN key ELSE other
    OBVIOUS
  <2>3. CASE Str(s, k) = None
    BY <2>1, <2>2, <2>3 DEF CommaList
  <2>4. CASE Str(s, k) # None
    <3>1. k \in DOMAIN s /\ t[k] = s[k]
      BY <1>3, <2>2, <2>4 DEF Str, Alike
    <3> QED
      BY <2>1, <2>2, <2>4, <3>1 DEF CommaList
  <2> QED
    BY <2>3, <2>4
<1>4. MhReality(t) = MhReality(s)
  <2>1. /\ CommaList(t, "reality_server_names", "server_names")
             = CommaList(s, "reality_server_names", "server_names")
        /\ CommaList(t, "reality_short_id", "short_id")
             = CommaList(s, "reality_short_id", "short_id")
    BY <1>3 DEF Credential
  <2> QED
    BY <1>1, <2>1 DEF MhReality
<1> QED
  BY <1>2, <1>4

LEMMA MergedAlike == \A s : Alike(Merge(s, NoKeys), s)
  BY DEF Alike, Merge, NoKeys

LEMMA InjectedAlike ==
  ASSUME NEW s, NEW a, NEW protocol
  PROVE  Alike(InjectCredentials(s, a, protocol), s)
  BY DEF InjectCredentials, Merge, Alike, Credential

LEMMA InjectedCredential ==
  ASSUME NEW s, NEW a \in Account, NEW protocol, ClientsOf(s) = <<>>
  PROVE  /\ ClientUuid(InjectCredentials(s, a, protocol)) = a
         /\ ClientPassword(InjectCredentials(s, a, protocol)) = a
         /\ ~Blank(a)
<1> DEFINE entry == [cred |-> a, name |-> clients[a].name,
                     flow |-> IF protocol = "vless_reality" THEN Vision ELSE ""]
           t == InjectCredentials(s, a, protocol)
<1>1. "clients" \in DOMAIN t /\ t["clients"] = List(<<entry>>)
  <2>1. Append(ClientsOf(s), entry) = <<entry>>
    OBVIOUS
  <2> HIDE DEF entry
  <2> QED
    BY <2>1 DEF InjectCredentials, Merge, entry
<1>2. ~Blank(a) /\ entry.cred = a
  BY PanelAssumption DEF Blank
<1> HIDE DEF entry, t
<1>3. ClientsOf(t) = <<entry>>
  BY <1>1 DEF ClientsOf, HasClients, List
<1>4. ClientsOf(t) # <<>> /\ ClientsOf(t)[1].cred = a
  BY <1>2, <1>3
<1>5. \A own : ClientCred(t, own) = a
  BY <1>2, <1>4 DEF ClientCred
<1> QED
  BY <1>2, <1>5 DEF t, ClientUuid, ClientPassword

(* TLS settings *)
LEMMA MergedObject ==
  ASSUME NEW t \in TlsObject, NEW u \in TlsObject
  PROVE  Merge(t, u) \in TlsObject
<1>1. PICK keys \in SUBSET TlsKey : t \in [keys -> TlsText]
  BY DEF TlsObject
<1>2. PICK more \in SUBSET TlsKey : u \in [more -> TlsText]
  BY DEF TlsObject
<1>3. keys \union more \in SUBSET TlsKey /\ Merge(t, u) \in [keys \union more -> TlsText]
  BY <1>1, <1>2 DEF Merge
<1>4. "cert_id" \in DOMAIN Merge(t, u) => Merge(t, u)["cert_id"] \in Cert
  BY DEF Merge, TlsObject
<1> QED
  BY <1>3, <1>4 DEF TlsObject

LEMMA NamedObject ==
  ASSUME NEW name \in TlsText
  PROVE  [serverName |-> name] \in TlsObject
<1>1. {"serverName"} \in SUBSET TlsKey
  BY DEF TlsKey
<1>2. /\ [serverName |-> name] \in [{"serverName"} -> TlsText]
      /\ "cert_id" \notin DOMAIN [serverName |-> name]
  OBVIOUS
<1> QED
  BY <1>1, <1>2 DEF TlsObject

LEMMA WithoutCert ==
  ASSUME NEW t \in TlsObject
  PROVE  [k \in DOMAIN t \ {"cert_id"} |-> t[k]] \in TlsObject
<1>1. PICK keys \in SUBSET TlsKey : t \in [keys -> TlsText]
  BY DEF TlsObject
<1>2. keys \ {"cert_id"} \in SUBSET TlsKey
      /\ "cert_id" \notin DOMAIN [k \in DOMAIN t \ {"cert_id"} |-> t[k]]
      /\ [k \in DOMAIN t \ {"cert_id"} |-> t[k]] \in [keys \ {"cert_id"} -> TlsText]
  BY <1>1
<1> QED
  BY <1>2 DEF TlsObject

LEMMA ObjectHolds ==
  ASSUME NEW t \in TlsObject, NEW k \in DOMAIN t
  PROVE  t[k] \in TlsText /\ t[k] # None /\ t # None
<1>1. PICK keys \in SUBSET TlsKey : t \in [keys -> TlsText]
  BY DEF TlsObject
<1>2. None \notin TlsObject /\ None \notin TlsText
  BY PanelAssumption
<1>3. t[k] \in TlsText
  BY <1>1
<1> QED
  BY <1>2, <1>3

LEMMA BindingTlsType ==
  ASSUME PanelTypeOK, NEW b \in Pair, bindings[b] # None, protos[b[2]] # None, BindingTls(b) # None
  PROVE  BindingTls(b) \in TlsObject
<1>1. protos[b[2]] \in ConfigRow /\ bindings[b] \in BindingRow
  BY DEF PanelTypeOK, Pair
<1>2. protos[b[2]].tls # None => protos[b[2]].tls \in TlsObject
  <2>1. protos[b[2]].tls \in {None} \union {x.tls : x \in Configs}
    BY <1>1 DEF ConfigRow
  <2> QED
    BY <2>1, PanelAssumption DEF TlsStored
<1>3. bindings[b].tls # None => bindings[b].tls \in TlsObject
  <2>1. bindings[b].tls \in {None} \union {o.tls : o \in Override}
    BY <1>1 DEF BindingRow
  <2> QED
    BY <2>1, PanelAssumption DEF TlsStored
<1> QED
  BY <1>2, <1>3, MergedObject DEF BindingTls, MergeTls

(* The certificate of a binding is of its node. *)
Certified(b) == NamesCert(BindingTls(b)) => CertIsOf(b[1], BindingTls(b))

LEMMA ShownByHub ==
  ASSUME PanelTypeOK, NEW b \in Pair, bindings[b] # None, protos[b[2]] # None, Certified(b),
         CertName(b) # None, NamesCert(BindingTls(b))
  PROVE  ServerName(ResolveSubscriptionTls(b[1], BindingTls(b))) = CertName(b)
<1> DEFINE t == BindingTls(b)
           name == t["cert_id"]
           bare == [k \in DOMAIN t \ {"cert_id"} |-> t[k]]
           named == Merge(bare, [serverName |-> name])
<1>1. t # None /\ "cert_id" \in DOMAIN t /\ certs[name] = b[1]
  BY DEF NamesCert, Certified, CertIsOf
<1>2. t \in TlsObject
  BY <1>1, BindingTlsType
<1>3. name \in TlsText /\ name # ""
  <2>1. name \in Cert
    BY <1>1, <1>2 DEF TlsObject
  <2> QED
    BY <1>1, <1>2, <2>1, ObjectHolds, PanelAssumption
<1> HIDE DEF t, name, bare, named
<1>4. CertName(b) = name
  <2>1. ResolveCert(t) = [managed_domain |-> name]
    BY DEF ResolveCert, t, name
  <2>2. DOMAIN [managed_domain |-> name] = {"managed_domain"}
    OBVIOUS
  <2>3. Tls([managed_domain |-> name], "managed_domain") = name
    BY DEF Tls
  <2>4. SbServerTls([managed_domain |-> name]) \in {None, [by |-> "managed", name |-> name]}
    BY <1>3, <2>3 DEF SbServerTls
  <2> QED
    BY <2>1, <2>4 DEF CertName, t
<1>5. bare \in TlsObject /\ named \in TlsObject
  BY <1>2, <1>3, WithoutCert, NamedObject, MergedObject DEF bare, named
<1>6. "serverName" \in DOMAIN named /\ named["serverName"] = name
  BY DEF named, Merge
<1>7. named # None /\ Tls(named, "serverName") = name
  BY <1>5, <1>6, ObjectHolds DEF Tls
<1>8. ResolveSubscriptionTls(b[1], t) = named
  BY <1>1, <1>3, <1>7 DEF ResolveSubscriptionTls, NamesCert, named, bare, name
<1> QED
  BY <1>4, <1>6, <1>7, <1>8 DEF ServerName, t

LEMMA ShownByOwner ==
  ASSUME PanelTypeOK, NEW b \in Pair, bindings[b] # None, protos[b[2]] # None,
         CertName(b) # None, ~NamesCert(BindingTls(b)), OwnName(BindingTls(b)) = CertName(b)
  PROVE  ServerName(ResolveSubscriptionTls(b[1], BindingTls(b))) = CertName(b)
<1> DEFINE t == BindingTls(b)
           name == CertName(b)
           named == Merge(t, [serverName |-> t["domain"]])
<1>1. t # None /\ name # ""
  <2>1. SbServerTls(t) # None /\ SbServerTls(t).name = name /\ SbServerTls(t).by # "files"
    BY DEF CertName, ResolveCert
  <2> HIDE DEF t, name
  <2> QED
    BY <2>1 DEF SbServerTls, Tls
<1>2. t \in TlsObject
  BY <1>1, BindingTlsType
<1> HIDE DEF t, name, named
<1>3. CASE Tls(t, "serverName") # ""
  <2>1. "serverName" \in DOMAIN t /\ t["serverName"] = name
    BY <1>3 DEF Tls, OwnName, t, name
  <2>2. ResolveSubscriptionTls(b[1], t) = t
    BY <1>1, <1>3 DEF ResolveSubscriptionTls, t
  <2> QED
    BY <1>1, <2>1, <2>2 DEF ServerName, t, name
<1>4. CASE Tls(t, "serverName") = ""
  <2>1. Tls(t, "domain") = name
    BY <1>4 DEF OwnName, t, name
  <2>2. "domain" \in DOMAIN t /\ t["domain"] = name
    BY <1>1, <2>1 DEF Tls
  <2>3. ResolveSubscriptionTls(b[1], t) = named
    BY <1>1, <1>4, <2>1 DEF ResolveSubscriptionTls, named, t
  <2>4. named \in TlsObject
    BY <1>2, <2>2, ObjectHolds, NamedObject, MergedObject DEF named
  <2>5. "serverName" \in DOMAIN named /\ named["serverName"] = name
    BY <2>2 DEF named, Merge
  <2> QED
    BY <2>3, <2>4, <2>5, ObjectHolds DEF ServerName, t, name
<1> QED
  BY <1>3, <1>4

(* What the inbound of a binding demands of a client's link *)
LinkFlow(p) ==
  IF p.protocol \in {"vless_reality", "vless_xhttp"} THEN Or(Str(p.settings, "flow"), "") ELSE ""
LinkObfs(p) == IF p.protocol = "hysteria2" THEN ServerObfs(p.settings) ELSE None
LinkTransport(p) ==
  IF p.protocol = "vless_reality" THEN SbTransport(p.settings)
  ELSE IF p.protocol = "vless_xhttp" THEN [type |-> "xhttp", path |-> XhttpPath(p.settings)]
  ELSE NoTransport

Fits(b, a, l) ==
  LET p == protos[b[2]]
  IN /\ l.pair = b /\ l.port = p.port /\ l.cred = a /\ l.flow = LinkFlow(p)
     /\ l.reality = IF p.protocol = "vless_reality" THEN Reality(p.settings) ELSE None
     /\ p.protocol # "vless_reality" /\ CertName(b) # None => l.sni = CertName(b)
     /\ l.obfs = LinkObfs(p) /\ l.transport = LinkTransport(p)

(* The case the property is about *)
Plain(b) ==
  /\ protos[b[2]] # None /\ ~Skewed(protos[b[2]]) /\ protos[b[2]].core \in Core
  /\ protos[b[2]].protocol \in Preset

LEMMA ObfsAgree ==
  ASSUME NEW p, p.protocol = "hysteria2", ~Skewed(p)
  PROVE  /\ SbObfs(p.settings) = ServerObfs(p.settings)
         /\ TypedObfs(p.settings) = ServerObfs(p.settings)
<1>1. ~ObfsUnset(p)
  BY DEF Skewed
<1> QED
  BY <1>1 DEF ObfsUnset, SbObfs, TypedObfs, ServerObfs, ObfsType, Or, Blank

LEMMA TransportsAgree ==
  ASSUME NEW p, p.protocol = "vless_reality", ~Skewed(p)
  PROVE  /\ Network(p.settings) \in {"tcp", "ws"}
         /\ p.core = "mihomo" => Network(p.settings) = "tcp"
         /\ SbLinkTransport(p.settings) = SbTransport(p.settings)
         /\ Network(p.settings) = "tcp" => SbTransport(p.settings) = NoTransport
<1>1. ~TransportLost(p)
  BY DEF Skewed
<1>2. /\ Network(p.settings) \in {"tcp", "ws"}
      /\ p.core = "mihomo" => Network(p.settings) = "tcp"
  BY <1>1 DEF TransportLost
<1>3. Network(p.settings) = "tcp" =>
        /\ SbTransport(p.settings) = NoTransport
        /\ SbLinkTransport(p.settings) = NoTransport
  BY DEF Network, SbTransport, SbLinkTransport, NoTransport
<1>4. Network(p.settings) = "ws" => SbLinkTransport(p.settings) = SbTransport(p.settings)
  BY DEF Network, SbTransport, SbLinkTransport
<1> QED
  BY <1>2, <1>3, <1>4

LEMMA ProxyIs ==
  ASSUME NEW b, NEW a \in Account, hosts[b] = None, protos[b[2]] # None,
         ClientsOf(protos[b[2]].settings) = <<>>
  PROVE  LET q == ProxyNode(a, b)
             p == protos[b[2]]
         IN /\ q.pair = b /\ q.protocol = p.protocol /\ q.port = p.port
            /\ q.tls = ResolveSubscriptionTls(b[1], BindingTls(b))
            /\ Alike(q.settings, p.settings)
            /\ ClientUuid(q.settings) = a /\ ClientPassword(q.settings) = a
<1>1. ProxyNode(a, b).settings = InjectCredentials(protos[b[2]].settings, a, protos[b[2]].protocol)
  BY DEF ProxyNode
<1> QED
  BY <1>1, InjectedAlike, InjectedCredential DEF ProxyNode

(* With a name of its own no link names another. *)
LEMMA NameIsShown ==
  ASSUME PanelTypeOK, NEW b \in Pair, NEW a \in Account, bindings[b] # None, protos[b[2]] # None,
         hosts[b] = None, ClientsOf(protos[b[2]].settings) = <<>>,
         Certified(b), ~Renamed(b), CertName(b) # None
  PROVE  LET q == ProxyNode(a, b)
         IN /\ \A sni \in Names(q) : sni = CertName(b)
            /\ q.tls # None /\ ServerName(q.tls) = CertName(b)
            /\ TlsServerName(q) = CertName(b)
<1> DEFINE q == ProxyNode(a, b)
<1>1. ServerName(q.tls) = CertName(b)
  <2>1. q.tls = ResolveSubscriptionTls(b[1], BindingTls(b))
    BY ProxyIs
  <2> QED
    BY <2>1, ShownByHub, ShownByOwner DEF Renamed
<1>2. Str(q.settings, "sni") = None
  <2>1. "sni" \notin DOMAIN q.settings
    BY ProxyIs DEF Renamed, Alike, Credential
  <2> QED
    BY <2>1, NoName
<1>3. q.tls # None
  BY <1>1 DEF ServerName
<1> HIDE DEF q
<1>4. TlsServerName(q) = CertName(b)
  BY <1>1 DEF TlsServerName, Or
<1>5. /\ SbSni(q) = CertName(b) /\ ClashSni(q) = CertName(b)
      /\ Or(TlsServerName(q), q.server) = CertName(b)
  BY <1>1, <1>2, <1>4 DEF SbSni, ClashSni, Or
<1> QED
  BY <1>1, <1>3, <1>4, <1>5 DEF Names, q

LEMMA RealityLinks ==
  ASSUME NEW q, q.protocol = "vless_reality", Network(q.settings) \in {"tcp", "ws"},
         NEW l \in Links(q)
  PROVE  l = Link(q, ClientUuid(q.settings), Or(Str(q.settings, "flow"), ""), Reality(q.settings),
                  "", None, SbLinkTransport(q.settings))
<1> DEFINE s == q.settings
           x == Link(q, ClientUuid(s), Or(Str(s, "flow"), ""), Reality(s), "", None,
                     SbLinkTransport(s))
<1>1. ClashTransport(q) = SbLinkTransport(s) /\ ShareTransport(q) = SbLinkTransport(s)
  BY DEF ClashTransport, ShareTransport, SbLinkTransport
<1>2. SbLink(q) \in {Refused("key"), Refused("schema"), Built(x)}
  BY DEF SbLink, SbVlessLink
<1>3. ShareLink(q) \in {Refused("key"), Built(x)}
  BY <1>1 DEF ShareLink, ShareVlessLink
<1>4. ClashLink(q) \in {Refused("id"), Built(x)}
  BY <1>1 DEF ClashLink, ClashVlessLink
<1> HIDE DEF x
<1> QED
  <2>1. SbLink(q).ok => SbLink(q).is = x
    BY <1>2, WhatIsBuilt, AreBuilt
  <2>2. ShareLink(q).ok => ShareLink(q).is = x
    BY <1>3, WhatIsBuilt
  <2>3. ClashLink(q).ok => ClashLink(q).is = x
    BY <1>4, WhatIsBuilt
  <2>4. l = x
    BY <2>1, <2>2, <2>3, LinkIs
  <2> QED
    BY <2>4 DEF x

(* The names in the links of a proxy without REALITY: clash, share links *)
XhttpNames(q) ==
  {Or(ServerName(q.tls), q.server), IF q.tls = None THEN "" ELSE Or(TlsServerName(q), "")}

LEMMA XhttpLinks ==
  ASSUME NEW q, q.protocol = "vless_xhttp", NEW l \in Links(q)
  PROVE  \E sni \in XhttpNames(q) :
           l = Link(q, ClientUuid(q.settings), Or(Str(q.settings, "flow"), ""), None, sni, None,
                    [type |-> "xhttp", path |-> XhttpPath(q.settings)])
<1> DEFINE s == q.settings
           clash == Or(ServerName(q.tls), q.server)
           share == IF q.tls = None THEN "" ELSE Or(TlsServerName(q), "")
           X(sni) == Link(q, ClientUuid(s), Or(Str(s, "flow"), ""), None, sni, None,
                          [type |-> "xhttp", path |-> XhttpPath(s)])
<1>1. ~SbSupports(q)
  BY DEF SbSupports
<1>2. ClashLink(q) \in {Refused("id"), Built(X(clash))}
  <2>1. ClashTransport(q) = [type |-> "xhttp", path |-> XhttpPath(s)]
    BY DEF ClashTransport
  <2> QED
    BY <2>1 DEF ClashLink, ClashVlessLink
<1>3. ShareLink(q) \in {Refused("key"), Built(X(share))}
  <2>1. ShareTransport(q) = [type |-> "xhttp", path |-> XhttpPath(s)]
    BY DEF ShareTransport
  <2> QED
    BY <2>1 DEF ShareLink, ShareVlessLink
<1> HIDE DEF X
<1>4. l = X(clash) \/ l = X(share)
  BY <1>1, <1>2, <1>3, LinkIs, WhatIsBuilt
<1> QED
  BY <1>4 DEF X, XhttpNames

(* The obfuscation of every link of a proxy *)
ObfsIs(q, obfs) ==
  \/ q.protocol = "hysteria2" /\ obfs = SbObfs(q.settings) /\ obfs = TypedObfs(q.settings)
  \/ q.protocol = "anytls" /\ obfs = None

LEMMA PasswordLinks ==
  ASSUME NEW q, NEW obfs, ObfsIs(q, obfs), NEW l \in Links(q)
  PROVE  \E sni \in Names(q) :
           l = Link(q, ClientPassword(q.settings), "", None, sni, obfs, NoTransport)
<1> DEFINE X(sni) == Link(q, ClientPassword(q.settings), "", None, sni, obfs, NoTransport)
<1>1. SbLink(q) \in {Refused("password"), Refused("schema"), Built(X(SbSni(q)))}
  BY DEF ObfsIs, SbLink, SbPasswordLink, NoTransport
<1>2. ClashLink(q) \in {Refused("password"), Built(X(ClashSni(q)))}
  BY DEF ObfsIs, ClashLink, ClashPasswordLink, NoTransport
<1>3. ShareLink(q) \in {Refused("password"), Built(X(Or(TlsServerName(q), q.server)))}
  BY DEF ObfsIs, ShareLink, SharePasswordLink, NoTransport
<1> HIDE DEF X
<1>4. \E sni \in Names(q) : l = X(sni)
  BY <1>1, <1>2, <1>3, LinkIs, WhatIsBuilt DEF Names
<1> QED
  BY <1>4 DEF X

LEMMA LinkFits ==
  ASSUME PanelTypeOK, NEW b \in Pair, NEW a \in Account, bindings[b] # None, hosts[b] = None,
         ClientsOf(protos[b[2]].settings) = <<>>, Plain(b), Certified(b), ~Renamed(b),
         NEW l \in Links(ProxyNode(a, b))
  PROVE  Fits(b, a, l)
<1> DEFINE p == protos[b[2]]
           q == ProxyNode(a, b)
<1>1. /\ q.pair = b /\ q.protocol = p.protocol /\ q.port = p.port
      /\ ClientUuid(q.settings) = a /\ ClientPassword(q.settings) = a
      /\ Alike(q.settings, p.settings) /\ p # None /\ ~Skewed(p)
  BY ProxyIs DEF Plain
<1>2. CertName(b) # None => /\ \A sni \in Names(q) : sni = CertName(b)
                            /\ q.tls # None /\ ServerName(q.tls) = CertName(b)
                            /\ TlsServerName(q) = CertName(b)
  BY <1>1, NameIsShown
<1>3. Or(Str(q.settings, "flow"), "") = Or(Str(p.settings, "flow"), "")
  BY <1>1, AlikeReads DEF Credential
<1> HIDE DEF p, q
<1>4. CASE p.protocol = "vless_reality"
  <2>1. /\ Network(q.settings) \in {"tcp", "ws"}
        /\ SbLinkTransport(q.settings) = SbTransport(p.settings)
        /\ Reality(q.settings) = Reality(p.settings)
    BY <1>1, <1>4, TransportsAgree, AlikeTexts, AlikeItems
  <2>2. l = Link(q, a, Or(Str(p.settings, "flow"), ""), Reality(p.settings), "", None,
                 SbTransport(p.settings))
    BY <1>1, <1>3, <1>4, <2>1, RealityLinks DEF q
  <2> QED
    <3>1. /\ l.pair = q.pair /\ l.port = q.port /\ l.cred = a
          /\ l.flow = Or(Str(p.settings, "flow"), "") /\ l.reality = Reality(p.settings)
          /\ l.obfs = None /\ l.transport = SbTransport(p.settings)
      BY <2>2 DEF Link
    <3>2. /\ LinkFlow(p) = Or(Str(p.settings, "flow"), "") /\ LinkObfs(p) = None
          /\ LinkTransport(p) = SbTransport(p.settings)
      BY <1>4 DEF LinkFlow, LinkObfs, LinkTransport
    <3> QED
      BY <1>1, <1>4, <3>1, <3>2 DEF Fits, p
<1>5. CASE p.protocol = "vless_xhttp"
  <2>1. XhttpPath(q.settings) = XhttpPath(p.settings)
    BY <1>1, AlikeTexts
  <2>2. PICK sni \in XhttpNames(q) :
          l = Link(q, a, Or(Str(p.settings, "flow"), ""), None, sni, None,
                   [type |-> "xhttp", path |-> XhttpPath(p.settings)])
    <3>1. l \in Links(q)
      BY DEF q
    <3>2. \E sni \in XhttpNames(q) :
            l = Link(q, ClientUuid(q.settings), Or(Str(q.settings, "flow"), ""), None, sni, None,
                     [type |-> "xhttp", path |-> XhttpPath(q.settings)])
      BY <1>1, <1>5, <3>1, XhttpLinks
    <3> QED
      BY <1>1, <1>3, <2>1, <3>2
  <2>3. CertName(b) # None => sni = CertName(b)
    <3>1. ASSUME CertName(b) # None
          PROVE  /\ Or(ServerName(q.tls), q.server) = CertName(b)
                 /\ (IF q.tls = None THEN "" ELSE Or(TlsServerName(q), "")) = CertName(b)
      BY <1>2, <3>1 DEF Or
    <3> QED
      BY <2>2, <3>1 DEF XhttpNames
  <2> QED
    <3>1. /\ l.pair = q.pair /\ l.port = q.port /\ l.cred = a /\ l.sni = sni
          /\ l.flow = Or(Str(p.settings, "flow"), "") /\ l.reality = None
          /\ l.obfs = None /\ l.transport = [type |-> "xhttp", path |-> XhttpPath(p.settings)]
      BY <2>2 DEF Link
    <3>2. /\ LinkFlow(p) = Or(Str(p.settings, "flow"), "") /\ LinkObfs(p) = None
          /\ LinkTransport(p) = [type |-> "xhttp", path |-> XhttpPath(p.settings)]
      BY <1>5 DEF LinkFlow, LinkObfs, LinkTransport
    <3> QED
      BY <1>1, <1>5, <2>3, <3>1, <3>2 DEF Fits, p
<1>6. CASE p.protocol \in {"hysteria2", "anytls"}
  <2>1. /\ p.protocol = "hysteria2" => /\ LinkObfs(p) = SbObfs(q.settings)
                                       /\ LinkObfs(p) = TypedObfs(q.settings)
        /\ p.protocol = "anytls" => LinkObfs(p) = None
    BY <1>1, ObfsAgree, AlikeTexts DEF LinkObfs
  <2>2. PICK sni \in Names(q) : l = Link(q, a, "", None, sni, LinkObfs(p), NoTransport)
    <3>1. l \in Links(q)
      BY DEF q
    <3>2. \E sni \in Names(q) :
            l = Link(q, ClientPassword(q.settings), "", None, sni, LinkObfs(p), NoTransport)
      <4>1. ObfsIs(q, LinkObfs(p))
        BY <1>1, <1>6, <2>1 DEF ObfsIs
      <4> QED
        BY <3>1, <4>1, PasswordLinks
    <3> QED
      BY <1>1, <3>2
  <2>3. CertName(b) # None => sni = CertName(b)
    BY <1>2, <2>2
  <2> QED
    <3>1. /\ l.pair = q.pair /\ l.port = q.port /\ l.cred = a /\ l.sni = sni
          /\ l.flow = "" /\ l.reality = None /\ l.obfs = LinkObfs(p) /\ l.transport = NoTransport
      BY <2>2 DEF Link
    <3>2. LinkFlow(p) = "" /\ LinkTransport(p) = NoTransport
      BY <1>6 DEF LinkFlow, LinkTransport
    <3> QED
      BY <1>1, <1>6, <2>3, <3>1, <3>2 DEF Fits, p
<1> QED
  BY <1>4, <1>5, <1>6 DEF Plain, Preset, p

(* What an inbound with REALITY keys accepts the client's link by *)
Opens(reality, own) ==
  reality.key = own.key /\ own.name \in reality.names /\ own.id \in reality.ids

(* A user with the credential and the flow *)
Among(users, a, flow) == \E u \in users : u.cred = a /\ u.flow = flow

(* What an inbound of the binding has to be for the client *)
Ready(b, a, i) ==
  LET p == protos[b[2]]
  IN /\ i.pair = b /\ i.port = p.port
     /\ Among(i.users, a, LinkFlow(p))
     /\ p.protocol = "vless_reality" =>
          i.reality # None /\ Opens(i.reality, Reality(p.settings))
     /\ p.protocol # "vless_reality" => i.reality = None
     /\ i.cert # None /\ i.cert.by \in {"managed", "acme"} =>
          p.protocol # "vless_reality" /\ CertName(b) # None /\ CertName(b) = i.cert.name
     /\ i.obfs = LinkObfs(p) /\ i.transport = LinkTransport(p)

LEMMA RowOf ==
  ASSUME PanelTypeOK, NEW b \in Pair, protos[b[2]] # None
  PROVE  /\ protos[b[2]] \in ConfigRow
         /\ WellFormed(protos[b[2]].settings) /\ Reality(protos[b[2]].settings) # None
<1>1. protos[b[2]] \in ConfigRow
  BY DEF PanelTypeOK, Pair
<1>2. PICK x \in Configs : protos[b[2]].settings = x.settings
  BY <1>1 DEF ConfigRow
<1> QED
  BY <1>1, <1>2, PanelAssumption

LEMMA ReadyAccepts ==
  ASSUME PanelTypeOK, NEW b \in Pair, protos[b[2]] # None, NEW a, NEW i, NEW l,
         Ready(b, a, i), Fits(b, a, l)
  PROVE  i.pair = b /\ Accepts(i, l)
<1> DEFINE p == protos[b[2]]
<1>1. Reality(p.settings) # None
  BY RowOf
<1> HIDE DEF p
<1>2. l.port = i.port /\ \E u \in i.users : u.cred = l.cred /\ u.flow = l.flow
  BY DEF Ready, Among, Fits, p
<1>3. IF i.reality = None THEN l.reality = None
      ELSE /\ l.reality # None /\ l.reality.key = i.reality.key
           /\ l.reality.name \in i.reality.names /\ l.reality.id \in i.reality.ids
  <2>1. CASE p.protocol = "vless_reality"
    BY <1>1, <2>1 DEF Ready, Opens, Fits, p
  <2>2. CASE p.protocol # "vless_reality"
    BY <2>2 DEF Ready, Fits, p
  <2> QED
    BY <2>1, <2>2
<1>4. i.cert # None /\ i.cert.by \in {"managed", "acme"} => l.sni = i.cert.name
  BY DEF Ready, Fits
<1>5. i.pair = b /\ l.obfs = i.obfs /\ l.transport = i.transport
  BY DEF Ready, Fits
<1> QED
  BY <1>2, <1>3, <1>4, <1>5 DEF Accepts

(* The users of an inbound *)
Served(b, a) == a \in Joined(b) /\ clients[a] # None /\ clients[a].status = "active"

LEMMA InputIs ==
  ASSUME NEW b, bindings[b].over = NoKeys
  PROVE  LET i == InboundConfig(b)
             p == protos[b[2]]
         IN /\ i.pair = b /\ i.protocol = p.protocol /\ i.port = p.port
            /\ Alike(i.settings, p.settings) /\ i.tls = ResolveCert(BindingTls(b))
  BY MergedAlike DEF InboundConfig

LEMMA EntryIsThere ==
  ASSUME NEW b, NEW a, Served(b, a)
  PROVE  LET i == InboundConfig(b)
             e == ClientEntry(a, protos[b[2]].protocol)
         IN i.listed /\ e \in i.entries
<1> DEFINE s == Merge(protos[b[2]].settings, bindings[b].over)
           protocol == protos[b[2]].protocol
           Open == {x \in Joined(b) : clients[x] # None /\ clients[x].status = "active"}
<1>1. Joined(b) # {} /\ a \in Open
  BY DEF Served
<1> HIDE DEF s, protocol
<1>2. ServerEntries(b, s) = {ClientEntry(x, protocol) : x \in Open}
  BY <1>1 DEF ServerEntries, protocol
<1>3. InboundConfig(b).entries = ServerEntries(b, s) /\ InboundConfig(b).listed
  BY <1>1 DEF InboundConfig, s
<1> HIDE DEF Open
<1>4. ClientEntry(a, protocol) \in {ClientEntry(x, protocol) : x \in Open}
  BY <1>1
<1> QED
  BY <1>2, <1>3, <1>4 DEF protocol

LEMMA EntryIs ==
  ASSUME NEW a, NEW protocol
  PROVE  LET e == ClientEntry(a, protocol)
         IN /\ e = [cred |-> e.cred, name |-> e.name, flow |-> e.flow]
            /\ e.cred = a /\ e.name = clients[a].name
            /\ e.flow = IF protocol = "vless_reality" THEN Vision ELSE ""
  BY DEF ClientEntry

LEMMA FlowKept ==
  ASSUME NEW p, ~Skewed(p), p.protocol \in {"vless_reality", "vless_xhttp"}
  PROVE  ~FlowLost(p)
<1>1. CASE p.protocol = "vless_reality"
  BY <1>1 DEF Skewed
<1>2. CASE p.protocol = "vless_xhttp"
  BY <1>2 DEF Skewed
<1> QED
  BY <1>1, <1>2

LEMMA EntryFlow ==
  ASSUME NEW e, NEW a, NEW protocol, e = ClientEntry(a, protocol)
  PROVE  /\ e.flow = IF protocol = "vless_reality" THEN Vision ELSE ""
         /\ \A f : [e EXCEPT !.flow = f].cred = a /\ [e EXCEPT !.flow = f].flow = f
  BY DEF ClientEntry

LEMMA UuidUsers ==
  ASSUME NEW b, NEW a, Served(b, a), bindings[b].over = NoKeys, Plain(b),
         protos[b[2]].protocol \in {"vless_reality", "vless_xhttp"},
         NEW i, i = InboundConfig(b), NEW p, p = protos[b[2]]
  PROVE  /\ p.core = "sing-box" /\ p.protocol = "vless_reality" =>
              Among(SbUuidUsers(i), a, LinkFlow(p))
         /\ p.core = "mihomo" => Among(MhUuidUsers(i, p.protocol = "vless_reality"), a, LinkFlow(p))
<1> DEFINE flow == Str(i.settings, "flow")
           e == ClientEntry(a, p.protocol)
<1>1. flow = Str(p.settings, "flow")
  <2>1. Alike(i.settings, p.settings)
    BY InputIs
  <2> QED
    BY <2>1, AlikeReads DEF Credential
<1>2. LinkFlow(p) = Or(flow, "")
  BY <1>1 DEF LinkFlow
<1>3. ~FlowLost(p)
  BY FlowKept DEF Plain
<1>4. i.listed /\ e \in i.entries
  BY EntryIsThere
<1>5. /\ e.flow = IF p.protocol = "vless_reality" THEN Vision ELSE ""
      /\ \A f : [e EXCEPT !.flow = f].cred = a /\ [e EXCEPT !.flow = f].flow = f
  BY EntryFlow
<1> HIDE DEF e, flow
<1>6. ASSUME p.core = "sing-box", p.protocol = "vless_reality"
      PROVE  Among(SbUuidUsers(i), a, LinkFlow(p))
  <2>1. ~Blank(flow) /\ LinkFlow(p) = flow
    BY <1>1, <1>2, <1>3, <1>6 DEF FlowLost, Or, Blank
  <2>2. SbUuidUsers(i) = {[u EXCEPT !.flow = flow] : u \in i.entries}
    BY <1>4, <2>1 DEF SbUuidUsers, flow
  <2>3. [e EXCEPT !.flow = flow] \in SbUuidUsers(i)
    BY <1>4, <2>2
  <2> QED
    BY <1>5, <2>1, <2>3 DEF Among
<1>7. ASSUME p.core = "mihomo"
      PROVE  Among(MhUuidUsers(i, p.protocol = "vless_reality"), a, LinkFlow(p))
  <2> DEFINE with == p.protocol = "vless_reality"
             own == IF with THEN Or(flow, "") ELSE ""
             Flow(u) == IF ~with THEN "" ELSE IF u.flow # "" THEN u.flow ELSE own
  <2>1. MhUuidUsers(i, with) = {[u EXCEPT !.flow = Flow(u)] : u \in i.entries}
    BY <1>4 DEF MhUuidUsers, flow
  <2>2. Flow(e) = LinkFlow(p)
    <3>1. CASE with
      BY <1>1, <1>2, <1>3, <1>5, <1>7, <3>1 DEF FlowLost, Vision
    <3>2. CASE ~with
      BY <1>1, <1>2, <1>3, <3>2 DEF FlowLost
    <3> QED
      BY <3>1, <3>2
  <2> HIDE DEF Flow, with
  <2>3. [e EXCEPT !.flow = Flow(e)] \in MhUuidUsers(i, with)
    BY <1>4, <2>1
  <2> QED
    BY <1>5, <2>2, <2>3 DEF with, Among
<1> QED
  BY <1>6, <1>7

LEMMA PasswordUsers ==
  ASSUME NEW b \in Pair, NEW a \in Account, Served(b, a), Plain(b),
         protos[b[2]].protocol \in {"hysteria2", "anytls"},
         NEW i, i = InboundConfig(b), NEW p, p = protos[b[2]]
  PROVE  /\ Among(SbPasswordUsers(i), a, "")
         /\ p.core = "mihomo" /\ ~NameTaken(b, a) => Among(MhPasswordUsers(i), a, "")
<1> DEFINE e == ClientEntry(a, p.protocol)
<1>1. i.listed /\ e \in i.entries
  BY EntryIsThere
<1>2. e.cred = a /\ e.flow = "" /\ e.name = clients[a].name /\ ~Blank(e.cred)
  BY PanelAssumption DEF ClientEntry, Blank
<1>3. ASSUME p.core = "mihomo", ~NameTaken(b, a), NEW u \in i.entries, u.name = e.name
      PROVE  u = e
  <2>1. PICK c \in Account : clients[c] # None /\ u = ClientEntry(c, p.protocol)
    <3> DEFINE Open == {x \in Joined(b) : clients[x] # None /\ clients[x].status = "active"}
    <3>1. i.entries = {ClientEntry(x, p.protocol) : x \in Open}
      BY DEF Served, InboundConfig, ServerEntries
    <3>2. PICK c \in Open : u = ClientEntry(c, p.protocol)
      BY <1>3, <3>1
    <3> QED
      BY <3>2 DEF Joined
  <2>2. clients[c].name = clients[a].name
    BY <1>2, <1>3, <2>1 DEF ClientEntry
  <2>3. c = a
    BY <1>3, <2>1, <2>2 DEF NameTaken
  <2> QED
    BY <2>1, <2>3
<1> HIDE DEF e
<1>4. e \in SbPasswordUsers(i)
  BY <1>1 DEF SbPasswordUsers
<1>5. ASSUME p.core = "mihomo", ~NameTaken(b, a)
      PROVE  e \in MhPasswordUsers(i)
  <2> DEFINE listed == {u \in i.entries : ~Blank(u.cred)}
             named(n) == {u \in listed : u.name = n}
             picked == {CHOOSE u \in named(n) : TRUE : n \in {u.name : u \in listed \ named("")}}
  <2>1. MhPasswordUsers(i) = named("") \union picked
    BY <1>1 DEF MhPasswordUsers
  <2>2. e \in listed /\ named(e.name) = {e}
    BY <1>1, <1>2, <1>3, <1>5
  <2>3. (CHOOSE u \in named(e.name) : TRUE) = e
    BY <2>2
  <2> HIDE DEF named, listed
  <2>4. CASE e.name = ""
    BY <2>1, <2>2, <2>4
  <2>5. CASE e.name # ""
    <3>1. e \in listed \ named("")
      BY <2>2, <2>5 DEF named
    <3>2. (CHOOSE u \in named(e.name) : TRUE) \in picked
      BY <3>1
    <3> QED
      BY <2>1, <2>3, <3>2
  <2> QED
    BY <2>4, <2>5
<1> QED
  BY <1>2, <1>4, <1>5 DEF Among

(* One name of a setting, which holds a string *)
OneText(s, key, other) ==
  /\ ~({key, other} \subseteq DOMAIN s)
  /\ \A k \in {key, other} : k \in DOMAIN s => s[k].shape = "text"

LEMMA ItemIsListed ==
  ASSUME NEW s, NEW key, NEW other, OneText(s, key, other), WellFormed(s)
  PROVE  /\ FirstItem(s, other, key) # None => FirstItem(s, other, key) \in CommaList(s, key, other)
         /\ FirstItem(s, other, key) = None => CommaList(s, key, other) = {}
<1>1. None # "" /\ "text" # "number"
  BY PanelAssumption
<1>2. ASSUME NEW k \in {key, other}, k \in DOMAIN s, \A h \in {key, other} : h \in DOMAIN s => h = k
      PROVE  /\ FirstItem(s, other, key) = ItemOf(s, k)
             /\ CommaList(s, key, other) = {s[k].items[h] : h \in DOMAIN s[k].items}
             /\ s[k].items # <<>> =>
                  /\ 1 \in DOMAIN s[k].items /\ ItemOf(s, k) = s[k].items[1]
                  /\ s[k].items[1] # None
             /\ s[k].items = <<>> => ItemOf(s, k) = None
  <2>1. s[k].shape = "text"
    BY <1>2 DEF OneText
  <2>2. s[k].items # <<>> => 1 \in DOMAIN s[k].items /\ s[k].items[1] # None
    BY <1>2 DEF WellFormed
  <2>3. Str(s, k) # None
    BY <1>1, <1>2, <2>1, <2>2 DEF Str
  <2>4. \A h \in {key, other} : h # k => Str(s, h) = None
    BY <1>2 DEF Str
  <2>5. (IF Str(s, key) # None THEN key ELSE other) = k
    BY <1>2, <2>3, <2>4
  <2>6. CommaList(s, key, other) = {s[k].items[h] : h \in DOMAIN s[k].items}
    BY <2>3, <2>5 DEF CommaList
  <2>7. FirstItem(s, other, key) = ItemOf(s, k)
    BY <1>2 DEF FirstItem
  <2> QED
    BY <1>1, <1>2, <2>1, <2>2, <2>6, <2>7 DEF ItemOf
<1>3. CASE \E k \in {key, other} : k \in DOMAIN s
  <2>1. PICK k \in {key, other} : k \in DOMAIN s
    BY <1>3
  <2>2. \A h \in {key, other} : h \in DOMAIN s => h = k
    BY <2>1 DEF OneText
  <2>3. /\ FirstItem(s, other, key) = ItemOf(s, k)
        /\ CommaList(s, key, other) = {s[k].items[h] : h \in DOMAIN s[k].items}
        /\ s[k].items # <<>> =>
             /\ 1 \in DOMAIN s[k].items /\ ItemOf(s, k) = s[k].items[1]
             /\ s[k].items[1] # None
        /\ s[k].items = <<>> => ItemOf(s, k) = None
    BY <1>2, <2>1, <2>2
  <2>4. CASE s[k].items = <<>>
    <3>1. DOMAIN s[k].items = {}
      BY <2>4
    <3> QED
      BY <2>3, <2>4, <3>1
  <2>5. CASE s[k].items # <<>>
    BY <2>3, <2>5
  <2> QED
    BY <2>4, <2>5
<1>4. CASE \A k \in {key, other} : k \notin DOMAIN s
  BY <1>4 DEF FirstItem, ItemOf, CommaList, Str
<1> QED
  BY <1>3, <1>4

(* The parts of ~Skewed *)
LEMMA RealityStraight ==
  ASSUME NEW p, ~Skewed(p), p.protocol = "vless_reality"
  PROVE  ~Twice(p.settings) /\ ~ShapeLost(p) /\ ~NoServerName(p) /\ ~KeysDiffer(p.settings)
  BY DEF Skewed

LEMMA KeyIs ==
  ASSUME NEW s, ~KeysDiffer(s), ~Blank(FirstStr(s, "reality_private_key", "private_key"))
  PROVE  Reality(s).key = FirstStr(s, "reality_private_key", "private_key")
  BY DEF Reality, KeysDiffer, Or, Blank

LEMMA SbRealityOpens ==
  ASSUME NEW p, ~Skewed(p), p.protocol = "vless_reality", WellFormed(p.settings),
         SbReality(p.settings) # None
  PROVE  Opens(SbReality(p.settings), Reality(p.settings))
<1> DEFINE s == p.settings
           dest == FirstStr(s, "reality_dest", "dest")
           key == FirstStr(s, "reality_private_key", "private_key")
           own == IF "reality_short_id" \in DOMAIN s THEN "reality_short_id" ELSE "short_id"
           ids == IF FirstShortId(s) # None THEN {FirstShortId(s)}
                  ELSE IF ~Blank(Str(s, own)) THEN {Str(s, own)} ELSE {""}
<1>1. ~Twice(s) /\ ~NoServerName(p) /\ ~KeysDiffer(s)
  BY RealityStraight
<1>2. Reality(s).name = FirstServerName(s) /\ Or(FirstServerName(s), dest) = FirstServerName(s)
  BY <1>1 DEF Reality, NoServerName, Or
<1>3. FirstShortId(s) = None => Blank(Str(s, own))
  <2>1. ASSUME ~Blank(Str(s, own)) PROVE FirstShortId(s) # None
    <3>1. own \in DOMAIN s /\ s[own].shape = "text" /\ s[own].items # <<>>
      BY <2>1 DEF Str, Blank
    <3>2. s[own].items[1] # None
      BY <3>1 DEF WellFormed
    <3>3. ItemOf(s, own) # None
      BY <3>1, <3>2 DEF ItemOf
    <3>4. (IF "short_id" \in DOMAIN s THEN "short_id" ELSE "reality_short_id") = own
      BY <1>1, <3>1 DEF Twice
    <3> QED
      BY <3>3, <3>4 DEF FirstShortId, FirstItem
  <2> QED
    BY <2>1
<1>4. Reality(s).id = Or(FirstShortId(s), "")
  BY DEF Reality
<1>5. Reality(s).id \in ids
  BY <1>3, <1>4 DEF Or
<1>6. /\ ~Blank(key)
      /\ SbReality(s) = [key |-> key, names |-> {Or(FirstServerName(s), dest)}, ids |-> ids]
  BY DEF SbReality
<1>7. Reality(s).key = key
  BY <1>1, <1>6, KeyIs
<1> HIDE DEF s, dest, key, ids
<1> QED
  BY <1>2, <1>5, <1>6, <1>7 DEF Opens, s

LEMMA MhRealityOpens ==
  ASSUME NEW p, ~Skewed(p), p.protocol = "vless_reality", p.core = "mihomo", WellFormed(p.settings),
         MhReality(p.settings) # None
  PROVE  Opens(MhReality(p.settings), Reality(p.settings))
<1> DEFINE s == p.settings
           dest == FirstStr(s, "reality_dest", "dest")
           key == FirstStr(s, "reality_private_key", "private_key")
           names == CommaList(s, "reality_server_names", "server_names")
           ids == CommaList(s, "reality_short_id", "short_id")
           allNames == IF names = {} THEN {dest} ELSE names
           allIds == IF ids = {} THEN {""} ELSE ids
<1>1. ~Twice(s) /\ ~ShapeLost(p) /\ ~NoServerName(p) /\ ~KeysDiffer(s)
  BY RealityStraight
<1>2. /\ OneText(s, "reality_server_names", "server_names")
      /\ OneText(s, "reality_short_id", "short_id")
  BY <1>1 DEF Twice, ShapeLost, OneText
<1>3. /\ FirstServerName(s) # None => FirstServerName(s) \in names
      /\ FirstShortId(s) # None => FirstShortId(s) \in ids
      /\ FirstShortId(s) = None => ids = {}
  BY <1>2, ItemIsListed DEF FirstServerName, FirstShortId
<1>4. Reality(s).name = FirstServerName(s) /\ FirstServerName(s) # None
      /\ Reality(s).id = Or(FirstShortId(s), "")
  BY <1>1 DEF Reality, NoServerName, Or
<1>5. Reality(s).name \in allNames /\ Reality(s).id \in allIds
  BY <1>3, <1>4 DEF Or
<1>6. ~Blank(key) /\ MhReality(s) = [key |-> key, names |-> allNames, ids |-> allIds]
  BY DEF MhReality
<1>7. Reality(s).key = key
  BY <1>1, <1>6, KeyIs
<1> HIDE DEF s, key, allNames, allIds
<1> QED
  BY <1>5, <1>6, <1>7 DEF Opens, s

(* The inbound of an active binding in its node's configuration *)
LEMMA BuiltInbound ==
  ASSUME NEW b \in Pair, bindings[b] # None, bindings[b].active, protos[b[2]] # None,
         PanelTypeOK, Generated(b).ok
  PROVE  LET made == Build(protos[b[2]].core, InboundConfig(b))
         IN /\ Certified(b)
            /\ made.ok \/ made.why = "TLS"
            /\ made.ok => made.is \in Generated(b).inbounds
<1> DEFINE n == b[1]
           c == protos[b[2]].core
           i == InboundConfig(b)
<1>1. /\ ~Misnamed(n, c) /\ Buildable(c, Inputs(n, c), Hops(n))
      /\ Generated(b).inbounds = Inbounds(c, Inputs(n, c))
  BY DEF Generated, GenerateNodeConfig, NoConfig, Assembled
<1>2. b \in ForCore(n, c)
  <2>1. b \in Rows(bindings)
    BY DEF Rows, PanelTypeOK
  <2> QED
    BY <2>1 DEF ForCore, ActiveBindings
<1>3. i \in Inputs(n, c)
  BY <1>2 DEF Inputs
<1>4. Certified(b)
  BY <1>1, <1>2 DEF Misnamed, Certified
<1> HIDE DEF i, c, n
<1>5. Build(c, i).ok \/ Build(c, i).why = "TLS"
  BY <1>1, <1>3 DEF Buildable, Skippable
<1>6. Build(c, i).ok => Build(c, i).is \in Generated(b).inbounds
  BY <1>1, <1>3 DEF Inbounds
<1> QED
  BY <1>4, <1>5, <1>6 DEF i, c

(* The certificate of an inbound, by the core that reads the TLS settings *)
ServerCert(core, t) == IF core = "mihomo" THEN MhServerTls(t) ELSE SbServerTls(t)

LEMMA NamedBySettings ==
  ASSUME NEW t \in TlsObject \union {None}, SbServerTls(t) # None
  PROVE  SbServerTls(t).name # None
<1>1. t \in TlsObject
  BY DEF SbServerTls
<1>2. None # ""
  BY PanelAssumption
<1>3. Tls(t, "managed_domain") # "" => t["managed_domain"] # None
  BY <1>1, ObjectHolds DEF Tls
<1>4. Tls(t, "domain") # "" => t["domain"] # None
  BY <1>1, ObjectHolds DEF Tls
<1> QED
  BY <1>2, <1>3, <1>4 DEF SbServerTls

LEMMA CertIs ==
  ASSUME PanelTypeOK, NEW b \in Pair, bindings[b] # None, protos[b[2]] # None,
         NEW core, ServerCert(core, ResolveCert(BindingTls(b))) # None
  PROVE  LET cert == ServerCert(core, ResolveCert(BindingTls(b)))
         IN cert.by \in {"managed", "acme"} => CertName(b) # None /\ CertName(b) = cert.name
<1> DEFINE u == BindingTls(b)
           t == ResolveCert(u)
           cert == SbServerTls(t)
<1>1. ServerCert(core, t) = cert /\ cert # None
  BY DEF ServerCert, MhServerTls
<1>2. cert.name # None
  <2>1. CASE NamesCert(u)
    <3>1. u \in TlsObject /\ "cert_id" \in DOMAIN u
      BY <2>1, BindingTlsType DEF NamesCert
    <3>2. u["cert_id"] # None
      BY <3>1, ObjectHolds
    <3>3. t = [managed_domain |-> u["cert_id"]]
      BY <2>1 DEF ResolveCert
    <3>4. "domain" \notin DOMAIN t /\ "certFile" \notin DOMAIN t
          /\ "managed_domain" \in DOMAIN t /\ t["managed_domain"] = u["cert_id"]
      BY <3>3
    <3> HIDE DEF t
    <3> QED
      BY <1>1, <3>2, <3>4 DEF SbServerTls, Tls
  <2>2. CASE ~NamesCert(u)
    <3>1. t = u
      BY <2>2 DEF ResolveCert
    <3>2. t \in TlsObject \union {None}
      BY <3>1, BindingTlsType
    <3> HIDE DEF t
    <3> QED
      BY <1>1, <3>2, NamedBySettings
  <2> QED
    BY <2>1, <2>2
<1>3. cert.by \in {"managed", "acme"} => CertName(b) = cert.name
  BY <1>1 DEF CertName
<1> QED
  BY <1>1, <1>2, <1>3

(* The case the links are about: an active binding that serves the client *)
Serving(b, a) ==
  /\ b \in Pair /\ a \in Account /\ bindings[b] # None /\ bindings[b].active
  /\ bindings[b].over = NoKeys /\ Plain(b) /\ Served(b, a) /\ ~Omitted(b) /\ ~NameTaken(b, a)

LEMMA ServerCertIs ==
  ASSUME NEW b, protos[b[2]].protocol # "vless_reality", ~Omitted(b)
  PROVE  ServerCert(protos[b[2]].core, InboundConfig(b).tls) # None
  BY DEF Omitted, ServerCert, InboundConfig

LEMMA InboundIs ==
  ASSUME NEW i, NEW users, NEW reality, NEW cert, NEW obfs, NEW transport, NEW x,
         x = Inbound(i, users, reality, cert, obfs, transport)
  PROVE  /\ x.pair = i.pair /\ x.port = i.port /\ x.users = users /\ x.reality = reality
         /\ x.cert = cert /\ x.obfs = obfs /\ x.transport = transport
  BY DEF Inbound

LEMMA BuiltIs ==
  ASSUME NEW x
  PROVE  Built(x).ok /\ Built(x).is = x
  BY DEF Built

LEMMA RealityReady ==
  ASSUME PanelTypeOK, NEW b, NEW a, Serving(b, a), protos[b[2]].protocol = "vless_reality",
         NEW made, made = Build(protos[b[2]].core, InboundConfig(b)),
         made.ok \/ made.why = "TLS"
  PROVE  made.ok /\ Ready(b, a, made.is)
<1> DEFINE i == InboundConfig(b)
           p == protos[b[2]]
           s == p.settings
<1>1. /\ p # None /\ ~Skewed(p) /\ p.core \in {"sing-box", "mihomo"} /\ WellFormed(s)
      /\ b \in Pair /\ bindings[b].over = NoKeys /\ Served(b, a) /\ Plain(b)
  BY RowOf DEF Serving, Plain, Core
<1>2. /\ i.pair = b /\ i.protocol = p.protocol /\ i.port = p.port /\ Alike(i.settings, s)
  BY <1>1, InputIs
<1>3. LinkObfs(p) = None /\ LinkTransport(p) = SbTransport(s)
  BY DEF LinkObfs, LinkTransport
<1> DEFINE Made(users, reality, transport) == Inbound(i, users, reality, None, None, transport)
<1>4. ASSUME NEW users, NEW reality, NEW transport,
             Among(users, a, LinkFlow(p)),
             reality # None, Opens(reality, Reality(s)), transport = LinkTransport(p)
      PROVE  Ready(b, a, Made(users, reality, transport))
  <2>1. PICK x : x = Made(users, reality, transport)
    OBVIOUS
  <2>2. /\ x.pair = b /\ x.port = p.port /\ x.users = users /\ x.reality = reality
        /\ x.cert = None /\ x.obfs = None /\ x.transport = LinkTransport(p)
    BY <1>2, <1>4, <2>1, InboundIs
  <2> HIDE DEF Made
  <2> QED
    BY <1>3, <1>4, <2>1, <2>2 DEF Ready, p
<1>5. SbReality(i.settings) = SbReality(s) /\ MhReality(i.settings) = MhReality(s)
      /\ SbTransport(i.settings) = SbTransport(s)
  BY <1>2, AlikeKeys, AlikeTexts
<1>6. /\ p.core = "sing-box" => Among(SbUuidUsers(i), a, LinkFlow(p))
      /\ p.core = "mihomo" => Among(MhUuidUsers(i, TRUE), a, LinkFlow(p))
  BY <1>1, UuidUsers
<1>7. /\ SbReality(s) # None => Opens(SbReality(s), Reality(s))
      /\ p.core = "mihomo" /\ MhReality(s) # None => Opens(MhReality(s), Reality(s))
  BY <1>1, SbRealityOpens, MhRealityOpens
<1> HIDE DEF i, Made
<1>8. CASE p.core = "sing-box"
  <2>1. made = SbVless(i)
    BY <1>2, <1>8 DEF Build, SbInbound, i, p
  <2>2. SbReality(s) # None
    BY <1>5, <2>1 DEF SbVless, Refused
  <2>3. made = Built(Made(SbUuidUsers(i), SbReality(s), SbTransport(s)))
    BY <1>5, <2>1, <2>2 DEF SbVless, Made
  <2>4. Ready(b, a, Made(SbUuidUsers(i), SbReality(s), SbTransport(s)))
    BY <1>3, <1>4, <1>6, <1>7, <1>8, <2>2
  <2> QED
    BY <2>3, <2>4, BuiltIs
<1>9. CASE p.core = "mihomo"
  <2>1. made = MhVlessReality(i)
    BY <1>2, <1>9 DEF Build, MhInbound, i, p
  <2>2. MhReality(s) # None
    <3>1. ASSUME MhReality(i.settings) = None PROVE FALSE
      <4>1. made = Refused("keys")
        BY <2>1, <3>1 DEF MhVlessReality
      <4> QED
        BY <4>1 DEF Refused
    <3> QED
      BY <1>5, <3>1
  <2>3. made = Built(Made(MhUuidUsers(i, TRUE), MhReality(s), NoTransport))
    BY <1>5, <2>1, <2>2 DEF MhVlessReality, Made
  <2>4. SbTransport(s) = NoTransport
    BY <1>1, <1>9, TransportsAgree
  <2>5. Ready(b, a, Made(MhUuidUsers(i, TRUE), MhReality(s), NoTransport))
    BY <1>3, <1>4, <1>6, <1>7, <1>9, <2>2, <2>4
  <2> QED
    BY <2>3, <2>5, BuiltIs
<1> QED
  BY <1>1, <1>8, <1>9

LEMMA CertReady ==
  ASSUME PanelTypeOK, NEW b, NEW a, Serving(b, a), protos[b[2]].protocol # "vless_reality",
         NEW made, made = Build(protos[b[2]].core, InboundConfig(b)),
         made.ok \/ made.why = "TLS"
  PROVE  made.ok /\ Ready(b, a, made.is)
<1> DEFINE i == InboundConfig(b)
           p == protos[b[2]]
           s == p.settings
           cert == ServerCert(p.core, i.tls)
<1>1. /\ p # None /\ ~Skewed(p) /\ p.core \in {"sing-box", "mihomo"}
      /\ p.protocol \in {"vless_xhttp", "hysteria2", "anytls"}
      /\ b \in Pair /\ bindings[b] # None /\ a \in Account
      /\ bindings[b].over = NoKeys /\ Served(b, a) /\ Plain(b) /\ ~NameTaken(b, a)
  BY DEF Serving, Plain, Core, Preset
<1>2. /\ i.pair = b /\ i.protocol = p.protocol /\ i.port = p.port /\ Alike(i.settings, s)
      /\ i.tls = ResolveCert(BindingTls(b))
  BY <1>1, InputIs
<1>3. cert # None
  BY <1>1, ServerCertIs DEF Serving
<1>4. cert.by \in {"managed", "acme"} => CertName(b) # None /\ CertName(b) = cert.name
  BY <1>1, <1>2, <1>3, CertIs
<1> DEFINE Made(users, obfs, transport) == Inbound(i, users, None, cert, obfs, transport)
<1>5. ASSUME NEW users, NEW obfs, NEW transport,
             Among(users, a, LinkFlow(p)),
             obfs = LinkObfs(p), transport = LinkTransport(p)
      PROVE  Ready(b, a, Made(users, obfs, transport))
  <2>1. PICK x : x = Made(users, obfs, transport)
    OBVIOUS
  <2>2. /\ x.pair = b /\ x.port = p.port /\ x.users = users /\ x.reality = None
        /\ x.cert = cert /\ x.obfs = LinkObfs(p) /\ x.transport = LinkTransport(p)
    BY <1>2, <1>5, <2>1, InboundIs
  <2> HIDE DEF Made, cert
  <2> QED
    BY <1>4, <1>5, <2>1, <2>2 DEF Ready, p
<1>6. XhttpPath(i.settings) = XhttpPath(s) /\ ServerObfs(i.settings) = ServerObfs(s)
  BY <1>2, AlikeTexts
<1>7. /\ p.core = "sing-box" => cert = SbServerTls(i.tls)
      /\ p.core = "mihomo" => cert = MhServerTls(i.tls)
  BY DEF ServerCert
<1> HIDE DEF i, cert, Made
<1>8. CASE p.protocol = "vless_xhttp"
  <2>1. p.core = "mihomo"
    <3>1. ASSUME p.core = "sing-box" PROVE FALSE
      BY <1>2, <1>8, <3>1 DEF Build, SbInbound, Refused, i, p
    <3> QED
      BY <1>1, <3>1
  <2>2. made = MhVlessXhttp(i)
    BY <1>2, <1>8, <2>1 DEF Build, MhInbound, i, p
  <2>3. Among(MhUuidUsers(i, FALSE), a, LinkFlow(p))
    BY <1>1, <1>8, <2>1, UuidUsers DEF i, p
  <2>4. made = Built(Made(MhUuidUsers(i, FALSE), None, [type |-> "xhttp", path |-> XhttpPath(s)]))
    BY <1>3, <1>6, <1>7, <2>1, <2>2 DEF MhVlessXhttp, XhttpPath, Made
  <2>5. LinkObfs(p) = None /\ LinkTransport(p) = [type |-> "xhttp", path |-> XhttpPath(s)]
    BY <1>8 DEF LinkObfs, LinkTransport
  <2>6. Ready(b, a, Made(MhUuidUsers(i, FALSE), None, LinkTransport(p)))
    BY <1>5, <2>3, <2>5
  <2> QED
    BY <2>4, <2>5, <2>6, BuiltIs
<1>9. CASE p.protocol \in {"hysteria2", "anytls"}
  <2>1. LinkFlow(p) = "" /\ LinkTransport(p) = NoTransport
    BY <1>9 DEF LinkFlow, LinkTransport
  <2>2. /\ Among(SbPasswordUsers(i), a, LinkFlow(p))
        /\ p.core = "mihomo" => Among(MhPasswordUsers(i), a, LinkFlow(p))
    BY <1>1, <1>9, <2>1, PasswordUsers DEF i, p
  <2>3. CASE p.core = "sing-box"
    <3>1. made = Built(Made(SbPasswordUsers(i), LinkObfs(p), NoTransport))
      <4>1. CASE p.protocol = "hysteria2"
        <5>1. made = SbHysteria2(i)
          BY <1>2, <2>3, <4>1 DEF Build, SbInbound, i, p
        <5> QED
          BY <1>3, <1>6, <1>7, <2>3, <4>1, <5>1 DEF SbHysteria2, Made, LinkObfs
      <4>2. CASE p.protocol = "anytls"
        <5>1. made = SbAnytls(i)
          BY <1>2, <2>3, <4>2 DEF Build, SbInbound, i, p
        <5> QED
          BY <1>3, <1>7, <2>3, <4>2, <5>1 DEF SbAnytls, Made, LinkObfs
      <4> QED
        BY <1>9, <4>1, <4>2
    <3>2. Ready(b, a, Made(SbPasswordUsers(i), LinkObfs(p), NoTransport))
      BY <1>5, <2>1, <2>2
    <3> QED
      BY <3>1, <3>2, BuiltIs
  <2>4. CASE p.core = "mihomo"
    <3>1. made = Built(Made(MhPasswordUsers(i), LinkObfs(p), NoTransport))
      <4>1. CASE p.protocol = "hysteria2"
        <5>1. made = MhHysteria2(i)
          BY <1>2, <2>4, <4>1 DEF Build, MhInbound, i, p
        <5> QED
          BY <1>3, <1>6, <1>7, <2>4, <4>1, <5>1 DEF MhHysteria2, Made, LinkObfs
      <4>2. CASE p.protocol = "anytls"
        <5>1. made = MhAnytls(i)
          BY <1>2, <2>4, <4>2 DEF Build, MhInbound, i, p
        <5> QED
          BY <1>3, <1>7, <2>4, <4>2, <5>1 DEF MhAnytls, Made, LinkObfs
      <4> QED
        BY <1>9, <4>1, <4>2
    <3>2. Ready(b, a, Made(MhPasswordUsers(i), LinkObfs(p), NoTransport))
      BY <1>5, <2>1, <2>2, <2>4
    <3> QED
      BY <3>1, <3>2, BuiltIs
  <2> QED
    BY <1>1, <2>3, <2>4
<1> QED
  BY <1>1, <1>8, <1>9

LEMMA InboundReady ==
  ASSUME PanelTypeOK, NEW b, NEW a, Serving(b, a), Generated(b).ok
  PROVE  Certified(b) /\ \E i \in Generated(b).inbounds : Ready(b, a, i)
<1> DEFINE made == Build(protos[b[2]].core, InboundConfig(b))
<1>1. /\ Certified(b)
      /\ made.ok \/ made.why = "TLS"
      /\ made.ok => made.is \in Generated(b).inbounds
  BY BuiltInbound DEF Serving, Plain
<1> HIDE DEF made
<1>2. made.ok /\ Ready(b, a, made.is)
  BY <1>1, RealityReady, CertReady DEF made
<1> QED
  BY <1>1, <1>2

LEMMA LinkPair ==
  ASSUME NEW q, q.protocol \in Preset, NEW l \in Links(q)
  PROVE  l.pair = q.pair
<1> DEFINE Made(r) == ~r.ok \/ r.is.pair = q.pair
<1>1. /\ \A why : Made(Refused(why))
      /\ \A cred, flow, reality, sni, obfs, transport :
            Made(Built(Link(q, cred, flow, reality, sni, obfs, transport)))
  BY DEF Refused, Built, Link
<1> HIDE DEF Made
<1>2. \A obfs : /\ Made(SbPasswordLink(q, obfs)) /\ Made(ClashPasswordLink(q, obfs))
                /\ Made(SharePasswordLink(q, obfs))
  BY <1>1 DEF SbPasswordLink, ClashPasswordLink, SharePasswordLink
<1>3. Made(SbVlessLink(q)) /\ Made(ClashVlessLink(q)) /\ Made(ShareVlessLink(q))
  BY <1>1 DEF SbVlessLink, ClashVlessLink, ShareVlessLink
<1>4. SbSupports(q) => Made(SbLink(q))
  BY <1>2, <1>3 DEF SbSupports, SbLink
<1>5. Made(ClashLink(q)) /\ Made(ShareLink(q))
  BY <1>2, <1>3 DEF ClashLink, ShareLink, Preset
<1>6. \E r : Made(r) /\ r.ok /\ l = r.is
  BY <1>4, <1>5 DEF Links
<1> QED
  BY <1>6 DEF Made

LEMMA RenderedIs ==
  ASSUME NEW links, Rendered(links).ok, NEW l \in Rendered(links).is
  PROVE  \E k \in links : k.ok /\ l = k.is
  BY DEF Rendered, Refused, Built

LEMMA OfferedIs ==
  ASSUME NEW a, NEW l \in Offered(a)
  PROVE  \E q \in BuildProxyNodes(a, NoFilter) : l \in Links(q)
<1> DEFINE proxies == BuildProxyNodes(a, NoFilter)
<1>1. PICK f \in Format : Subscription(f, proxies).ok /\ l \in Subscription(f, proxies).is
  BY DEF Offered
<1> HIDE DEF proxies
<1>2. CASE f = "sing-box"
  <2>1. Subscription(f, proxies) = Rendered({SbLink(p) : p \in {q \in proxies : SbSupports(q)}})
    BY <1>2 DEF Subscription
  <2>2. PICK q \in proxies : SbSupports(q) /\ SbLink(q).ok /\ l = SbLink(q).is
    BY <1>1, <2>1, RenderedIs
  <2> QED
    BY <2>2 DEF Links, proxies
<1>3. CASE f = "clash"
  <2>1. Subscription(f, proxies) = Rendered({ClashLink(p) : p \in proxies})
    BY <1>3 DEF Subscription
  <2>2. PICK q \in proxies : ClashLink(q).ok /\ l = ClashLink(q).is
    BY <1>1, <2>1, RenderedIs
  <2> QED
    BY <2>2 DEF Links, proxies
<1>4. CASE f = "base64"
  <2>1. Subscription(f, proxies) = Rendered({ShareLink(p) : p \in proxies})
    BY <1>4 DEF Subscription
  <2>2. PICK q \in proxies : ShareLink(q).ok /\ l = ShareLink(q).is
    BY <1>1, <2>1, RenderedIs
  <2> QED
    BY <2>2 DEF Links, proxies
<1> QED
  BY <1>2, <1>3, <1>4 DEF Format

LEMMA PlainRow ==
  ASSUME PanelTypeOK, NEW b \in Pair, protos[b[2]] # None, ~Skewed(protos[b[2]])
  PROVE  Plain(b)
  BY RowOf DEF Plain, ConfigRow

(* A client of the binding's groups that uses the link it is given *)
LEMMA LinkAccepted ==
  ASSUME PanelTypeOK, NEW a \in Account, clients[a] # None, clients[a].status = "active",
         NEW l \in Offered(a), Generated(l.pair).ok, ~Omitted(l.pair), ~Skewed(protos[l.pair[2]]),
         ~Renamed(l.pair), ~NameTaken(l.pair, a), ClientsOf(protos[l.pair[2]].settings) = <<>>,
         bindings[l.pair].over = NoKeys, hosts[l.pair] = None
  PROVE  \E i \in Generated(l.pair).inbounds : i.pair = l.pair /\ Accepts(i, l)
<1>1. PICK q \in BuildProxyNodes(a, NoFilter) : l \in Links(q)
  BY OfferedIs
<1>2. PICK b \in Pair : Listed(a, b, NoFilter) /\ q = ProxyNode(a, b)
  BY DEF BuildProxyNodes
<1>3. q.pair = b /\ q.protocol \in Preset
  BY <1>1, OfferedProtocol, <1>2 DEF ProxyNode
<1>4. l.pair = b
  BY <1>1, <1>3, LinkPair
<1>5. /\ bindings[b] # None /\ bindings[b].active /\ protos[b[2]] # None
      /\ members[a] \cap bindings[b].groups # {}
  BY <1>2 DEF Listed
<1>6. Plain(b)
  BY <1>4, <1>5, PlainRow
<1>7. Serving(b, a)
  BY <1>4, <1>5, <1>6 DEF Serving, Served, Joined
<1>8. Certified(b) /\ \E i \in Generated(b).inbounds : Ready(b, a, i)
  BY <1>4, <1>7, InboundReady
<1>9. Fits(b, a, l)
  BY <1>1, <1>2, <1>4, <1>5, <1>6, <1>8, LinkFits
<1> QED
  BY <1>4, <1>5, <1>8, <1>9, ReadyAccepts

\* For any stored settings, tables and sequence of edits: a link that
\* build_proxy_nodes and a format make for an active client is accepted by the
\* inbound that inject_binding_clients and a builder make for its node, but for
\* the settings the property names.
THEOREM LinksAlwaysAccepted == PanelSpec => []LinkIsAccepted
<1>1. PanelTypeOK => LinkIsAccepted
  <2> SUFFICES ASSUME PanelTypeOK, NEW a \in Account, clients[a] # None,
                      clients[a].status = "active", NEW l \in Offered(a),
                      Generated(l.pair).ok, ~Omitted(l.pair), ~Skewed(protos[l.pair[2]]),
                      ~Renamed(l.pair), ~NameTaken(l.pair, a),
                      ClientsOf(protos[l.pair[2]].settings) = <<>>,
                      bindings[l.pair].over = NoKeys, hosts[l.pair] = None
               PROVE  \E i \in Generated(l.pair).inbounds : i.pair = l.pair /\ Accepts(i, l)
    BY DEF LinkIsAccepted, Rows, PanelTypeOK
  <2> QED
    BY LinkAccepted
<1> QED
  BY <1>1, PanelTypeCorrect, PTL

-----------------------------------------------------------------------------
(* Hops and the inbounds they are for                                      *)

LEMMA CertNamed ==
  ASSUME PanelTypeOK, NEW b \in Pair, CertName(b) # None
  PROVE  /\ CertName(b) # ""
         /\ NamesCert(BindingTls(b)) => CertName(b) = BindingTls(b)["cert_id"]
<1> DEFINE u == BindingTls(b)
           t == ResolveCert(u)
<1>1. SbServerTls(t) # None /\ SbServerTls(t).by # "files" /\ CertName(b) = SbServerTls(t).name
  BY DEF CertName
<1>2. ASSUME NamesCert(u)
      PROVE  DOMAIN t = {"managed_domain"} /\ t["managed_domain"] = u["cert_id"]
  BY <1>2 DEF ResolveCert
<1> HIDE DEF u, t
<1>3. CertName(b) # ""
  BY <1>1 DEF SbServerTls, Tls
<1>4. NamesCert(u) => CertName(b) = u["cert_id"]
  BY <1>1, <1>2 DEF SbServerTls, Tls
<1> QED
  BY <1>3, <1>4 DEF u

(* What resolve_relay_sni finds is the certificate's domain. *)
LEMMA HopName ==
  ASSUME PanelTypeOK, NEW b \in Pair, Certified(b), ~HopRenamed(b), CertName(b) # None
  PROVE  RelaySni(b) = CertName(b)
<1> DEFINE t == bindings[b].tls
           base == protos[b[2]].tls
<1>1. CertName(b) # ""
  BY CertNamed
<1>2. CASE NamesCert(t)
  <2>1. t # None /\ "cert_id" \in DOMAIN t
    BY <1>2 DEF NamesCert
  <2>2. "cert_id" \in DOMAIN BindingTls(b) /\ BindingTls(b)["cert_id"] = t["cert_id"]
    <3>1. BindingTls(b) = IF base = None THEN t ELSE Merge(base, t)
      BY <2>1 DEF BindingTls, MergeTls
    <3> HIDE DEF t, base
    <3> QED
      BY <2>1, <3>1 DEF Merge
  <2>3. CASE BindingTls(b) # None
    <3>1. NamesCert(BindingTls(b))
      BY <2>2, <2>3 DEF NamesCert
    <3>2. CertName(b) = t["cert_id"] /\ certs[t["cert_id"]] = b[1]
      BY <2>2, <3>1, CertNamed DEF Certified, CertIsOf
    <3>3. b[1] # None
      BY PanelAssumption DEF Pair
    <3> QED
      BY <1>2, <3>2, <3>3 DEF RelaySni
  <2>4. CASE BindingTls(b) = None
    <3>1. ResolveCert(BindingTls(b)) = None
      BY <2>4 DEF ResolveCert, NamesCert
    <3> QED
      BY <3>1 DEF CertName, SbServerTls
  <2> QED
    BY <2>3, <2>4
<1>3. CASE ~NamesCert(t)
  <2>1. t # None /\ Tls(t, "domain") = CertName(b)
    BY <1>3 DEF HopRenamed
  <2>2. t["domain"] = CertName(b)
    BY <1>1, <2>1 DEF Tls
  <2> QED
    BY <1>1, <1>3, <2>1, <2>2 DEF RelaySni
<1> QED
  BY <1>2, <1>3

LEMMA FilledIs ==
  ASSUME NEW s, ~Twice(s)
  PROVE  /\ FilledItem(s, "reality_server_names", "server_names") = FirstServerName(s)
         /\ FilledItem(s, "reality_short_id", "short_id") = FirstShortId(s)
         /\ \A k : Or(FilledStr(s, k), "") = Or(Str(s, k), "")
<1>1. \A k : k \notin DOMAIN s => ItemOf(s, k) = None
  BY DEF ItemOf
<1>2. /\ FilledItem(s, "reality_server_names", "server_names") = FirstServerName(s)
      /\ FilledItem(s, "reality_short_id", "short_id") = FirstShortId(s)
  BY <1>1 DEF Twice, FilledItem, FirstServerName, FirstShortId, FirstItem
<1>3. \A k : Or(FilledStr(s, k), "") = Or(Str(s, k), "")
  BY DEF FilledStr, Or, Blank
<1> QED
  BY <1>2, <1>3

LEMMA HopObfsIs ==
  ASSUME NEW p, p.protocol = "hysteria2", ~Skewed(p)
  PROVE  HopObfs(p.settings) = ServerObfs(p.settings)
<1>1. ~ObfsUnset(p)
  BY DEF Skewed
<1> QED
  BY <1>1 DEF ObfsUnset, HopObfs, FilledStr, ServerObfs, ObfsType, Or, Blank

(* The part of a hop that is the same for every protocol *)
Dialling(r, b) ==
  [node |-> b[1], pair |-> b, server |-> b[1], port |-> protos[b[2]].port,
   protocol |-> protos[b[2]].protocol, cred |-> rules[r].client, flow |-> "", reality |-> None,
   sni |-> RelaySni(b), obfs |-> None, transport |-> NoTransport, route |-> RouteOf(r)]

(* The fields of a link to the binding, those that builders set apart *)
DiallingAs(h, r, b, flow, reality, obfs) ==
  /\ h.pair = b /\ h.port = protos[b[2]].port /\ h.cred = rules[r].client /\ h.flow = flow
  /\ h.reality = reality /\ h.sni = RelaySni(b) /\ h.obfs = obfs /\ h.transport = NoTransport

LEMMA DiallingVless ==
  ASSUME NEW r, NEW b, NEW flow, NEW reality, NEW h,
         h = [Dialling(r, b) EXCEPT !.flow = flow, !.reality = reality]
  PROVE  DiallingAs(h, r, b, flow, reality, None)
  BY DEF Dialling, DiallingAs

LEMMA DiallingPassword ==
  ASSUME NEW r, NEW b, NEW obfs, NEW h, h = [Dialling(r, b) EXCEPT !.obfs = obfs]
  PROVE  DiallingAs(h, r, b, "", None, obfs)
  BY DEF Dialling, DiallingAs

LEMMA DiallingPlain ==
  ASSUME NEW r, NEW b
  PROVE  DiallingAs(Dialling(r, b), r, b, "", None, None)
  BY DEF Dialling, DiallingAs

LEMMA HopFits ==
  ASSUME PanelTypeOK, NEW r, NEW b \in Pair, b = rules[r].exit, Plain(b), Certified(b),
         ~HopRenamed(b), Network(protos[b[2]].settings) = "tcp", Hop(r).ok
  PROVE  Fits(b, rules[r].client, Hop(r).is)
<1> DEFINE p == protos[b[2]]
           s == p.settings
           name == FilledItem(s, "reality_server_names", "server_names")
           own == [key |-> FilledStr(s, "public_key"), name |-> name,
                   id |-> Or(FilledItem(s, "reality_short_id", "short_id"), "")]
           flow == Or(FilledStr(s, "flow"), "")
<1>1. ~Skewed(p) /\ p.protocol \in Preset
  BY DEF Plain
<1>2. CertName(b) # None => RelaySni(b) = CertName(b)
  BY HopName
<1>3. ~Refused("hop").ok /\ \A x : Built(x).is = x
  BY DEF Refused, Built
<1>4. CASE p.protocol = "vless_reality"
  <2>1. Hop(r) = IF FilledStr(s, "public_key") = None \/ name = None THEN Refused("hop")
                 ELSE Built([Dialling(r, b) EXCEPT !.flow = flow, !.reality = own])
    BY <1>4 DEF Hop, Dialling
  <2>2. /\ FilledStr(s, "public_key") # None /\ name # None
        /\ Hop(r).is = [Dialling(r, b) EXCEPT !.flow = flow, !.reality = own]
    BY <1>3, <2>1
  <2>3. own = Reality(s) /\ flow = LinkFlow(p)
    <3>1. ~Twice(s)
      BY <1>1, <1>4, RealityStraight
    <3>2. Or(Str(s, "public_key"), "") = FilledStr(s, "public_key")
      BY <2>2 DEF FilledStr, Or, Blank
    <3>3. Or(FirstServerName(s), "") = name
      BY <2>2, <3>1, FilledIs DEF Or
    <3> QED
      BY <1>4, <3>1, <3>2, <3>3, FilledIs DEF Reality, LinkFlow
  <2>4. LinkObfs(p) = None /\ LinkTransport(p) = NoTransport
    BY <1>1, <1>4, TransportsAgree DEF LinkObfs, LinkTransport
  <2>5. DiallingAs(Hop(r).is, r, b, LinkFlow(p), Reality(s), None)
    <3> HIDE DEF own, flow
    <3>1. DiallingAs(Hop(r).is, r, b, flow, own, None)
      BY <2>2, DiallingVless
    <3> QED
      BY <2>3, <3>1
  <2> QED
    BY <1>4, <2>4, <2>5 DEF DiallingAs, Fits
<1>5. CASE p.protocol \in {"hysteria2", "anytls"}
  <2>1. DiallingAs(Hop(r).is, r, b, "", None, LinkObfs(p))
    <3>1. CASE p.protocol = "hysteria2"
      <4>1. Hop(r) = IF RelaySni(b) = None THEN Refused("hop")
                     ELSE Built([Dialling(r, b) EXCEPT !.obfs = HopObfs(s)])
        BY <3>1 DEF Hop, Dialling
      <4>2. HopObfs(s) = LinkObfs(p)
        BY <1>1, <3>1, HopObfsIs DEF LinkObfs
      <4>3. Hop(r).is = [Dialling(r, b) EXCEPT !.obfs = HopObfs(s)]
        BY <1>3, <4>1
      <4> QED
        BY <4>2, <4>3, DiallingPassword
    <3>2. CASE p.protocol = "anytls"
      <4>1. Hop(r) = IF RelaySni(b) = None THEN Refused("hop") ELSE Built(Dialling(r, b))
        BY <3>2 DEF Hop, Dialling
      <4>2. Hop(r).is = Dialling(r, b) /\ LinkObfs(p) = None
        BY <1>3, <3>2, <4>1 DEF LinkObfs
      <4> QED
        BY <4>2, DiallingPlain
    <3> QED
      BY <1>5, <3>1, <3>2
  <2>2. LinkFlow(p) = "" /\ LinkTransport(p) = NoTransport
    BY <1>5 DEF LinkFlow, LinkTransport
  <2> QED
    BY <1>2, <1>5, <2>1, <2>2 DEF DiallingAs, Fits
<1>6. CASE p.protocol = "vless_xhttp"
  BY <1>3, <1>6 DEF Hop
<1> QED
  BY <1>1, <1>4, <1>5, <1>6 DEF Preset

LEMMA RelayIsAlone ==
  ASSUME Named(clients), NEW a \in Relay, clients[a] # None, NEW b
  PROVE  ~NameTaken(b, a)
<1>1. Client \cap Relay = {}
  BY PanelAssumption
<1>2. clients[a].name = a
  BY <1>1 DEF Named, Account
<1> QED
  BY <1>1, <1>2 DEF NameTaken, Named, Account

LEMMA HopAccepted ==
  ASSUME PanelTypeOK, Named(clients), NEW n, NEW c, GenerateNodeConfig(n, c).ok,
         NEW r \in RulesOf(n), NEW b, b = rules[r].exit, Generated(b).ok, ~Omitted(b),
         ~Skewed(protos[b[2]]), ~HopRenamed(b), Used(r), bindings[b].active,
         bindings[b].over = NoKeys, Network(protos[b[2]].settings) = "tcp"
  PROVE  \E h \in GenerateNodeConfig(n, c).hops, i \in Generated(b).inbounds :
            h.pair = b /\ h.cred = rules[r].client /\ i.pair = b /\ Accepts(i, h)
<1> DEFINE a == rules[r].client
<1>1. r \in Rule /\ rules[r] # None /\ bindings[b] # None /\ protos[b[2]] # None
  BY DEF RulesOf, Rows, PanelTypeOK
<1>2. b \in Pair /\ a \in Relay
  BY <1>1 DEF PanelTypeOK, RuleRow
<1>3. clients[a] # None /\ clients[a].status = "active" /\ members[a] \cap bindings[b].groups # {}
  BY DEF Used
<1>4. Plain(b)
  BY <1>1, <1>2, PlainRow
<1>5. Serving(b, a)
  BY <1>1, <1>2, <1>3, <1>4, RelayIsAlone DEF Serving, Served, Joined, Account
<1>6. Hop(r).ok /\ Hop(r).is \in GenerateNodeConfig(n, c).hops
  <2>1. /\ Buildable(c, Inputs(n, c), Hops(n))
        /\ GenerateNodeConfig(n, c).hops = {x.is : x \in Hops(n)}
    BY DEF GenerateNodeConfig, NoConfig, Assembled
  <2>2. Hop(r) \in Hops(n)
    BY DEF Hops
  <2> QED
    BY <2>1, <2>2 DEF Buildable
<1> HIDE DEF a
<1>7. Certified(b) /\ \E i \in Generated(b).inbounds : Ready(b, a, i)
  BY <1>5, InboundReady
<1>8. Fits(b, a, Hop(r).is)
  BY <1>2, <1>4, <1>6, <1>7, HopFits DEF a
<1>9. Hop(r).is.pair = b /\ Hop(r).is.cred = a
  BY <1>8 DEF Fits
<1> QED
  BY <1>1, <1>2, <1>6, <1>7, <1>8, <1>9, ReadyAccepts DEF a

\* The same of the outbounds of relay rules (apply_relay_rules), whose client
\* has a name of its own, so that no mihomo listener drops it.
THEOREM HopsAlwaysAccepted == PanelSpec => []HopIsAccepted
<1>1. PanelTypeOK /\ Named(clients) => HopIsAccepted
  BY HopAccepted DEF HopIsAccepted
<1> QED
  BY <1>1, NamesAreTheirs, PTL
=============================================================================
