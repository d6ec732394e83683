--------------------------- MODULE ConfigDelivery ---------------------------
(***************************************************************************)
(* What configuration push promises of a node, whatever happens to its     *)
(* streams, to the Hub and to the Agent: a core is only ever given a       *)
(* configuration the Hub offered to this node for this core, and a core    *)
(* brought back without the Hub runs one it has accepted before.           *)
(***************************************************************************)
CONSTANTS
  Core,      \* the proxy cores a node may run
  Config,    \* configurations
  NoConfig   \* "the core is not running"

VARIABLES
  offered,   \* core -> configurations the Hub has handed over for it
  accepted,  \* core -> configurations it has started or reloaded with
  running    \* core -> the configuration it runs

deliveryVars == <<offered, accepted, running>>

DeliveryInit ==
  /\ offered = [c \in Core |-> {}]
  /\ accepted = [c \in Core |-> {}]
  /\ running = [c \in Core |-> NoConfig]

Offer(c, x) ==
  /\ offered' = [offered EXCEPT ![c] = @ \union {x}]
  /\ UNCHANGED <<accepted, running>>

Accept(c, x) ==
  /\ x \in offered[c]
  /\ accepted' = [accepted EXCEPT ![c] = @ \union {x}]
  /\ running' = [running EXCEPT ![c] = x]
  /\ UNCHANGED offered

\* Some cores end: stopped, crashed, refused a configuration, or the Agent died.
Halt(Ended) ==
  /\ running' = [c \in Core |-> IF c \in Ended THEN NoConfig ELSE running[c]]
  /\ UNCHANGED <<offered, accepted>>

\* Every core is down and some come back by themselves.
Recover ==
  /\ \A c \in Core : running[c] = NoConfig
  /\ running' \in [Core -> Config \union {NoConfig}]
  /\ \A c \in Core : running'[c] \in accepted[c] \union {NoConfig}
  /\ UNCHANGED <<offered, accepted>>

DeliveryNext ==
  \/ \E c \in Core, x \in Config : Offer(c, x) \/ Accept(c, x)
  \/ \E Ended \in SUBSET Core : Halt(Ended)
  \/ Recover

DeliverySpec == DeliveryInit /\ [][DeliveryNext]_deliveryVars

\* A running core runs a configuration it accepted, and the Hub offered every
\* accepted configuration: push_node_config is the only origin of what a core runs.
RunsWhatWasOffered ==
  \A c \in Core :
    /\ running[c] \in accepted[c] \union {NoConfig}
    /\ accepted[c] \subseteq offered[c]
=============================================================================
