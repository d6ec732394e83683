-------------------------------- MODULE MCHub --------------------------------
(***************************************************************************)
(* What the Hub keeps by itself: the panel's tables and the configurations *)
(* and subscriptions that it builds of them, the core versions, the        *)
(* templates, an API key with the cache in front of it, the buckets of the *)
(* rate limiter and its own log.  They share no state but the database's   *)
(* tables, of which each has its own, so each behaviour is of one of them, *)
(* chosen at its beginning.                                                *)
(***************************************************************************)
EXTENDS MCPanel, CoreVersions, Templates, ApiKeys, RateLimiter, HubLogs

VARIABLE part

hubVars == <<part, panelVars, catVars, templateVars, keyVars, rateVars, logVars>>

\* The other parts start with one of the panel's initial states.
OneOfMany == /\ \A r \in Rule : rules[r] = None
             /\ \E q \in Proto : protos[q] = CHOOSE x \in Configs : TRUE

HubInit == /\ part \in {"panel", "versions", "templates", "keys", "limits", "logs"}
           /\ PanelInit /\ CatInit /\ TemplateInit /\ KeyInit /\ RateInit /\ LogInit
           /\ part = "panel" \/ OneOfMany

\* Every edit is within the bound; said first, it saves TLC the enumeration of
\* all edits in the states that have none left.
HubNext ==
  /\ UNCHANGED part
  /\ IF part = "panel" THEN edits < MaxEdits /\ PanelNext ELSE UNCHANGED panelVars
  /\ IF part = "versions" THEN CatNext ELSE UNCHANGED catVars
  /\ IF part = "templates" THEN TemplateNext ELSE UNCHANGED templateVars
  /\ IF part = "keys" THEN KeyNext ELSE UNCHANGED keyVars
  /\ IF part = "limits" THEN RateNext ELSE UNCHANGED rateVars
  /\ IF part = "logs" THEN LogNext ELSE UNCHANGED logVars

HubSpec == HubInit /\ [][HubNext]_hubVars
==============================================================================
