------------------------------ MODULE Templates ------------------------------
(***************************************************************************)
(* Subscription templates (routes/subscription/template.rs) and which of   *)
(* them a request for a subscription is rendered with (access.rs).  A      *)
(* handler that enables a template writes its row and then disables the    *)
(* others of its format, row by row and without a transaction; the format  *)
(* and the flag of that second part are what the handler made of the row   *)
(* it read at first.                                                       *)
(***************************************************************************)
EXTENDS Integers, FiniteSets

CONSTANTS
  Template,     \* ids of rows; those of the two built-in ones are constants
  SbBuiltin, ClashBuiltin,
  Editor,       \* requests that edit templates
  MaxTemplateEdits

ASSUME TemplatesAssumption ==
  /\ MaxTemplateEdits \in Nat
  /\ SbBuiltin \in Template /\ ClashBuiltin \in Template /\ SbBuiltin # ClashBuiltin

VARIABLES
  templates,     \* id |-> [format, enabled] or Gone
  editor,        \* request |-> [pc, id, row, says, others]: row is what it takes id's
                 \* row for; history: it has posted another format, or that it is off
  templateEdits, \* edits so far
  skewed         \* history: an enforcement ended early, or was for a stale row

templateVars == <<templates, editor, templateEdits, skewed>>

(* The formats of rows, as far as they can have a template that differs    *)
StoredFormat == {"sing-box", "clash", "base64"}

Gone == [format |-> "", enabled |-> FALSE]
Kept == {t \in Template : templates[t] # Gone}
Builtin == {SbBuiltin, ClashBuiltin}
Enabled(format) == {t \in Kept : templates[t].format = format /\ templates[t].enabled}

Away == [pc |-> "away", id |-> SbBuiltin, row |-> Gone, says |-> FALSE, others |-> {}]

(* The migration that adds the built-in templates *)
TemplateInit ==
  /\ templates = [t \in Template |->
       IF t = SbBuiltin THEN [format |-> "sing-box", enabled |-> TRUE]
       ELSE IF t = ClashBuiltin THEN [format |-> "clash", enabled |-> TRUE] ELSE Gone]
  /\ editor = [e \in Editor |-> Away] /\ templateEdits = 0 /\ skewed = FALSE

-----------------------------------------------------------------------------
(* create_template and update_template                                     *)

Begin(e) == /\ templateEdits < MaxTemplateEdits /\ templateEdits' = templateEdits + 1
            /\ editor[e] = Away

CreateTemplate(e, t, format) ==
  /\ Begin(e) /\ t \notin Kept \union Builtin
  /\ \A o \in Editor : t # editor[o].id /\ t \notin editor[o].others
  /\ templates' = [templates EXCEPT ![t] = [format |-> format, enabled |-> TRUE]]
  /\ editor' = [editor EXCEPT ![e] = [Away EXCEPT !.pc = "enforce", !.id = t,
                                            !.row = [format |-> format, enabled |-> TRUE]]]
  /\ UNCHANGED skewed

ReadTemplate(e, t) ==
  /\ Begin(e) /\ t \in Kept
  /\ editor' = [editor EXCEPT ![e] = [Away EXCEPT !.pc = "read", !.id = t,
                                                  !.row = templates[t]]]
  /\ UNCHANGED <<templates, skewed>>

(* `format` and `enabled` are sets: what is posted, or nothing.  Only the  *)
(* posted columns are written.                                             *)
PostedOr(set, old) == IF set = {} THEN old ELSE CHOOSE x \in set : TRUE

Edited(row, format, enabled) ==
  [format |-> PostedOr(format, row.format), enabled |-> PostedOr(enabled, row.enabled)]

(* `row` is written, and the uniqueness of `enforced` is what comes next.  *)
Write(e, format, enabled, row, enforced) ==
  LET own == editor[e]
  IN /\ templates' = [templates EXCEPT ![own.id] = row]
     /\ editor' = [editor EXCEPT ![e] = [own EXCEPT !.pc = "enforce", !.row = enforced,
                                                   !.says = format # {} \/ enabled = {FALSE}]]
     /\ skewed' = (skewed \/ row # Edited(own.row, format, enabled))
     /\ UNCHANGED templateEdits

Writable(e, format) == /\ editor[e].pc = "read" /\ editor[e].id \in Kept
                       /\ editor[e].id \in Builtin => format = {}

(* Variant: the uniqueness of the former format is enforced *)
WriteTemplateOld(e, format, enabled) ==
  /\ Writable(e, format)
  /\ Write(e, format, enabled, Edited(templates[editor[e].id], format, enabled),
                               Edited(editor[e].row, {}, enabled))

(* Variant: every column is written, those that are not posted as they were read *)
WriteTemplateWhole(e, format, enabled) ==
  /\ Writable(e, format)
  /\ Write(e, format, enabled, Edited(editor[e].row, format, enabled),
                               Edited(editor[e].row, format, enabled))

WriteTemplate(e, format, enabled) ==
  /\ Writable(e, format)
  /\ Write(e, format, enabled, Edited(templates[editor[e].id], format, enabled),
                               Edited(editor[e].row, format, enabled))

(* enforce_unique_enabled_template *)
FindOthers(e) ==
  /\ editor[e].pc = "enforce"
  /\ LET own == editor[e]
     IN editor' = [editor EXCEPT ![e] =
          IF own.row.enabled
          THEN [own EXCEPT !.pc = "disable", !.others = Enabled(own.row.format) \ {own.id}]
          ELSE Away]
  /\ UNCHANGED <<templates, templateEdits, skewed>>

DisableOther(e, t) ==
  /\ editor[e].pc = "disable" /\ t \in editor[e].others \cap Kept
  /\ templates' = [templates EXCEPT ![t].enabled = FALSE]
  /\ editor' = [editor EXCEPT ![e].others = @ \ {t}]
  /\ UNCHANGED <<templateEdits, skewed>>

EditDone(e) ==
  /\ editor[e].pc = "disable" /\ editor[e].others = {}
  /\ editor' = [editor EXCEPT ![e] = Away]
  /\ UNCHANGED <<templates, templateEdits, skewed>>

(* A statement fails, as an update of a row that is gone does. *)
EditFails(e) ==
  /\ editor[e].pc # "away"
  /\ editor' = [editor EXCEPT ![e] = Away]
  /\ skewed' = (skewed \/ editor[e].pc # "read")
  /\ UNCHANGED <<templates, templateEdits>>

DeleteTemplate(t) ==
  /\ templateEdits < MaxTemplateEdits /\ templateEdits' = templateEdits + 1
  /\ t \in Kept \ Builtin
  /\ templates' = [templates EXCEPT ![t] = Gone]
  /\ UNCHANGED <<editor, skewed>>

-----------------------------------------------------------------------------
(* serve_subscription for a format.  A template that the request names is  *)
(* taken whatever its format; this is one that names none.                 *)

(* find_template_for_format: the first of them *)
Found(format) == IF Enabled(format) = {} THEN {Gone} ELSE {templates[t] : t \in Enabled(format)}

(* What is answered, and made with which template: without one it is base64 *)
Answers(format) ==
  UNION {IF used # Gone THEN {[target |-> format, used |-> used]}
         ELSE {[target |-> "base64", used |-> other] : other \in Found("base64")} :
         used \in Found(format)}
Served(format) == \A a \in Answers(format) : a.target = format /\ a.used # Gone

-----------------------------------------------------------------------------
TemplateNext ==
  \/ \E e \in Editor :
       \/ \E t \in Template : \/ \E f \in StoredFormat : CreateTemplate(e, t, f)
                              \/ ReadTemplate(e, t) \/ DisableOther(e, t)
       \/ \E f \in {{}} \union {{x} : x \in StoredFormat}, on \in {{}, {TRUE}, {FALSE}} :
            WriteTemplate(e, f, on)
       \/ FindOthers(e) \/ EditDone(e) \/ EditFails(e)
  \/ \E t \in Template : DeleteTemplate(t)

TemplateSpec == TemplateInit /\ [][TemplateNext]_templateVars

(* Properties                                                              *)

\* template.rs:205 "Ensure at most one template per format is enabled": it is so
\* whenever no handler is at work, however the handlers interleave, unless one
\* failed half-way or enforced the uniqueness of a row another one had changed.
EnabledOnce ==
  (\A e \in Editor : editor[e].pc = "away") /\ ~skewed =>
    \A f \in StoredFormat : \A t, u \in Enabled(f) : t = u

\* A format is left without an enabled template, and its subscriptions are answered
\* in base64 (access.rs:75-89), by edits that say so alone: a deletion, or a write
\* that posts `is_enabled: false` or another format.  An edit that enables a
\* template never has that effect, for the row is written before the others are
\* disabled, unless another handler has changed the row meanwhile (two that enable
\* a template each may disable the other's) or has moved one of the others.
NoGap ==
  [][\A f \in StoredFormat : Served(f) /\ ~Served(f)' =>
       \/ \E t \in Template : DeleteTemplate(t)
       \/ \E e \in Editor : editor[e].pc = "read" /\ editor'[e].says
       \/ \E e \in Editor, t \in Template :
            DisableOther(e, t) /\ (templates[editor[e].id] # editor[e].row \/ editor[e].row.format # f)
     ]_templateVars
=============================================================================
