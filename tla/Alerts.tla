-------------------------------- MODULE Alerts --------------------------------
(* The alert window: rules over the last price or over the fills of a product,  *)
(* an effect that judges all of them whenever rules, ticks or fills have        *)
(* changed, and the deliveries it starts, of which some answer later. The       *)
(* window keeps which rule is armed only as long as it is open.                 *)
EXTENDS Terminal, Integers

CONSTANTS AlertIds,     \* identities of rules
          Wares,        \* products
          DefaultWare,  \* the product of a rule whose own is not listed
          Quotes,       \* prices
          MaxFills,     \* bound on the fills of a product
          MaxEdits      \* bound on the changes of rules, listing and window

VARIABLES rules, used,      \* the rules there are, per identity one or None; identities given so far
          listed,           \* products of the listing
          lastPrice, fillCount, \* per product, the last price and the number of fills
          alertsOpen, due,  \* the window is open; something changed since the effect ran
          armedRule, config, fired, \* refs of the window, per rule
          outgoing,         \* rules whose delivery is awaited
          announced,        \* history: the rules the last run of the effect announced
          seen,             \* history: per rule what the last run judged, or None
          edits
alertVars == <<rules, used, listed, lastPrice, fillCount, alertsOpen, due, armedRule, config, fired,
               outgoing, announced, seen, edits>>

Unset == [id \in AlertIds |-> None]
Lowest == CHOOSE q \in Quotes : \A r \in Quotes : q <= r
RulesOf(wares) == [ware : wares, field : {"last", "fill"}, op : {">=", "<="},
                   value : Quotes, enabled : BOOLEAN]
NewRule == [ware |-> DefaultWare, field |-> "last", op |-> ">=", value |-> Lowest, enabled |-> TRUE]
AlertsInit ==
    /\ \/ rules = Unset /\ used = {}
       \/ \E rule \in RulesOf(Wares), id \in AlertIds : rules = [Unset EXCEPT ![id] = rule] /\ used = {id}
    /\ listed = Wares /\ fillCount = [w \in Wares |-> 0]
    /\ lastPrice = [w \in Wares |-> Lowest]
    /\ alertsOpen = TRUE /\ due = TRUE
    /\ armedRule = Unset /\ config = Unset /\ fired = Unset
    /\ outgoing = {} /\ announced = {} /\ seen = Unset /\ edits = 0

(* readAlert and compare: the product of a rule, and whether its price is hit. *)
WareOf(rule) == IF rule.ware \in listed THEN rule.ware ELSE DefaultWare
Hit(rule) == LET price == lastPrice[WareOf(rule)]
             IN IF rule.op = ">=" THEN price >= rule.value ELSE price <= rule.value
RuleKey(rule) == <<rule.ware, rule.field, rule.op, rule.value>>
FillKey(rule) == <<WareOf(rule), fillCount[WareOf(rule)]>>

\* What the last run found of a rule, the rule as it was then included.
VerdictsOf(of) == [key : {RuleKey(rule) : rule \in of}, on : BOOLEAN, hit : BOOLEAN]
ASSUME AlertsAssumption ==
    /\ DefaultWare \in Wares /\ \E q \in Quotes : \A r \in Quotes : q <= r
    /\ None \notin RulesOf(Wares) \cup VerdictsOf(RulesOf(Wares))
    /\ \A rule \in RulesOf(Wares) : None # RuleKey(rule)

(* The effect, for one rule: what it announces and what it leaves armed.       *)
ArmedOf(id) == IF config[id] = RuleKey(rules[id]) THEN armedRule[id] ELSE TRUE
Announces(id) ==
    /\ rules[id] # None /\ rules[id].enabled
    /\ IF rules[id].field = "fill"
       THEN fillCount[WareOf(rules[id])] > 0 /\ fired[id] # FillKey(rules[id])
       ELSE Hit(rules[id]) /\ ArmedOf(id)

\* Mutant: an alert that has rung stays armed.
ArmedAlways(id) == IF rules[id] = None THEN armedRule[id] ELSE TRUE

ArmedAfter(id) ==
    CASE rules[id] = None -> armedRule[id]
      [] rules[id] # None /\ ~rules[id].enabled -> TRUE
      [] rules[id] # None /\ rules[id].enabled /\ rules[id].field = "fill" -> ArmedOf(id)
      [] OTHER -> ~Hit(rules[id])
FiredAfter(id) == IF Announces(id) /\ rules[id].field = "fill" THEN FillKey(rules[id]) ELSE fired[id]
Judged(id) == IF rules[id] = None THEN None
              ELSE [key |-> RuleKey(rules[id]), on |-> rules[id].enabled, hit |-> Hit(rules[id])]

Market == <<listed, lastPrice, fillCount>>
Refs == <<armedRule, config, fired, announced, seen>>

(* The effect runs once for all that changed since it ran last. Only a sound   *)
(* is delivered at once; the other channels answer later.                      *)
Judge ==
    /\ alertsOpen /\ due /\ due' = FALSE
    /\ announced' = {id \in AlertIds : Announces(id)}
    /\ outgoing' = outgoing \cup announced'
    /\ armedRule' = [id \in AlertIds |-> ArmedAfter(id)]
    /\ config' = [id \in AlertIds |-> IF rules[id] = None THEN config[id] ELSE RuleKey(rules[id])]
    /\ fired' = [id \in AlertIds |-> FiredAfter(id)]
    /\ seen' = [id \in AlertIds |-> Judged(id)]
    /\ UNCHANGED <<rules, used, Market, alertsOpen, edits>>
DeliveryAnswers(id) ==
    /\ id \in outgoing /\ outgoing' = outgoing \ {id}
    /\ UNCHANGED <<rules, used, Market, alertsOpen, due, Refs, edits>>
TestAlert(id) ==
    /\ alertsOpen /\ rules[id] # None /\ outgoing' = outgoing \cup {id}
    /\ UNCHANGED <<rules, used, Market, alertsOpen, due, Refs, edits>>

(* The market and the account move.                                           *)
Trade(w, q) ==
    /\ lastPrice[w] # q /\ lastPrice' = [lastPrice EXCEPT ![w] = q] /\ due' = TRUE
    /\ UNCHANGED <<rules, used, listed, fillCount, alertsOpen, Refs, outgoing, edits>>
FillComes(w) ==
    /\ fillCount[w] < MaxFills /\ fillCount' = [fillCount EXCEPT ![w] = @ + 1] /\ due' = TRUE
    /\ UNCHANGED <<rules, used, listed, lastPrice, alertsOpen, Refs, outgoing, edits>>

(* The operator edits rules, a product leaves the listing, and the window      *)
(* closes, which forgets its refs, and opens.                                   *)
Edited(changed) ==
    /\ edits < MaxEdits /\ edits' = edits + 1
    /\ rules' = changed /\ due' = TRUE
    /\ UNCHANGED <<Market, alertsOpen, Refs, outgoing>>
AddAlert(id) == /\ alertsOpen /\ id \notin used /\ used' = used \cup {id}
                /\ Edited([rules EXCEPT ![id] = NewRule])
EditAlert(id, rule) ==
    /\ alertsOpen /\ rules[id] # None /\ rule.enabled = rules[id].enabled
    /\ rule.ware \in listed \cup {rules[id].ware}
    /\ Edited([rules EXCEPT ![id] = rule]) /\ UNCHANGED used
RemoveAlert(id) == /\ alertsOpen /\ rules[id] # None /\ Edited([rules EXCEPT ![id] = None])
                   /\ UNCHANGED used
Relist(w) ==
    /\ w # DefaultWare /\ edits < MaxEdits /\ edits' = edits + 1
    /\ listed' = IF w \in listed THEN listed \ {w} ELSE listed \cup {w}
    /\ due' = TRUE
    /\ UNCHANGED <<rules, used, lastPrice, fillCount, alertsOpen, Refs, outgoing>>
ToggleAlerts ==
    /\ edits < MaxEdits /\ edits' = edits + 1
    /\ alertsOpen' = ~alertsOpen /\ due' = TRUE
    /\ armedRule' = Unset /\ config' = Unset /\ fired' = Unset
    /\ announced' = {} /\ seen' = Unset
    /\ UNCHANGED <<rules, used, Market, outgoing>>

AlertsNext ==
    \/ Judge \/ ToggleAlerts
    \/ \E id \in AlertIds : AddAlert(id) \/ RemoveAlert(id) \/ TestAlert(id) \/ DeliveryAnswers(id)
    \/ \E id \in AlertIds, rule \in RulesOf(Wares) : EditAlert(id, rule)
    \/ \E w \in Wares : FillComes(w) \/ Relist(w) \/ \E q \in Quotes : Trade(w, q)
AlertsSpec == AlertsInit /\ [][AlertsNext]_alertVars

\* The run before had found the same rule hit.
RangBefore(id) == /\ seen[id] # None /\ seen[id].on /\ seen[id].hit
                  /\ seen[id].key = RuleKey(rules[id])
RingsOnCrossing ==
    due /\ ~due' =>
      \A id \in AlertIds :
        rules[id] # None /\ rules[id].enabled /\ rules[id].field = "last" =>
          (id \in announced' <=> Hit(rules[id]) /\ ~RangBefore(id))

\* A price rule is announced exactly when it comes to be hit: a run of the effect
\* announces it if and only if it is hit now and the run before had not found the
\* same rule hit. Neither ticks that stay beyond the price, nor edits of other
\* rules, nor a fill repeat it, and no crossing a run of the effect sees is missed.
AnnouncedOnCrossing == [][RingsOnCrossing]_alertVars
==============================================================================
