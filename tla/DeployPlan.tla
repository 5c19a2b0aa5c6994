------------------------------ MODULE DeployPlan ------------------------------
(* The algo builder's draft, the definitions it saves, and the plan of orders   *)
(* the algo manager shows for the rows it has staged: the studies it asks the   *)
(* gateway for, the advisory pack it falls back on, and the orders layered away *)
(* from the bands. Prices are half ticks, so that bands may lie between ticks.  *)
EXTENDS Terminal, Integers, FiniteSets, SequencesExt

CONSTANTS Spreads,      \* products
          PlanIds,      \* identities of definitions
          Windows,      \* lookbacks the builder's field can hold, None for an empty one
          MaxLookback,  \* 2000 in the code
          MaxDraftEdits, MaxStagings \* bounds on what the operator does

VARIABLES draft,             \* [good, lookback, layers, spacing, buy, sell] of the builder
          library,           \* per identity a definition, a draft with its side, or None
          staging,           \* identities of the staged rows
          askedFor,          \* keys the effect asked for last
          asked,             \* calls under way, each the set of keys it asks for
          studiesHeld,       \* answers held, [key, ok, lower, upper]
          pack,              \* per product the pack's statistic, [lookback, lower, upper] or None
          touched, stagings  \* how often the draft was edited; rows staged or dropped
planVars == <<draft, library, staging, askedFor, asked, studiesHeld, pack, touched, stagings>>

\* External: the bands a study of a product has over a lookback.
LowerOf(good, lookback) == 20 - lookback
UpperOf(good, lookback) == 20 + lookback

NewDraft(good) == [good |-> good, lookback |-> None, layers |-> 3, spacing |-> 2,
                   buy |-> TRUE, sell |-> TRUE]
SavedSide(d) == IF d.buy = d.sell THEN "both" ELSE IF d.buy THEN "bid" ELSE "offer"
SavedAlgo(d) == [good |-> d.good, lookback |-> d.lookback, layers |-> d.layers,
             spacing |-> d.spacing, buy |-> d.buy, sell |-> d.sell, side |-> SavedSide(d)]

(* A lookback is a whole number from 2 up; more than the most is the most.     *)
Lookback(w) == IF w = None THEN None ELSE IF w < 2 THEN None ELSE Lesser(MaxLookback, w)

\* Mutant: the answers are kept by product.
KeyOfGood(algo) == [good |-> algo.good, lookback |-> 2]

(* algoRegressionStudyRequest: the study of a definition, by which it is kept. *)
StudyKey(algo) == [good |-> algo.good, lookback |-> Lookback(algo.lookback)]
StagedAlgos(lib, rows) == {lib[id] : id \in {i \in rows : lib[i] # None}}
StudyKeys(lib, rows) == {StudyKey(a) : a \in {b \in StagedAlgos(lib, rows) : Lookback(b.lookback) # None}}

(* resolveAlgoSendBands: the answer for the key, or else the pack's bands when  *)
(* they are over the lookback asked for.                                       *)
NoBands == [made |-> None, lower |-> None, upper |-> None]
PackBands(stat, lookback) ==
    IF stat = None THEN NoBands
    ELSE IF stat.lookback # lookback THEN NoBands
    ELSE [made |-> stat.lookback, lower |-> stat.lower, upper |-> stat.upper]
SendBands(algo) ==
    LET held == {s \in studiesHeld : s.key = StudyKey(algo) /\ s.ok}
    IN IF held # {}
       THEN LET s == CHOOSE x \in held : TRUE
            IN [made |-> s.made, lower |-> s.lower, upper |-> s.upper]
       ELSE PackBands(pack[algo.good], Lookback(algo.lookback))

(* buildAlgoDeploymentOrders.                                                  *)
Tick(half) == (half + 1) \div 2
Sides(algo) == {s \in {"bid", "offer"} : /\ algo.side \in {"both", s}
                                         /\ IF s = "bid" THEN algo.buy ELSE algo.sell}
Away(side, band, offset) == Tick(IF side = "bid" THEN band.lower - 2 * offset
                                                 ELSE band.upper + 2 * offset)
Orders(algo, band) ==
    IF band.lower = None THEN {}
    ELSE {[side |-> s, layer |-> n + 1, price |-> Away(s, band, n * algo.spacing)] :
             s \in Sides(algo), n \in 0 .. ClampLow(algo.layers, 1, 100) - 1}
Plan(algo) ==
    IF Lookback(algo.lookback) = None THEN [orders |-> {}, missing |-> {"lookback"}, made |-> None]
    ELSE LET band == SendBands(algo)
         IN [orders |-> Orders(algo, band), made |-> band.made,
             missing |-> IF band.lower = None THEN Sides(algo) ELSE {}]

PlanInit ==
    /\ \E g \in Spreads : draft = NewDraft(g)
    /\ library = [id \in PlanIds |-> None] /\ staging = {}
    /\ askedFor = {} /\ asked = <<>> /\ studiesHeld = {}
    /\ pack = [g \in Spreads |-> None] /\ touched = 0 /\ stagings = 0

(* The effect over the studies of the staged rows. It runs when their keys have *)
(* changed, and gives up the call under way.                                   *)
GivenUp(calls) == <<>>
AskForStudies ==
    LET keys == StudyKeys(library', staging')
    IN /\ askedFor' = keys
       /\ IF keys = askedFor THEN UNCHANGED <<asked, studiesHeld>>
          ELSE /\ asked' = IF keys = {} THEN GivenUp(asked) ELSE Append(GivenUp(asked), keys)
               /\ studiesHeld' = IF keys = {} THEN {} ELSE studiesHeld
StudyAnswer(key, ok) == [key |-> key, ok |-> ok, made |-> key.lookback,
                    lower |-> LowerOf(key.good, key.lookback), upper |-> UpperOf(key.good, key.lookback)]
StudiesAnswer(n) ==
    /\ n \in DOMAIN asked /\ asked' = RemoveAt(asked, n)
    /\ \E failed \in SUBSET asked[n] : studiesHeld' = {StudyAnswer(k, k \notin failed) : k \in asked[n]}
    /\ UNCHANGED <<draft, library, staging, askedFor, pack, touched, stagings>>
PackPublished(g, w) ==
    /\ pack' = [pack EXCEPT ![g] = [lookback |-> w, lower |-> LowerOf(g, w), upper |-> UpperOf(g, w)]]
    /\ UNCHANGED <<draft, library, staging, askedFor, asked, studiesHeld, touched, stagings>>

(* The builder. A draft follows the product of its window, and a definition    *)
(* that is saved leaves a new draft behind.                                    *)
Touch(d) == /\ touched < MaxDraftEdits /\ touched' = touched + 1 /\ draft' = d
            /\ UNCHANGED <<library, staging, askedFor, asked, studiesHeld, pack, stagings>>
SwitchProduct(g) == g # draft.good /\ Touch([draft EXCEPT !.good = g])
UpdateEntryPeg(w) == Touch([draft EXCEPT !.lookback = w])
UpdateLayerPlan(layers, spacing) == Touch([draft EXCEPT !.layers = layers, !.spacing = spacing])
UpdateSides(buy, sell) == Touch([draft EXCEPT !.buy = buy, !.sell = sell])
SaveDraftAs(id) ==
    /\ library[id] = None
    /\ library' = [library EXCEPT ![id] = SavedAlgo(draft)]
    /\ draft' = NewDraft(draft.good)
    /\ UNCHANGED <<staging, pack, touched, stagings>> /\ AskForStudies

(* The manager stages rows, definitions leave the library, and the staging is  *)
(* cleared with Clear and with Kill All.                                       *)
StageRow(id) == /\ library[id] # None /\ id \notin staging /\ stagings < MaxStagings
                /\ staging' = staging \cup {id} /\ stagings' = stagings + 1
                /\ UNCHANGED <<draft, library, pack, touched>> /\ AskForStudies
DropAlgo(id) == /\ library[id] # None /\ library' = [library EXCEPT ![id] = None]
                /\ stagings < MaxStagings /\ stagings' = stagings + 1
                /\ UNCHANGED <<draft, staging, pack, touched>> /\ AskForStudies
ClearRows == /\ staging # {} /\ staging' = {}
             /\ UNCHANGED <<draft, library, pack, touched, stagings>> /\ AskForStudies

PlanNext ==
    \/ \E g \in Spreads : SwitchProduct(g) \/ \E w \in {2, 3} : PackPublished(g, w)
    \/ \E w \in Windows : UpdateEntryPeg(w)
    \/ \E layers \in {0, 2}, spacing \in {-20, 0, 1} : UpdateLayerPlan(layers, spacing)
    \/ \E buy, sell \in BOOLEAN : UpdateSides(buy, sell)
    \/ \E id \in PlanIds : SaveDraftAs(id) \/ StageRow(id) \/ DropAlgo(id)
    \/ ClearRows
    \/ \E n \in DOMAIN asked : StudiesAnswer(n)
StudiesReturned == \E n \in DOMAIN asked : StudiesAnswer(n)
PlanSpec == PlanInit /\ [][PlanNext]_planVars /\ WF_planVars(StudiesReturned)

\* The bands a row's orders are layered from were computed over the lookback of that
\* definition and of no other staged, saved or published one; and orders that are
\* planned never meet each other unless the spacing is negative, which its field
\* takes: every bid is below every offer, a layer further out never nearer.
PlanOfTheAlgo ==
    \A a \in StagedAlgos(library, staging) :
        LET p == Plan(a)
        IN /\ p.orders # {} => p.made = Lookback(a.lookback)
           /\ a.spacing >= 0 => \A o, q \in p.orders :
                /\ o.side = "bid" /\ q.side = "offer" => o.price < q.price
                /\ o.side = q.side /\ o.layer < q.layer =>
                     IF o.side = "bid" THEN o.price >= q.price ELSE o.price <= q.price
           /\ p.orders # {} => p.missing = {}

\* Whatever is staged and dropped while calls are under way, in the end every staged
\* row that names a lookback has the answer for its own study.
StudiesArrive ==
    <>[](\A a \in StagedAlgos(library, staging) :
            Lookback(a.lookback) # None => \E s \in studiesHeld : s.key = StudyKey(a))
=============================================================================
