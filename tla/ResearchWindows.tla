---------------------------- MODULE ResearchWindows ----------------------------
(* Two parts of the research windows: the signals of spreads, and the registry of *)
(* model variants.                                                                *)
EXTENDS Terminal, SequencesExt, Integers, FiniteSets

(* The spread windows: what the gateway's advisory study says of each spread, as  *)
(* every window polled it for itself, set against the live market of the store.   *)

CONSTANTS Pairs,             \* spreads of the configuration list
          PublishedStudies,  \* what the gateway may publish of a spread: a set of study rows
          PairPrices,        \* prices of books and trades
          MaxPublished, MaxPairTicks \* bounds on the publications and on the market's steps

VARIABLES published,    \* the gateway's advisory snapshot: a study or None for each spread
          advice,       \* the payload each window holds, None before its first answer
          pairBook,     \* store: the last price of a spread's book, None without a book
          pairTick,     \* store: its latest trade, None without one
          publications, pairTicks
spreadVars == <<published, advice, pairBook, pairTick, publications, pairTicks>>

SpreadWindows == {"signals", "configurations"}
NoStudies == [p \in Pairs |-> None]

(* Scores are fractions of an ATR, [n, d] with d > 0; k counts halves.            *)
AtMostHalves(score, k) == 2 * score.n <= k * score.d
AtLeastHalves(score, k) == 2 * score.n >= k * score.d
Level == [n |-> 0, d |-> 1]

\* Mutant: the tone turns at two instead of one and a half.
ToneAtTwo(score) == IF AtMostHalves(score, -4) THEN "buy" ELSE IF AtLeastHalves(score, 4) THEN "sell"
                    ELSE IF AtMostHalves(score, -2) \/ AtLeastHalves(score, 2) THEN "watch" ELSE "neutral"

(* spreadTone, without a bias of its own, and spreadSignalFromZ.                  *)
SpreadTone(score) == IF AtMostHalves(score, -3) THEN "buy" ELSE IF AtLeastHalves(score, 3) THEN "sell"
                     ELSE IF AtMostHalves(score, -2) \/ AtLeastHalves(score, 2) THEN "watch" ELSE "neutral"
SpreadSignal(score) ==
    CASE AtMostHalves(score, -3) -> "Buy spread setup"
      [] AtLeastHalves(score, 3) -> "Sell spread setup"
      [] AtMostHalves(score, -2) -> "Cheap watch"
      [] AtLeastHalves(score, 2) -> "Rich watch"
      [] OTHER -> "wait"

(* liveSpreadLocation: where a price lies in its study, from the day's basis in   *)
(* half ATRs. A study without an ATR has only the score the gateway gave it.      *)
DayScore(study, last) == IF study.atr = 0 THEN study.score
                         ELSE [n |-> 2 * (last - study.basis), d |-> study.atr]
\* What stands in for the study of a spread that has none.
Flat(last) == [last |-> last, basis |-> last, atr |-> 0, score |-> Level]

(* liveSpreadLast: the book before the latest trade before the study's own price. *)
FirstKnown(options) == LET known == SelectSeq(options, LAMBDA v : v # None)
                       IN IF known = <<>> THEN 0 ELSE known[1]
LastOfPair(pair, study) ==
    IF study = None THEN FirstKnown(<<pairBook[pair], 0>>)
    ELSE FirstKnown(<<pairBook[pair], pairTick[pair], study.last>>)

(* A row of the signals window keeps to the study it polled; a row of the         *)
(* configurations window is set against the live market.                          *)
StudyIn(window, pair) == IF advice[window] = None THEN None ELSE advice[window][pair]
ScoreIn(window, pair) ==
    LET study == StudyIn(window, pair) IN
    IF window = "signals" THEN DayScore(study, study.last)
    ELSE LET last == LastOfPair(pair, study) IN DayScore(IF study = None THEN Flat(last) ELSE study, last)
RowsIn(window) == IF window = "configurations" THEN Pairs ELSE {p \in Pairs : StudyIn(window, p) # None}
Row(window, pair) == LET score == ScoreIn(window, pair) IN
    [tone |-> SpreadTone(score), signal |-> SpreadSignal(score),
     isLive |-> pairBook[pair] # None \/ pairTick[pair] # None \/ StudyIn(window, pair) # None]

SpreadInit == /\ published = NoStudies /\ advice = [w \in SpreadWindows |-> None]
              /\ pairBook = NoStudies /\ pairTick = NoStudies /\ publications = 0 /\ pairTicks = 0
PublishStudies == /\ publications < MaxPublished /\ publications' = publications + 1
                  /\ \E p \in Pairs, s \in PublishedStudies : published' = [published EXCEPT ![p] = s]
                  /\ UNCHANGED <<advice, pairBook, pairTick, pairTicks>>
(* A pull that fails keeps what the window had.                                   *)
PullAdvice(window) == /\ advice' = [advice EXCEPT ![window] = published]
                      /\ UNCHANGED <<published, pairBook, pairTick, publications, pairTicks>>
MarketOfPair == /\ pairTicks < MaxPairTicks /\ pairTicks' = pairTicks + 1
                /\ \E p \in Pairs, v \in PairPrices :
                      \/ pairBook' = [pairBook EXCEPT ![p] = v] /\ UNCHANGED pairTick
                      \/ pairTick' = [pairTick EXCEPT ![p] = v] /\ UNCHANGED pairBook
                /\ UNCHANGED <<published, advice, publications>>
SpreadNext == PublishStudies \/ MarketOfPair \/ \E w \in SpreadWindows : PullAdvice(w)
SpreadSpec == SpreadInit /\ [][SpreadNext]_spreadVars

Speaks == [x \in {"Buy spread setup", "Sell spread setup", "Cheap watch", "Rich watch", "wait"} |->
            CASE x = "Buy spread setup" -> "buy" [] x = "Sell spread setup" -> "sell"
              [] x \in {"Cheap watch", "Rich watch"} -> "watch" [] OTHER -> "neutral"]

\* The colour of a row and its words give one advice, whichever study it was polled
\* with and wherever the market has gone since.
RowSpeaksOnce == \A w \in SpreadWindows : \A p \in RowsIn(w) :
                    Row(w, p).tone = Speaks[Row(w, p).signal]

\* A spread the gateway has no study of, or one without an ATR and without a score,
\* is never advised: its price alone makes neither a buy nor a sell.
NoAdviceWithoutStudy ==
    \A w \in SpreadWindows : \A p \in RowsIn(w) :
        LET study == StudyIn(w, p) IN
        study = None \/ (study.atr = 0 /\ study.score = Level) => Row(w, p).tone = "neutral"

-----------------------------------------------------------------------------

(* The model-variant registry of the research window: a library of variants, the *)
(* one last worked on and one left by an older version, all in localStorage, and  *)
(* the draft and the library the window holds.                                    *)

CONSTANTS Spellings,       \* names and versions as they are typed
          Folded,          \* what modelVariantKey makes of each: trimmed, in lower case
          Texts,           \* the other fields of a variant
          OldCurrents, OldLegacies, \* what older versions may have stored: None or a variant
          MaxVariantSaves  \* bound on the savings, and the clock that stamps them

Variants == [name : Spellings, text : Texts \cup {None}, at : Nat]
ASSUME VariantAssumption ==
    /\ Spellings # {} /\ None \notin Variants
    /\ OldCurrents \subseteq Variants \cup {None} /\ OldLegacies \subseteq Variants \cup {None}

VARIABLES stores,  \* localStorage: library, current, legacy
          desk,    \* the window: its draft, its library, the key selected
          variantSaves, lastSaved, \* history: the text last saved under a key, None once deleted
          deleted  \* history: keys deleted and not saved again
variantVars == <<stores, desk, variantSaves, lastSaved, deleted>>

VKey(variant) == Folded[variant.name]
VariantKeys == {Folded[n] : n \in Spellings}
DefaultVariant == [name |-> CHOOSE n \in Spellings : TRUE, text |-> None, at |-> 0]
OfKey(library, key) == {v \in Range(library) : VKey(v) = key}
At(library, key) == Without(library, Range(library) \ OfKey(library, key))
DropKey(library, key) == Without(library, OfKey(library, key))

(* upsertModelVariantLibrary: the newest saving first, one variant of a key; the   *)
(* library it is given was sorted by it before.                                   *)
Upserted(library, next) ==
    LET rest == DropKey(library, VKey(next))
        newer == {v \in Range(rest) : v.at > next.at}
    IN Without(rest, Range(rest) \ newer) \o <<next>> \o Without(rest, newer)
With(library, variant) == IF variant = None THEN library ELSE Upserted(library, variant)
LibraryOf(disk) == With(With(disk.library, disk.current), disk.legacy)
DraftOf(disk) == IF disk.current # None THEN disk.current
                 ELSE FirstOf(LibraryOf(disk) \o <<DefaultVariant>>, 1)[1]
Opened(disk) == [draft |-> DraftOf(disk), library |-> LibraryOf(disk),
                 selected |-> IF DraftOf(disk).at > 0 THEN VKey(DraftOf(disk)) ELSE None]

Reopen == desk' = Opened(stores) /\ UNCHANGED <<stores, variantSaves, lastSaved, deleted>>
UpdateDraft == /\ \/ \E n \in Spellings : desk' = [desk EXCEPT !.draft.name = n, !.selected = None]
                  \/ \E t \in Texts : desk' = [desk EXCEPT !.draft.text = t, !.selected = None]
               /\ UNCHANGED <<stores, variantSaves, lastSaved, deleted>>
LoadVariant(key) ==
    /\ LET found == At(desk.library, key) IN
       IF found = <<>> THEN desk' = [desk EXCEPT !.selected = key] /\ UNCHANGED stores
       ELSE /\ desk' = [desk EXCEPT !.selected = key, !.draft = found[1]]
            /\ stores' = [stores EXCEPT !.current = found[1]]
    /\ UNCHANGED <<variantSaves, lastSaved, deleted>>
SaveVariant ==
    /\ variantSaves < MaxVariantSaves /\ variantSaves' = variantSaves + 1
    /\ LET next == [desk.draft EXCEPT !.at = variantSaves'] IN
       /\ desk' = [draft |-> next, library |-> Upserted(desk.library, next), selected |-> VKey(next)]
       /\ stores' = [stores EXCEPT !.library = Upserted(desk.library, next), !.current = next]
       /\ lastSaved' = [lastSaved EXCEPT ![VKey(next)] = next.text] /\ deleted' = deleted \ {VKey(next)}

\* Mutant: the variant last worked on stays where it is stored.
DeleteKeptCurrent ==
    /\ desk.selected # None
    /\ LET rest == DropKey(desk.library, desk.selected) IN
       /\ stores' = [stores EXCEPT !.library = rest, !.legacy = None]
       /\ desk' = [desk EXCEPT !.library = rest, !.selected = None, !.draft = DefaultVariant]
    /\ lastSaved' = [lastSaved EXCEPT ![desk.selected] = None] /\ deleted' = deleted \cup {desk.selected}
    /\ UNCHANGED variantSaves

DeleteVariant ==
    /\ desk.selected # None
    /\ LET rest == DropKey(desk.library, desk.selected)
           found == At(desk.library, desk.selected) # <<>> IN
       /\ stores' = [library |-> rest, current |-> None, legacy |-> IF found THEN None ELSE stores.legacy]
       /\ desk' = [library |-> rest, selected |-> None,
                   draft |-> IF found /\ VKey(desk.draft) = desk.selected THEN DefaultVariant ELSE desk.draft]
    /\ lastSaved' = [lastSaved EXCEPT ![desk.selected] = None] /\ deleted' = deleted \cup {desk.selected}
    /\ UNCHANGED variantSaves
ClearDraft == /\ stores' = [stores EXCEPT !.current = None]
              /\ desk' = [desk EXCEPT !.draft = DefaultVariant, !.selected = None]
              /\ UNCHANGED <<variantSaves, lastSaved, deleted>>

VariantsInit ==
    /\ \E v \in OldCurrents, w \in OldLegacies : stores = [library |-> <<>>, current |-> v, legacy |-> w]
    /\ desk = Opened(stores) /\ variantSaves = 0
    /\ lastSaved = [k \in VariantKeys |-> None] /\ deleted = {}
VariantsNext == \/ Reopen \/ UpdateDraft \/ SaveVariant \/ DeleteVariant \/ ClearDraft
                \/ \E k \in VariantKeys : LoadVariant(k)
VariantsSpec == VariantsInit /\ [][VariantsNext]_variantVars

IsFound(k) == LET found == At(LibraryOf(stores), k) IN Len(found) = 1 /\ found[1].text = lastSaved[k]

\* A variant that was saved is there with its last text when the window is opened
\* again, once, however its name was spelled since and whatever was loaded, cleared
\* or deleted besides. A name the oldest version had stored too is left out.
SavedVariantStays ==
    \A k \in VariantKeys \ {VKey(v) : v \in OldLegacies \ {None}} : lastSaved[k] # None => IsFound(k)

\* A deleted variant does not come back from any of the three places it was stored.
DeletedStaysDeleted == \A k \in deleted : At(LibraryOf(stores), k) = <<>>
=============================================================================
