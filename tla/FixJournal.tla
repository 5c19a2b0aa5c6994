------------------------------ MODULE FixJournal ------------------------------
(***************************************************************************)
(* The FIX engine's journal (native/fix-engine-cpp/src/fix_journal.hpp): a *)
(* line on stdout and a place in a ring, written one after the other under *)
(* two mutexes by the threads of the HTTP pool, and read by GET /journal.  *)
(* Entries are numbered as their writers begin.                            *)
(***************************************************************************)
EXTENDS Naturals, Sequences

CONSTANTS Writers, Capacity, MaxEntries

ASSUME FixJournalAssumption == Capacity \in Nat \ {0} /\ MaxEntries \in Nat

VARIABLES
  appending,   \* writer -> the entry it appends and how far it is
  printed,     \* the lines of stdout
  ring,        \* ring_
  writePos,    \* write_pos_
  ringSize,    \* size_
  kept,        \* every entry in the order it was put into the ring
  listed,      \* the last answer of GET /journal, with its limit
  begun        \* entries begun

journalVars == <<appending, printed, ring, writePos, ringSize, kept, listed, begun>>

NoEntry == 0
Resting == [entry |-> NoEntry, printed |-> FALSE]

JournalInit ==
  /\ appending = [w \in Writers |-> Resting]
  /\ printed = <<>> /\ kept = <<>>
  /\ ring = [i \in 0 .. Capacity - 1 |-> NoEntry] /\ writePos = 0 /\ ringSize = 0
  /\ listed = [limit |-> 1, entries |-> <<>>]
  /\ begun = 0

\* append is called.
BeginAppend(w) ==
  /\ appending[w].entry = NoEntry /\ begun < MaxEntries
  /\ begun' = begun + 1
  /\ appending' = [appending EXCEPT ![w] = [entry |-> begun + 1, printed |-> FALSE]]
  /\ UNCHANGED <<printed, ring, writePos, ringSize, kept, listed>>

\* The line, under stdout_mutex_.
PrintLine(w) ==
  /\ appending[w].entry # NoEntry /\ ~appending[w].printed
  /\ printed' = Append(printed, appending[w].entry)
  /\ appending' = [appending EXCEPT ![w].printed = TRUE]
  /\ UNCHANGED <<ring, writePos, ringSize, kept, listed, begun>>

\* Mutant: the entry is stored before its line is printed.
StoreEntryFirst(w) ==
  /\ appending[w].entry # NoEntry
  /\ ring' = [ring EXCEPT ![writePos % Capacity] = appending[w].entry]
  /\ writePos' = writePos + 1
  /\ ringSize' = IF ringSize < Capacity THEN ringSize + 1 ELSE ringSize
  /\ kept' = Append(kept, appending[w].entry)
  /\ appending' = [appending EXCEPT ![w] = Resting]
  /\ UNCHANGED <<printed, listed, begun>>

\* The place in the ring, under ring_mutex_.
StoreEntry(w) ==
  /\ appending[w].printed
  /\ ring' = [ring EXCEPT ![writePos % Capacity] = appending[w].entry]
  /\ writePos' = writePos + 1
  /\ ringSize' = IF ringSize < Capacity THEN ringSize + 1 ELSE ringSize
  /\ kept' = Append(kept, appending[w].entry)
  /\ appending' = [appending EXCEPT ![w] = Resting]
  /\ UNCHANGED <<printed, listed, begun>>

\* recent: the newest entries, the newest last.
Recent(limit) ==
  LET count == IF limit < ringSize THEN limit ELSE ringSize
      start == (writePos - count + 2 * Capacity) % Capacity
  IN [i \in 1 .. count |-> ring[(start + i - 1) % Capacity]]

\* GET /journal, which keeps its limit between one and the capacity.
ListRecent(limit) ==
  /\ listed' = [limit |-> limit, entries |-> Recent(limit)]
  /\ UNCHANGED <<appending, printed, ring, writePos, ringSize, kept, begun>>

JournalNext ==
  \/ \E w \in Writers : BeginAppend(w) \/ PrintLine(w) \/ StoreEntry(w)
  \/ \E limit \in 1 .. Capacity : ListRecent(limit)

JournalSpec == JournalInit /\ [][JournalNext]_journalVars
-----------------------------------------------------------------------------
Lines == {printed[i] : i \in DOMAIN printed}

\* What a reader gets is the end of what was stored, in that order, whatever the
\* ring has overwritten (fix_journal.hpp:152-176).
ListedIsTheTail ==
  \A limit \in 1 .. Capacity :
    LET count == IF limit < Len(kept) THEN limit ELSE Len(kept)
    IN Recent(limit) = SubSeq(kept, Len(kept) - count + 1, Len(kept))

\* An entry a reader was given is on stdout already (fix_journal.hpp:143-158).
ListedIsPrinted == \A i \in DOMAIN listed.entries : listed.entries[i] \in Lines

\* A reader of the journal gets the newest of what was stored, in that order, and
\* nothing that is not on stdout, although writers take one mutex to print and another
\* to store (fix_journal.hpp:143-176).
ListedIsWhatWasPrinted == ListedIsTheTail /\ ListedIsPrinted

=============================================================================
