----------------------------- MODULE MCAlgoCover -----------------------------
(***************************************************************************)
(* Small instances of AlgoCover for TLC.  One algo entry buys two at tick  *)
(* 2 with a cover one tick from its fill; the manual orders sell one each  *)
(* at tick 2.                                                              *)
(***************************************************************************)
EXTENDS AlgoCover

CONSTANTS E, M, N, ES

\* In half ticks; a cover that follows no price is made at tick 1.
MCPrices == {2, 4, 6}

MCIds == {E, M, N} \cup {CoverId(E, ms) : ms \in 0..MaxClock}

Entry == [id |-> E, sym |-> ES, side |-> "buy", type |-> "limit", tif |-> "day", px |-> 4, qty |-> 2]
Manual(id) == [Entry EXCEPT !.id = id, !.side = "sell", !.qty = 1]

MCEntries == {Entry}

Send(c) == [op |-> "send", cmd |-> c]

EntryJob == [kind |-> "order", todo |-> <<Send(Entry)>>]

\* A deploy sends its orders one after the other.
DeployJob == [kind |-> "order", todo |-> <<Send(Entry), Send(Manual(N))>>]
CancelJob == [kind |-> "cancel", todo |-> <<[op |-> "cancel", id |-> E]>>]
SessionJob == [kind |-> "session", todo |-> <<[op |-> "reset"]>>]
TickJob == [kind |-> "tick",
            todo |-> <<[op |-> "market",
                        tick |-> [sym |-> ES, bid |-> None, ask |-> None, last |-> 4]]>>]

MCSessionJobs == {DeployJob, TickJob, SessionJob}
MCReturnJobs == {EntryJob, CancelJob, TickJob}
MCFillJobs == {EntryJob, TickJob}
=============================================================================
