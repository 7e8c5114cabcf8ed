------------------------------ MODULE EventBus ------------------------------
(***************************************************************************)
(* The daemon's in-process event bus (internal/eventbus/bus.go): one       *)
(* bounded channel per subscriber, a bounded history, and a publisher that *)
(* never blocks.  Every operation runs under the bus lock, so each is one  *)
(* step.  An event is kept with its place in the order of publication.     *)
(*                                                                         *)
(* The operators take a bus and return the bus after the call, so that a   *)
(* component can publish as part of a larger step of its own.              *)
(***************************************************************************)
EXTENDS Naturals, Sequences, SequencesExt

CONSTANTS
    Subscribers,  \* whoever calls Subscribe
    BufferN,      \* events a subscriber's channel holds
    HistoryN      \* events Recent can return

ASSUME BusAssumption == BufferN \in Nat \ {0} /\ HistoryN \in Nat \ {0}

VARIABLE bus

\* A channel: not yet subscribed, registered, or closed (what it buffers can
\* still be received).  `lost' records that Publish found it full once.
Unsubscribed == [state |-> "none", buf |-> <<>>, lost |-> FALSE]

NewBus == [count |-> 0, history |-> <<>>,
           chan |-> [c \in Subscribers |-> Unsubscribed]]

LastOf(s, n) == SubSeq(s, Len(s) - n + 1, Len(s))

\* Publish: the oldest of a full history makes room; a
\* full channel drops the event, so publishers cannot deadlock.
Published(b, event) ==
    LET item == [n |-> b.count + 1, event |-> event]
        kept == Append(b.history, item)
        Offer(ch) == IF ch.state # "open" THEN ch
                     ELSE IF Len(ch.buf) < BufferN
                          THEN [ch EXCEPT !.buf = Append(@, item)]
                          ELSE [ch EXCEPT !.lost = TRUE]
    IN  [b EXCEPT !.count = @ + 1,
                  !.history = IF Len(kept) > HistoryN THEN LastOf(kept, HistoryN) ELSE kept,
                  !.chan = [c \in Subscribers |-> Offer(@[c])]]

\* Subscribe (no one calls Close on the bus, so that it is never closed).
Subscribed(b, c) == [b EXCEPT !.chan[c] = [Unsubscribed EXCEPT !.state = "open"]]

\* The unregister function, or the end of the subscriber's context.
Unregistered(b, c) ==
    [b EXCEPT !.chan[c].state = IF @ = "open" THEN "closed" ELSE @]

\* The first buffered event; a closed channel still hands out what it holds.
Received(b, c) == Head(b.chan[c].buf).event
Rest(b, c) == [b EXCEPT !.chan[c].buf = Tail(@)]
Pending(b, c) == b.chan[c].buf # <<>>

\* Recent: the whole history, or its last `limit' events.
Recent(b, limit) ==
    IF limit > 0 /\ limit < Len(b.history) THEN LastOf(b.history, limit) ELSE b.history

Consecutive(s) == \A i \in 1 .. Len(s) - 1 : s[i + 1].n = s[i].n + 1

\* What a reader may rely on: Recent answers with the latest events, in order and
\* with no gap, and a subscriber that has kept up has a gapless tail of
\* the publication order in its channel.
BusIsFaithful ==
    /\ \A limit \in 0 .. HistoryN :
          LET recent == Recent(bus, limit)
          IN  /\ Consecutive(recent)
              /\ recent # <<>> => Last(recent).n = bus.count
              /\ Len(recent) = (IF limit = 0 \/ limit > Len(bus.history) THEN Len(bus.history) ELSE limit)
              /\ Len(bus.history) = (IF bus.count < HistoryN THEN bus.count ELSE HistoryN)
    /\ \A c \in Subscribers :
          LET ch == bus.chan[c]
          IN  ~ch.lost => /\ Consecutive(ch.buf)
                          /\ ch.state = "open" /\ ch.buf # <<>> => Last(ch.buf).n = bus.count
=============================================================================
