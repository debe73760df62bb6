--------------------------- MODULE AsyncReserver ---------------------------
(***************************************************************************)
(* src/src/common/AsyncReserver.h: a number of slots that items reserve,    *)
(* the item of the highest priority first.  The operators return a record   *)
(* with the reserver and the callbacks it has queued on its Finisher.       *)
(***************************************************************************)
EXTENDS Integers, Sequences, FiniteSets, SequencesExt

\* queue holds what the map of queues holds, the highest priority first and in
\* the order of the requests within a priority
EmptyReserver(max, min) ==
  [max |-> max, min |-> min, queue |-> <<>>, in_progress |-> {}]

Items(s) == {s[i].item : i \in DOMAIN s}

\* request_reservation asserts that the item is neither queued nor reserved
MayRequest(r, item) == item \notin Items(r.queue) \cup r.in_progress

\* do_queues: the slots that are free go to the first of the queue
DoQueues(r) ==
  LET ready == SelectSeq(r.queue, LAMBDA e : e.prio >= r.min)
      free  == r.max - Cardinality(r.in_progress)
      n     == IF free <= 0 THEN 0 ELSE IF free < Len(ready) THEN free ELSE Len(ready)
      go    == SubSeq(ready, 1, n)
  IN  [reserver |-> [r EXCEPT !.queue = SubSeq(@, n + 1, Len(@)),
                              !.in_progress = @ \cup Items(go)],
       callbacks |-> [i \in 1 .. n |-> go[i].callback]]

RequestReservation(r, item, callback, prio) ==
  LET e == [item |-> item, callback |-> callback, prio |-> prio]
  IN  DoQueues([r EXCEPT !.queue = SelectSeq(@, LAMBDA q : q.prio >= prio) \o <<e>>
                                     \o SelectSeq(@, LAMBDA q : q.prio < prio)])

\* Mutant: what waited is not looked at
CancelSilently(r, item) ==
  [reserver |-> [r EXCEPT !.queue = SelectSeq(@, LAMBDA e : e.item # item),
                          !.in_progress = IF item \in Items(r.queue) THEN @ ELSE @ \ {item}],
   callbacks |-> <<>>]

\* cancel_reservation.  The callback of a reserved item may be on its way still.
CancelReservation(r, item) ==
  DoQueues([r EXCEPT !.queue = SelectSeq(@, LAMBDA e : e.item # item),
                     !.in_progress = IF item \in Items(r.queue) THEN @ ELSE @ \ {item}])

\* set_max
SetMax(r, max) == DoQueues([r EXCEPT !.max = max])

\* set_min_priority
SetMinPriority(r, min) == DoQueues([r EXCEPT !.min = min])
============================================================================
