----------------------------- MODULE DedupFilter -----------------------------
(***************************************************************************)
(* internal/dedup/bloom.go: the in-process filter that tells the gateway's *)
(* handlers whether an event id is new. TestAndAdd tests under the read    *)
(* lock and adds under the write lock: other handlers, and a rotation, may *)
(* come in between. A Bloom filter may call an id known that was never     *)
(* added, once it holds any.                                               *)
(*                                                                         *)
(* TestAndAddExact and FilterBatch have no caller.                         *)
(***************************************************************************)
EXTENDS EventIds, FiniteSets, Integers

CONSTANTS
  Handler,  (* request goroutines of the gateway                           *)
  NoEvent

ASSUME FilterAssumption == IsFiniteSet(Handler) /\ NoEvent \notin Event

VARIABLES
  bloom,    (* ids added since the last rotation                           *)
  adding,   (* per handler, the id it found new and has yet to add         *)
  admitted  (* history: how often the filter called an id new since then   *)

filterVars == <<bloom, adding, admitted>>

NewFilter == bloom = {} /\ admitted = [e \in Event |-> 0]

FilterInit == NewFilter /\ adding = [h \in Handler |-> NoEvent]

\* TestString finds the id, and TestAndAdd returns false: the id was added,
\* or others have set its bits. The comment speaks of one false answer in a
\* thousand; here any may be, once the filter is not empty.
Seen(h, e) ==
  /\ adding[h] = NoEvent
  /\ bloom # {}
  /\ UNCHANGED filterVars

\* Mutant: the id is added although the test found it.
TestForgotten(h, e) ==
  /\ adding[h] = NoEvent
  /\ adding' = [adding EXCEPT ![h] = e]
  /\ UNCHANGED <<bloom, admitted>>

TestNew(h, e) ==
  /\ adding[h] = NoEvent
  /\ e \notin bloom
  /\ adding' = [adding EXCEPT ![h] = e]
  /\ UNCHANGED <<bloom, admitted>>

\* The id enters whatever filter is in place by then; TestAndAdd returns true.
Add(h) ==
  /\ adding[h] # NoEvent
  /\ bloom' = bloom \cup {adding[h]}
  /\ admitted' = [admitted EXCEPT ![adding[h]] = @ + 1]
  /\ adding' = [adding EXCEPT ![h] = NoEvent]

\* maybeRotate, called by TestAndAdd and by rotateLoop once the window is
\* over: an empty filter takes the place of the old one.
Rotate ==
  /\ bloom # {}
  /\ bloom' = {} /\ admitted' = [e \in Event |-> 0]
  /\ UNCHANGED adding

FilterNext ==
  \/ \E h \in Handler, e \in Event : Seen(h, e) \/ TestNew(h, e)
  \/ \E h \in Handler : Add(h)
  \/ Rotate

FilterSpec == FilterInit /\ [][FilterNext]_filterVars

Adding(e) == {h \in Handler : adding[h] = e}

FilterTypeOK ==
  /\ bloom \subseteq Event
  /\ adding \in [Handler -> Event \cup {NoEvent}]
  /\ admitted \in [Event -> Nat]

\* Within a window an id is called new at most once per handler goroutine:
\* only handlers that tested before the first of them added (bloom.go:57-69)
\* can let a duplicate through, however many requests repeat the id and
\* whenever the filter rotates.
OncePerHandler ==
  \A e \in Event : admitted[e] + Cardinality(Adding(e)) <= Cardinality(Handler)
=============================================================================
