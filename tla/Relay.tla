-------------------------------- MODULE Relay --------------------------------
(***************************************************************************)
(* What a service that hands the records of a partition on to a sink       *)
(* promises, without saying how: it takes the records in order, each once  *)
(* until it restarts, holds them, and in the end has handed on or given up *)
(* each. A restart goes back to the last committed record, which never     *)
(* moves back itself: of the records held then, those already committed    *)
(* are lost and the others are taken again.                                *)
(*                                                                         *)
(* ChWriter.tla, which inserts batches into ClickHouse, and Enricher.tla,  *)
(* which publishes to another topic, implement this specification. What    *)
(* follows from it, below, therefore holds of both.                        *)
(***************************************************************************)
EXTENDS Integers, TLAPS

CONSTANTS
  LastRecord, (* records in the partition                                  *)
  Malformed   (* records that are not handed on                            *)

VARIABLES
  reached,    (* last record taken, skipped or dropped                     *)
  committed,  (* where a restart goes back to                              *)
  held,       (* records taken and not settled                             *)
  done,       (* records the sink has                                      *)
  lost        (* records given up                                          *)

relayVars == <<reached, committed, held, done, lost>>

RelayInit ==
  /\ reached = 0 /\ committed = 0
  /\ held = {} /\ done = {} /\ lost = {}

\* Goes on to the next record, r.
Reaches(r) == r = reached + 1 /\ r <= LastRecord /\ reached' = r

Take(r) ==
  /\ Reaches(r)
  /\ r \notin Malformed
  /\ held' = held \cup {r}
  /\ UNCHANGED <<committed, done, lost>>

Skip(r) ==
  /\ Reaches(r)
  /\ r \in Malformed
  /\ UNCHANGED <<committed, held, done, lost>>

Drop(r) ==
  /\ Reaches(r)
  /\ r \notin Malformed
  /\ lost' = lost \cup {r}
  /\ UNCHANGED <<committed, held, done>>

HandOn(S) ==
  /\ held' = held \ S
  /\ done' = done \cup S
  /\ UNCHANGED <<reached, committed, lost>>

GiveUp(S) ==
  /\ held' = held \ S
  /\ lost' = lost \cup S
  /\ UNCHANGED <<reached, committed, done>>

Commit ==
  /\ committed' \in committed..reached
  /\ UNCHANGED <<reached, held, done, lost>>

Restart ==
  /\ reached' = committed
  /\ held' = {}
  /\ lost' = lost \cup {r \in held : r <= committed}
  /\ UNCHANGED <<committed, done>>

RelayNext ==
  \/ \E r \in 1..LastRecord : Take(r) \/ Skip(r) \/ Drop(r)
  \/ \E S \in SUBSET held : HandOn(S) \/ GiveUp(S)
  \/ Commit \/ Restart

RelaySpec == RelayInit /\ [][RelayNext]_relayVars

-----------------------------------------------------------------------------
(* What a committed record is worth under such a relay: no more, and no    *)
(* less, than that every well-formed record gone by is held, handed on or  *)
(* lost, and that only such records are held.                              *)
RelayAccounts ==
  /\ committed <= reached
  /\ held \subseteq (1..reached) \ Malformed
  /\ (1..reached) \ Malformed \subseteq held \cup done \cup lost

RelayInv == reached \in Nat /\ committed \in Nat /\ RelayAccounts

\* A restart gives up nothing but what is committed; what else it loses lies
\* beyond where it goes back to.
LEMMA RelayInvStep ==
  ASSUME RelayInv, [RelayNext]_relayVars
  PROVE  RelayInv'
<1> USE DEF RelayInv, RelayAccounts
<1>1. CASE UNCHANGED relayVars
  BY <1>1 DEF relayVars
<1>2. ASSUME NEW r \in 1..LastRecord, Take(r) \/ Skip(r) \/ Drop(r)
      PROVE  RelayInv'
  <2>1. /\ r = reached + 1 /\ reached' = r /\ committed' = committed /\ done' = done
        /\ held \subseteq held' /\ held' \subseteq held \cup ({r} \ Malformed)
        /\ lost \subseteq lost' /\ {r} \ Malformed \subseteq held' \cup lost'
    BY <1>2 DEF Take, Skip, Drop, Reaches
  <2>2. 1..reached' = (1..reached) \cup {r}
    BY <2>1
  <2> QED
    BY <2>1, <2>2
<1>3. ASSUME NEW S \in SUBSET held, HandOn(S) \/ GiveUp(S)
      PROVE  RelayInv'
  BY <1>3 DEF HandOn, GiveUp
<1>4. CASE Commit
  BY <1>4 DEF Commit
<1>5. CASE Restart
  BY <1>5 DEF Restart
<1> QED
  BY <1>1, <1>2, <1>3, <1>4, <1>5 DEF RelayNext

(* No record vanishes without a trace, however often the relay restarts.   *)
THEOREM RelayAlwaysAccounts == RelaySpec => []RelayAccounts
<1>1. RelayInit => RelayInv
  BY DEF RelayInit, RelayInv, RelayAccounts
<1>2. RelayInv => RelayAccounts
  BY DEF RelayInv
<1> QED
  BY <1>1, <1>2, RelayInvStep, PTL DEF RelaySpec
=============================================================================
