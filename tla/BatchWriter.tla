---------------------------- MODULE BatchWriter ----------------------------
(***************************************************************************)
(* internal/clickhouse/writer.go, Writer: rows wait in a buffered channel, *)
(* one background goroutine (loop) collects them in buf and inserts them   *)
(* when buf is full, on a tick or when the channel is closed. Write, loop  *)
(* and Stop run in goroutines of their own, and pending is an atomic       *)
(* counter updated beside the channel, not with it.                        *)
(*                                                                         *)
(* Write is called with one row at a time (cmd/chwriter) by one goroutine. *)
(* The ErrBackpressure it may return is ignored by its only caller, so the *)
(* soft limit is left out. doFlush returns nothing: to the loop an insert  *)
(* that fails is an insert, and Flush says nothing of the outcome.         *)
(***************************************************************************)
EXTENDS Integers, Sequences

CONSTANTS
  Rows,    (* rows that may be written                                     *)
  NoRow,   (* the loop holds no row                                        *)
  BufSize  (* capacity of the channel and of a batch                       *)

ASSUME WriterAssumption == BufSize \in Nat \ {0} /\ NoRow \notin Rows

VARIABLES
  ch,      (* the write-behind channel                                     *)
  closed,  (* Stop has closed it                                           *)
  pending, (* the atomic counter                                           *)
  sent,    (* rows Write has sent and not yet counted, 0 or 1              *)
  tick,    (* a tick waits in the ticker's channel, which holds one        *)
  loop,    (* where the background goroutine is                            *)
  held,    (* the row it has received and not yet counted                  *)
  buf      (* the batch it collects                                        *)

writerVars == <<ch, closed, pending, sent, tick, loop, held, buf>>

LoopPlaces ==
  {"select",    (* at the outer select                                     *)
   "received",  (* a row received, pending not yet lowered                 *)
   "drain",     (* at the inner select                                     *)
   "flush",     (* inserting, then back to the outer select                *)
   "lastFlush", (* inserting the remainder of a closed channel             *)
   "stopped"}   (* done is closed                                          *)

WriterInit ==
  /\ ch = <<>> /\ closed = FALSE /\ pending = 0 /\ sent = 0
  /\ tick = FALSE /\ loop = "select" /\ held = NoRow /\ buf = <<>>

-----------------------------------------------------------------------------
(* Mutants of the steps below, each a bug that is easy to write. *)

\* The drain that accepts one row too many.
DrainReceiveOverfull ==
  /\ loop = "drain" /\ Len(buf) <= BufSize /\ ch # <<>>
  /\ held' = Head(ch) /\ ch' = Tail(ch) /\ loop' = "received"
  /\ UNCHANGED <<closed, pending, sent, tick, buf>>

\* The drain that forgets pending.Add(-1).
DrainReceiveUncounted ==
  /\ loop = "drain" /\ Len(buf) < BufSize /\ ch # <<>>
  /\ buf' = Append(buf, Head(ch)) /\ ch' = Tail(ch)
  /\ UNCHANGED <<closed, pending, sent, tick, loop, held>>

\* A closed channel ends the loop although rows are left in it.
SeeClosedAtOnce ==
  /\ loop = "select" /\ closed
  /\ loop' = IF buf # <<>> THEN "lastFlush" ELSE "stopped"
  /\ UNCHANGED <<ch, closed, pending, sent, tick, held, buf>>

\* The loop that waits for a tick to insert the remainder.
SeeClosedEmpty ==
  /\ loop = "select" /\ closed /\ ch = <<>> /\ buf = <<>>
  /\ loop' = "stopped"
  /\ UNCHANGED <<ch, closed, pending, sent, tick, held, buf>>

\* buf = buf[:0] forgotten.
FlushKeepingBatch ==
  /\ loop \in {"flush", "lastFlush"}
  /\ loop' = IF loop = "flush" THEN "select" ELSE "stopped"
  /\ UNCHANGED <<ch, closed, pending, sent, tick, held, buf>>

\* The tick that does not insert a partial batch.
TakeTickIdle ==
  /\ loop = "select" /\ tick
  /\ tick' = FALSE
  /\ UNCHANGED <<ch, closed, pending, sent, loop, held, buf>>

-----------------------------------------------------------------------------
(* Write. Sending on a closed channel panics: see Panics. *)

Send(r) ==
  /\ sent = 0 /\ ~closed
  /\ Len(ch) < BufSize
  /\ ch' = Append(ch, r)
  /\ sent' = 1
  /\ UNCHANGED <<closed, pending, tick, loop, held, buf>>

CountSent ==
  /\ sent = 1
  /\ pending' = pending + 1
  /\ sent' = 0
  /\ UNCHANGED <<ch, closed, tick, loop, held, buf>>

\* The select's default: the channel is full and the row is dropped.
Drop ==
  /\ sent = 0 /\ ~closed
  /\ Len(ch) = BufSize
  /\ UNCHANGED writerVars

\* Write's next send would be on a closed channel.
Panics == sent = 0 /\ closed

-----------------------------------------------------------------------------
(* loop. *)

Receive ==
  /\ loop = "select"
  /\ ch # <<>>
  /\ held' = Head(ch)
  /\ ch' = Tail(ch)
  /\ loop' = "received"
  /\ UNCHANGED <<closed, pending, sent, tick, buf>>

CountReceived ==
  /\ loop = "received"
  /\ pending' = pending - 1
  /\ buf' = Append(buf, held)
  /\ held' = NoRow
  /\ loop' = "drain"
  /\ UNCHANGED <<ch, closed, sent, tick>>

DrainReceive ==
  /\ loop = "drain"
  /\ Len(buf) < BufSize
  /\ ch # <<>>
  /\ held' = Head(ch)
  /\ ch' = Tail(ch)
  /\ loop' = "received"
  /\ UNCHANGED <<closed, pending, sent, tick, buf>>

\* A full batch, an empty channel or a closed one ends the drain.
DrainEnd ==
  /\ loop = "drain"
  /\ Len(buf) >= BufSize \/ ch = <<>>
  /\ loop' = IF Len(buf) >= BufSize THEN "flush" ELSE "select"
  /\ UNCHANGED <<ch, closed, pending, sent, tick, held, buf>>

TakeTick ==
  /\ loop = "select" /\ tick
  /\ tick' = FALSE
  /\ loop' = IF buf # <<>> THEN "flush" ELSE "select"
  /\ UNCHANGED <<ch, closed, pending, sent, held, buf>>

SeeClosed ==
  /\ loop = "select" /\ closed /\ ch = <<>>
  /\ loop' = IF buf # <<>> THEN "lastFlush" ELSE "stopped"
  /\ UNCHANGED <<ch, closed, pending, sent, tick, held, buf>>

\* doFlush returns, whatever insertBatch returned.
Flush ==
  /\ loop \in {"flush", "lastFlush"}
  /\ buf' = <<>>
  /\ loop' = IF loop = "flush" THEN "select" ELSE "stopped"
  /\ UNCHANGED <<ch, closed, pending, sent, tick, held>>

-----------------------------------------------------------------------------
(* The ticker, until Stop stops it, and Stop itself up to its wait. *)

Tick ==
  /\ ~closed /\ ~tick
  /\ tick' = TRUE
  /\ UNCHANGED <<ch, closed, pending, sent, loop, held, buf>>

Close ==
  /\ ~closed
  /\ closed' = TRUE
  /\ UNCHANGED <<ch, pending, sent, tick, loop, held, buf>>

LoopStep ==
  \/ Receive \/ CountReceived \/ DrainReceive \/ DrainEnd
  \/ TakeTick \/ SeeClosed \/ Flush

WriterNext == (\E r \in Rows : Send(r)) \/ Drop \/ CountSent \/ LoopStep \/ Tick \/ Close

WriterSpec == WriterInit /\ [][WriterNext]_writerVars

-----------------------------------------------------------------------------
(* Properties. *)

WriterTypeOK ==
  /\ ch \in Seq(Rows) /\ Len(ch) <= BufSize
  /\ closed \in BOOLEAN /\ tick \in BOOLEAN
  /\ sent \in 0..1
  /\ pending \in Int
  /\ loop \in LoopPlaces
  /\ held \in Rows \cup {NoRow}
  /\ buf \in Seq(Rows) /\ Len(buf) <= BufSize

(* The backpressure gauge follows the channel: pending differs from its    *)
(* length only by the row just sent and the row just received, so it can   *)
(* be -1 for a moment but never drifts.                                    *)
PendingFollowsQueue ==
  pending = Len(ch) - sent + (IF loop = "received" THEN 1 ELSE 0)

(* A batch never outgrows BufSize, and when the loop has stopped nothing   *)
(* is left in the channel, in the loop's hand or in the batch.             *)
StoppedIsDrained ==
  /\ loop = "received" => Len(buf) < BufSize /\ held \in Rows
  /\ loop = "stopped" => closed /\ ch = <<>> /\ buf = <<>> /\ held = NoRow
=============================================================================
