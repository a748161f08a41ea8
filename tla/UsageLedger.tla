----------------------------- MODULE UsageLedger -----------------------------
(***************************************************************************)
(* The usage ledger of the channels (services/channel_usage_service.py),   *)
(* its rows in a storage backend (services/storage), its daily maintenance *)
(* and the credit reconciliation (services/channel_reconcile_service.py).  *)
(*                                                                         *)
(* Requests append detail rows.  Once a day the maintenance replaces the   *)
(* details of old days by one daily row per bucket: it appends the daily   *)
(* rows first and deletes the details last, and any call of the backend    *)
(* may fail on the way.  A reconciliation sums the credits of an account   *)
(* over whatever rows it finds.                                            *)
(***************************************************************************)
EXTENDS Naturals, FiniteSets, FiniteSetsExt

CONSTANTS
  UsageAccount,    \* accounts that are charged
  RetentionDays,   \* full days whose details are kept
  RowCap,          \* rows a JSON or git backend keeps; 50000 in the code
  MaxDay,          \* bound: days that pass
  MaxRows          \* bound: rows appended

ASSUME UsageLedgerAssumption ==
  /\ RetentionDays \in Nat \ {0}
  /\ RowCap \in Nat \ {0}
  /\ MaxDay \in Nat /\ MaxRows \in Nat

Day == 0..MaxDay

\* What daily rows are grouped by, and what a row of it costs.
Bucket == [account : UsageAccount, action : {"image", "refresh"},
           result : {"success", "failed"}]
Credit(b) == IF b.action = "image" /\ b.result = "success" THEN 1 ELSE 0

\* A detail row stands for one use, a daily row for "uses" of them.
Row == [id : 1..MaxRows, kind : {"detail", "daily"}, day : Day, bucket : Bucket,
        uses : Nat]

VARIABLES
  rows,        \* the rows of channel_usage
  lastId,      \* rows appended so far: newer rows have greater numbers
  today,       \* the current day (external)
  used,        \* what was ever recorded, by day and bucket (history)
  round,       \* where the maintenance is
  toWrite      \* its daily rows of the day at hand that are not written yet

roundVars == <<round, toWrite>>
usageVars == <<rows, lastId, today, used, roundVars>>

Details == {r \in rows : r.kind = "detail"}
Daily == {r \in rows : r.kind = "daily"}

UsageTypeOK ==
  /\ rows \subseteq Row
  /\ lastId \in 0..MaxRows
  /\ today \in Day
  /\ used \in [Day \X Bucket -> Nat]
  /\ round \in [at : {"waiting", "aggregating", "pruning"}, cutoff : Day, day : Day]
  /\ toWrite \subseteq [bucket : Bucket, uses : Nat]

------------------------------------------------------------------------------
(* The backend *)

\* cap_channel_usage_items: daily rows are kept, and the newest details as far
\* as there is room.  (When no room is left the slice keeps them all.)
Capped(items) ==
  LET daily == {r \in items : r.kind = "daily"}
      details == items \ daily
      room == RowCap - Cardinality(daily)
      Newer(r) == {s \in details : s.id > r.id}
  IN  IF Cardinality(items) <= RowCap \/ Cardinality(daily) >= RowCap
        THEN items
        ELSE daily \cup {r \in details : Cardinality(Newer(r)) < room}

Appended(kind, day, bucket, n) ==
  Capped(rows \cup {[id |-> lastId + 1, kind |-> kind, day |-> day, bucket |-> bucket,
                     uses |-> n]})

\* append: the row is stored, or the failure is logged and the row is lost.
AppendRow(day, kind, bucket, n) ==
  /\ lastId < MaxRows
  /\ \/ /\ rows' = Appended(kind, day, bucket, n)
        /\ lastId' = lastId + 1
        /\ used' = IF kind = "detail" THEN [used EXCEPT ![<<day, bucket>>] = @ + 1]
                                      ELSE used
     \/ UNCHANGED <<rows, lastId, used>>

\* delete_channel_usage_before: daily rows stay.
Deleted(before) == {r \in rows : r.kind = "daily" \/ r.day >= before}

\* aggregate_channel_usage_rows
DayTotals(day) ==
  LET Of(b) == {r \in Details : r.day = day /\ r.bucket = b}
  IN  {[bucket |-> b, uses |-> Cardinality(Of(b))] : b \in {c \in Bucket : Of(c) # {}}}

------------------------------------------------------------------------------
(* Requests *)

\* record_image_result, at the end of an attempt.
RecordImageResult ==
  /\ \E a \in UsageAccount, r \in {"success", "failed"} :
       AppendRow(today, "detail", [account |-> a, action |-> "image", result |-> r], 1)
  /\ UNCHANGED <<today, roundVars>>

------------------------------------------------------------------------------
(* run_retention_maintenance *)

\* The oldest detail before the cutoff gives the first day.
StartRound ==
  LET cutoff == today - RetentionDays
      old == {r.day : r \in {s \in Details : s.day < cutoff}}
  IN  /\ round.at = "waiting" /\ today > RetentionDays
      /\ round' = IF old = {} THEN [at |-> "pruning", cutoff |-> cutoff, day |-> cutoff]
                  ELSE [at |-> "aggregating", cutoff |-> cutoff, day |-> Min(old)]
      /\ toWrite' = IF old = {} THEN {} ELSE DayTotals(Min(old))
      /\ UNCHANGED <<rows, lastId, today, used>>

\* aggregate_daily swallows a failure and returns no rows.
TotalsLost ==
  /\ round.at = "aggregating" /\ toWrite # {}
  /\ toWrite = DayTotals(round.day)
  /\ toWrite' = {}
  /\ UNCHANGED <<rows, lastId, today, used, round>>

\* _daily_aggregate_exists
DailyExists(day, bucket) == \E r \in Daily : r.day = day /\ r.bucket = bucket

\* A faulty variant, for the mutation runs: written without looking.
WriteDailyAgain ==
  /\ round.at = "aggregating"
  /\ \E total \in toWrite :
       /\ toWrite' = toWrite \ {total}
       /\ AppendRow(round.day, "daily", total.bucket, total.uses)
  /\ UNCHANGED <<today, round>>

\* One daily row: skipped if there is one already, or the query fails.
WriteDaily ==
  /\ round.at = "aggregating"
  /\ \E total \in toWrite :
       /\ toWrite' = toWrite \ {total}
       /\ \/ UNCHANGED <<rows, lastId, used>>
          \/ /\ ~DailyExists(round.day, total.bucket)
             /\ AppendRow(round.day, "daily", total.bucket, total.uses)
  /\ UNCHANGED <<today, round>>

NextDayOfRound ==
  /\ round.at = "aggregating" /\ toWrite = {}
  /\ LET day == round.day + 1
     IN  IF day < round.cutoff
           THEN round' = [round EXCEPT !.day = day] /\ toWrite' = DayTotals(day)
           ELSE round' = [round EXCEPT !.at = "pruning"] /\ toWrite' = {}
  /\ UNCHANGED <<rows, lastId, today, used>>

\* prune_before: the details before the cutoff are deleted, or the call fails.
Prune ==
  /\ round.at = "pruning"
  /\ \/ rows' = Deleted(round.cutoff)
     \/ UNCHANGED rows
  /\ round' = [round EXCEPT !.at = "waiting"]
  /\ UNCHANGED <<lastId, today, used, toWrite>>

\* The scan fails, an exception ends the round, or the process restarts.
RoundAborted ==
  /\ round.at # "waiting"
  /\ round' = [round EXCEPT !.at = "waiting"] /\ toWrite' = {}
  /\ UNCHANGED <<rows, lastId, today, used>>

------------------------------------------------------------------------------
(* reconcile_firefly_credits *)

\* Details of a day and bucket that has a daily row are skipped.
Counted(items, r) ==
  r.kind = "detail" =>
    ~\E s \in items : s.kind = "daily" /\ s.day = r.day /\ s.bucket = r.bucket

\* sum_ledger_credits over some rows: as many as there are credits, one by one.
Credits(items) == UNION {{r} \X (1..(Credit(r.bucket) * r.uses)) : r \in items}
SumLedgerCredits(items, a) ==
  Cardinality(Credits({r \in items : r.bucket.account = a /\ Counted(items, r)}))

\* reconcile_firefly_account: the sum over an export is compared with what Adobe
\* says; the outcome, or the failure to ask, is recorded as a row that costs
\* nothing.
ReconcileAccount ==
  /\ \E a \in UsageAccount, r \in {"success", "failed"} :
       AppendRow(today, "detail", [account |-> a, action |-> "refresh", result |-> r], 1)
  /\ UNCHANGED <<today, roundVars>>

------------------------------------------------------------------------------

Midnight ==
  /\ today < MaxDay /\ today' = today + 1
  /\ UNCHANGED <<rows, lastId, used, roundVars>>

UsageInit ==
  /\ rows = {} /\ lastId = 0 /\ today = 0
  /\ used = [db \in Day \X Bucket |-> 0]
  /\ round = [at |-> "waiting", cutoff |-> 0, day |-> 0]
  /\ toWrite = {}

UsageNext ==
  \/ RecordImageResult
  \/ StartRound \/ TotalsLost \/ WriteDaily \/ NextDayOfRound \/ Prune \/ RoundAborted
  \/ ReconcileAccount
  \/ Midnight

UsageSpec == UsageInit /\ [][UsageNext]_usageVars

------------------------------------------------------------------------------
(* Properties *)

\* A day's bucket has at most one daily row, and neither it nor the details left of
\* the day are more than was recorded, although rounds fail anywhere and start anew.
OneDailyRow ==
  /\ \A r, s \in Daily : r.day = s.day /\ r.bucket = s.bucket => r = s
  /\ \A r \in Daily : r.uses <= used[<<r.day, r.bucket>>]
  /\ \A r \in Details :
       Cardinality({s \in Details : s.day = r.day /\ s.bucket = r.bucket})
         <= used[<<r.day, r.bucket>>]

Paid(a) == [account |-> a, action |-> "image", result |-> "success"]
CreditsUsed(a) == Cardinality(UNION {{d} \X (1..used[<<d, Paid(a)>>]) : d \in Day})

\* Whatever calls fail, a use is never counted twice, neither by two daily rows
\* nor by a daily row next to its details: a reconciliation never charges an
\* account with more than was recorded ("avoid double counting").
NeverOvercharged ==
  /\ UsageTypeOK
  /\ OneDailyRow
  /\ \A a \in UsageAccount : SumLedgerCredits(rows, a) <= CreditsUsed(a)

\* "Details are deleted only after the aggregation succeeded"
\* (channel_usage_service.py): what the maintenance deleted is in daily rows.
DeletedIsAggregated ==
  Cardinality(rows) < RowCap =>
    \A db \in Day \X Bucket :
      used[db] <= MapThenSumSet(LAMBDA r : r.uses,
                    {r \in rows : r.day = db[1] /\ r.bucket = db[2] /\ Counted(rows, r)})
=============================================================================
