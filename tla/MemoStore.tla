----------------------------- MODULE MemoStore ------------------------------
(***************************************************************************)
(* The memo database: one row per memo, hidden separately by its sender    *)
(* and its recipient, reclaimed once both have hidden it, once it is older *)
(* than the retention time, or when an account at either end is dropped.   *)
(***************************************************************************)
EXTENDS Naturals, FiniteSets

CONSTANTS Retention,     \* memoserv_retention_days; 0 keeps memos for ever
          PurgeInterval, \* MEMOSERV_PURGE_INTERVAL_SECONDS
          Quota,         \* memoserv_quota, visible memos of a recipient
          SenderQuota,   \* memoserv_sender_quota; 0 is no limit
          MaxMemos       \* bound: memos ever stored

ASSUME MemoConstants == {Retention, PurgeInterval, Quota, SenderQuota, MaxMemos} \subseteq Nat

VARIABLES memos,     \* the rows; fromReg and toReg say which registration of
                     \* the account name sent and was sent the memo
          nextMemo,  \* AUTOINCREMENT
          lastPurge  \* retention_last_purge

memoVars == <<memos, nextMemo, lastPurge>>

MemoInit == memos = {} /\ nextMemo = 1 /\ lastPurge = 0

Inbox(rows, a) == {m \in rows : m.to = a /\ ~m.recipientDeleted}
Sent(rows, a) == {m \in rows : m.from = a /\ ~m.senderDeleted}

\* created_at < now - retention; the clock is far past the retention time.
Old(m, now) == Retention # 0 /\ m.at + Retention < now

Outstanding(a, now) == {m \in memos : m.from = a /\ ~m.recipientDeleted /\ ~Old(m, now)}

Mut_reclaim_either(rows) == {m \in rows : ~m.senderDeleted /\ ~m.recipientDeleted}

purge_fully_deleted_memos(rows) == {m \in rows : ~(m.senderDeleted /\ m.recipientDeleted)}

memoserv_db_purge_before(rows, now) == {m \in rows : ~Old(m, now)}

\* purge_expired(): at most once per interval.
PurgeDue(now) ==
    Retention # 0 /\ (lastPurge = 0 \/ now < lastPurge \/ now - lastPurge >= PurgeInterval)
Purged(now) == IF PurgeDue(now) THEN memoserv_db_purge_before(memos, now) ELSE memos
PurgedAt(now) == IF PurgeDue(now) THEN now ELSE lastPurge

purge_expired(now) ==
    /\ memos' = Purged(now)
    /\ lastPurge' = PurgedAt(now)
    /\ UNCHANGED nextMemo

memoserv_db_delete(rows, ids) == purge_fully_deleted_memos(
    {IF m.id \in ids THEN [m EXCEPT !.recipientDeleted = TRUE] ELSE m : m \in rows})
memoserv_db_delete_sent(rows, ids) == purge_fully_deleted_memos(
    {IF m.id \in ids THEN [m EXCEPT !.senderDeleted = TRUE] ELSE m : m \in rows})
memoserv_db_mark_read(rows, id) ==
    {IF m.id = id THEN [m EXCEPT !.read = TRUE] ELSE m : m \in rows}

Mut_delete_received(rows, a) == {m \in rows : m.to # a}

memoserv_db_delete_account(rows, a) == {m \in rows : m.from # a /\ m.to # a}

Ids(rows) == {m.id : m \in rows}
=============================================================================
