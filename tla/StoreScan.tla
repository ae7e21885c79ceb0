----------------------------- MODULE StoreScan -----------------------------
(***************************************************************************)
(* The loops of msgserv.c over the message array, iteration by iteration,  *)
(* against the definitions of MessageStore.  The loops are written as      *)
(* recursive functions of the loop index; messages are added with clocks   *)
(* in any order, as they arrive from other servers.                        *)
(***************************************************************************)
EXTENDS MessageStore

CONSTANTS Strings,    \* the texts of the messages that arrive
          MaxClock    \* bound: the largest clock a message arrives with

VARIABLE store         \* the message array

\* for(i = 1; i <= max_index; i++) if(lc[i] <= lc[min_lc_index]) min_lc_index = i
scan_oldest(b) ==
  LET min_lc_index[i \in Slots] ==
        IF i = 0 THEN 0
        ELSE IF b[i].lc <= b[min_lc_index[i - 1]].lc THEN i ELSE min_lc_index[i - 1]
  IN  min_lc_index[M - 1]

\* A scan that keeps the first of several equal clocks.
scan_latest_first(b) ==
  LET max_lc_index[i \in Slots] ==
        IF i = 0 THEN 0
        ELSE IF b[i].lc > b[max_lc_index[i - 1]].lc THEN i ELSE max_lc_index[i - 1]
  IN  max_lc_index[M - 1]

\* for(i = 1; i <= max_index; i++) if(lc[i] >= lc[max_lc_index]) max_lc_index = i
scan_latest(b) ==
  LET max_lc_index[i \in Slots] ==
        IF i = 0 THEN 0
        ELSE IF b[i].lc >= b[max_lc_index[i - 1]].lc THEN i ELSE max_lc_index[i - 1]
  IN  max_lc_index[M - 1]

\* A full board that always gives up its last slot.
scan_first_free_last(b) ==
  LET i[k \in 0 .. M] == IF k = M THEN M - 1 ELSE IF b[k].msg = <<>> THEN k ELSE i[k + 1]
  IN  i[0]

\* The index runs off the end of a full board, is pulled back, and only then
\* replaced: the last slot may have been the free one.
scan_first_free(b) ==
  LET i[k \in 0 .. M] == IF k = M THEN M - 1 ELSE IF b[k].msg = <<>> THEN k ELSE i[k + 1]
  IN  IF i[0] = M - 1 /\ b[i[0]].msg # <<>> THEN scan_oldest(b) ELSE i[0]

scan_num_messages(b) ==
  LET cnt[i \in 0 .. M] ==
        IF i = 0 THEN 0 ELSE IF b[i - 1].msg # <<>> THEN cnt[i - 1] + 1 ELSE cnt[i - 1]
  IN  cnt[M]

add_message_str_lc(c, t) ==
  store' = [store EXCEPT ![scan_first_free(store)] = [lc |-> c, msg |-> <<t>>]]

ScanInit == store = EmptyBoard

ScanNext == \E c \in 0 .. MaxClock, t \in Strings : add_message_str_lc(c, t)

ScanSpec == ScanInit /\ [][ScanNext]_store
-----------------------------------------------------------------------------
\* The loops compute what MessageStore says they do on every board that can
\* arise, whatever the order in which messages arrive and with equal clocks.
ScansAgree ==
  /\ scan_oldest(store) = oldest_message_index(store)
  /\ scan_latest(store) = latest_message_index(store)
  /\ scan_first_free(store) = first_free_message_index(store)
  /\ scan_num_messages(store) = num_messages(store)

\* Adding a message discards nothing while there is a free slot; on a full
\* board it discards one message, and one with the smallest clock of all.
EvictsOnlyAnOldest ==
  [][LET gone == {k \in Used(store) : store'[k] # store[k]}
     IN  /\ Used(store) \subseteq Used(store')
         /\ Used(store) # Slots => gone = {} /\ Used(store') # Used(store)
         /\ \A k \in gone : gone = {k} /\ \A j \in Slots : store[k].lc <= store[j].lc]_store
=============================================================================
