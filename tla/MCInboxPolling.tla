---------------------------- MODULE MCInboxPolling ----------------------------
(* An instance of InboxPolling: clocks that are off by up to an epoch.     *)
EXTENDS InboxPolling

MCSkews == {-INBOX_EPOCH_SECONDS, 0, INBOX_EPOCH_SECONDS}
=============================================================================
