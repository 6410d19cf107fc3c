---------------------------- MODULE ArchiveLedger ----------------------------
(***************************************************************************)
(* What the backup command promises: an append-only ledger of batches of   *)
(* records, and the set of records it will not archive again.  A run       *)
(* publishes its batches together; only then are their records known, all  *)
(* of them at once; and nothing further is published in between.           *)
(***************************************************************************)
EXTENDS Integers, Sequences

VARIABLES
    ledger,   \* the published batches, each a set of records
    known     \* the records a backup skips

ledgerVars == <<ledger, known>>

Archived(l) == UNION {l[i] : i \in DOMAIN l}

LedgerInit == ledger = <<>> /\ known = {}

\* New batches go to the end, and hold something new and nothing twice.
Extends(new, old) ==
    /\ Len(new) > Len(old)
    /\ SubSeq(new, 1, Len(old)) = old
    /\ \A i \in (Len(old) + 1)..Len(new) :
         /\ new[i] # {}
         /\ \A j \in 1..(i - 1) : new[i] \cap new[j] = {}

PublishBatches ==
    /\ known = Archived(ledger)
    /\ Extends(ledger', ledger)
    /\ UNCHANGED known

Acknowledge ==
    /\ known # Archived(ledger)
    /\ known' = Archived(ledger)
    /\ UNCHANGED ledger

LedgerNext == PublishBatches \/ Acknowledge

LedgerSpec == LedgerInit /\ [][LedgerNext]_ledgerVars

\* What was published is acknowledged in the end.
LedgerFairSpec == LedgerSpec /\ WF_ledgerVars(Acknowledge)
=============================================================================
