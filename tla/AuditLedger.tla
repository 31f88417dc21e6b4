------------------------------ MODULE AuditLedger ------------------------------
(***************************************************************************)
(* One user's hash-chained audit entries: record_chained_event and         *)
(* verify_audit_integrity of services/security_siem_service.py.            *)
(*                                                                         *)
(* A recorder finds the latest entry and, in a second call, inserts one    *)
(* chained to it.  An entry is known by its place in the order of the      *)
(* insertions, and a hash by the entry it is the hash of: two entries      *)
(* never have the same, and nothing rewrites what a hash covers (erasure   *)
(* redacts ip and userAgent, which it does not).                           *)
(***************************************************************************)
EXTENDS Naturals, Sequences

CONSTANTS
  Recorders,      \* requests of the user that record an event
  MaxEntries      \* bound: entries

ASSUME LedgerAssumption == MaxEntries \in Nat

VARIABLES
  ledger,         \* [prev, index, by]: prevHash, chainIndex and, as history, the recorder
  held,           \* [Recorders -> what the entry to be inserted will say, or Nothing]
  overlapped      \* history: somebody looked or inserted between a look and its insertion

ledgerVars == <<ledger, held, overlapped>>

GENESIS_HASH == 0
Entries == DOMAIN ledger
Index(e) == ledger[e].index

Nothing == [prev |-> GENESIS_HASH, index |-> 0]

LedgerInit ==
  /\ ledger = << >>
  /\ held = [r \in Recorders |-> Nothing]
  /\ overlapped = FALSE

Holds(r) == held[r] # Nothing

\* The answers to find_one sorted by chainIndex: downwards, as the code asks, and (before)
\* upwards.  Entries of one index come in any order.
EarliestEntries == {e \in Entries : \A d \in Entries : Index(d) >= Index(e)}
LatestEntries == {e \in Entries : \A d \in Entries : Index(d) <= Index(e)}

\* chain_index, counted instead of continued, and as it is.
IndexCounted(e) == Len(ledger) + 1
IndexAfter(e) == Index(e) + 1

LookUpLatest(r) ==
  /\ ~Holds(r) /\ Len(ledger) < MaxEntries
  /\ \/ /\ Entries = {}
        /\ held' = [held EXCEPT ![r] = [prev |-> GENESIS_HASH, index |-> 1]]
     \/ \E e \in LatestEntries :
          held' = [held EXCEPT ![r] = [prev |-> e, index |-> IndexAfter(e)]]
  /\ overlapped' = (overlapped \/ \E q \in Recorders : Holds(q))
  /\ UNCHANGED ledger

InsertEntry(r) ==
  /\ Holds(r) /\ Len(ledger) < MaxEntries
  /\ ledger' = Append(ledger, [prev |-> held[r].prev, index |-> held[r].index, by |-> r])
  /\ held' = [held EXCEPT ![r] = Nothing]
  /\ UNCHANGED overlapped

\* The insertion fails, or the process ends before it.
LoseEntry(r) ==
  /\ Holds(r)
  /\ held' = [held EXCEPT ![r] = Nothing]
  /\ UNCHANGED <<ledger, overlapped>>

LedgerNext == \E r \in Recorders : LookUpLatest(r) \/ InsertEntry(r) \/ LoseEntry(r)

LedgerSpec == LedgerInit /\ [][LedgerNext]_ledgerVars

-----------------------------------------------------------------------------
(* verify_audit_integrity reads the entries by chainIndex, those of one    *)
(* index in any order, and compares each prevHash with the entry before.   *)

MayComeBefore(d, e) ==
  /\ d # e /\ Index(d) <= Index(e)
  /\ ~\E c \in Entries : Index(d) < Index(c) /\ Index(c) < Index(e)

MayComeFirst(e) == \A d \in Entries : Index(e) <= Index(d)

\* The report is "intact" in whatever order the entries come.
Verified ==
  \A e \in Entries :
    /\ MayComeFirst(e) => ledger[e].prev = GENESIS_HASH
    /\ \A d \in Entries : MayComeBefore(d, e) => ledger[e].prev = d

-----------------------------------------------------------------------------
(* Properties                                                              *)

\* Entries and what the recorders hold keep their shape.
LedgerTypeOK ==
  /\ ledger \in Seq([prev : Nat, index : Nat, by : Recorders])
  /\ held \in [Recorders -> [prev : Nat, index : Nat]]
  /\ overlapped \in BOOLEAN

\* Events recorded one after the other, those that fail included, verify.  `Verified` itself,
\* which "Record an audit event appended to the cryptographic hash chain" says of every
\* event, fails where two requests of a user record at once: both chain to the entry they
\* found, and the report calls the chain broken ever after.
RecordedInTurnVerifies == ~overlapped => Verified

\* However the recorders overlap, each entry is chained to an older one whose index is just
\* below its own: the chain may fork, but has no gap and no loose end.
ChainedToOlder ==
  \A e \in Entries :
    IF ledger[e].prev = GENESIS_HASH THEN Index(e) = 1
    ELSE ledger[e].prev < e /\ Index(e) = Index(ledger[e].prev) + 1

\* A fork is no wider than the requests that recorded at once: no recorder has two entries of
\* one index.
ForkPerRecorder ==
  \A d, e \in Entries : Index(d) = Index(e) /\ ledger[d].by = ledger[e].by => d = e
=============================================================================
