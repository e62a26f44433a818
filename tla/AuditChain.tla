----------------------------- MODULE AuditChain -----------------------------
(***************************************************************************)
(* The hash chain of the audit log: packages/audit, AuditLogEntry and the  *)
(* two verification functions beside it.  Everything here is pure; the     *)
(* modules AuditLog, BatchedAuditWriter and VerifyAuditChain use it.       *)
(*                                                                         *)
(* The digest is the one data abstraction.  SHA-256 over the canonical     *)
(* form of (sequence, content, previousHash) is modelled as the sequence   *)
(* of all the <<sequence, content>> pairs digested so far, which is what a *)
(* collision-free digest of a chain amounts to: two entries have equal     *)
(* hashes exactly when they, and everything they are linked to, agree.     *)
(* The fields action, actorId, subjectId, metadata and occurredAt are one  *)
(* value, "content": the digest covers them all and no operation tells     *)
(* them apart.                                                             *)
(***************************************************************************)
EXTENDS Naturals, Sequences

\* The hash the first entry links to.
GENESIS_HASH == << >>

\* computeHash(canonicalize(...)): a digest of the entry's own fields and of the
\* hash it stores for its predecessor.
ComputeHash(e) == Append(e.previousHash, <<e.sequence, e.content>>)

\* An absent predecessor: `previous === undefined` gives sequence 1 and the
\* genesis hash, which is what an entry at sequence 0 with that hash would give.
NoEntry == [sequence |-> 0, hash |-> GENESIS_HASH]

\* The digest after the first i of a run of new contents linked behind `previous`.
ChainHash(previous, contents, i) ==
    previous.hash \o [j \in 1 .. i |-> <<previous.sequence + j, contents[j]>>]

\* Mutants of AppendAt: `tail` not advanced for the link; a burst linked backwards.
AppendToHead(previous, contents, i) ==
    [sequence     |-> previous.sequence + i,
     content      |-> contents[i],
     previousHash |-> previous.hash,
     hash         |-> Append(previous.hash, <<previous.sequence + i, contents[i]>>)]

AppendReversed(previous, contents, i) ==
    [sequence     |-> previous.sequence + i,
     content      |-> contents[Len(contents) + 1 - i],
     previousHash |-> ChainHash(previous, contents, i - 1),
     hash         |-> ChainHash(previous, contents, i)]

\* AuditLogEntry.append: the entry at position i of the run.  One call builds the
\* entry for contents = <<c>>, i = 1; the batch loops feed each entry to the next.
AppendAt(previous, contents, i) ==
    [sequence     |-> previous.sequence + i,
     content      |-> contents[i],
     previousHash |-> ChainHash(previous, contents, i - 1),
     hash         |-> ChainHash(previous, contents, i)]

\* The loop of recordAuditEventBatch and of drainOnce: link every command of the
\* batch behind the head that was read.
BuildChain(previous, contents) ==
    { AppendAt(previous, contents, i) : i \in 1 .. Len(contents) }

\* get hasValidHash(): the stored hash matches the stored content.
HasValidHash(e) == e.hash = ComputeHash(e)

\* What a walk reports when it meets no break.
NoBreak == [sequence |-> 0, reason |-> "none"]

\* The three comparisons verifyChainFrom makes of one entry, in its order.
BreakAt(predecessor, e) ==
    IF ~HasValidHash(e) THEN "content_altered"
    ELSE IF e.previousHash # predecessor.hash THEN "link_broken"
    ELSE IF e.sequence # predecessor.sequence + 1 THEN "sequence_gap"
    ELSE "none"

\* verifyChainFrom(previous, entries): the first break of a run that follows
\* `previous`, or NoBreak.
VerifyChainFrom(previous, entries) ==
    LET Predecessor(i) == IF i = 1 THEN previous ELSE entries[i - 1]
        Broken(i) == BreakAt(Predecessor(i), entries[i]) # "none"
        breaks == { i \in 1 .. Len(entries) : Broken(i) }
    IN  IF breaks = {} THEN NoBreak
        ELSE LET i == CHOOSE i \in breaks : \A j \in breaks : i <= j
             IN  [sequence |-> entries[i].sequence,
                  reason   |-> BreakAt(Predecessor(i), entries[i])]
=============================================================================
