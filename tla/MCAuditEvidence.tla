--------------------------- MODULE MCAuditEvidence ---------------------------
EXTENDS AuditEvidence

MCEvents == {[org |-> "o1", what |-> "event"], [org |-> "o2", what |-> "old"]}

Auditor == [org |-> "o1", permissions |-> {"query", "export"}]
Ask(operation, reader) == [operation |-> operation, reader |-> reader, org |-> "o1", limit |-> 1]
MCAsks == {Ask("query", Auditor), Ask("export", Auditor), Ask("retention", Auditor),
           Ask("query", [org |-> "o2", permissions |-> {"query"}])}

MCWindows == {[from |-> 1, batch |-> 2, checkAnchors |-> TRUE],
              [from |-> 2, batch |-> 1, checkAnchors |-> TRUE]}

MCWorkloads == {{"anchor", "monitor"}, {"anchor", "verify", "rewrite"}, {"read"}}
=============================================================================
