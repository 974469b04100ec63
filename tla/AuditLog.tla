------------------------------- MODULE AuditLog -------------------------------
(***************************************************************************)
(* InMemoryAuditLog and JsonlAuditLog: an append-only list of events, one  *)
(* write at a time.  The JSONL writer does real I/O and may raise, which   *)
(* callers do not catch.  Its text and its newline reach the file when the *)
(* buffer is flushed, so a write that raises leaves nothing behind, or a   *)
(* piece of its line, or all of it, with or without the newline; and what  *)
(* is written next continues a line that has none.                         *)
(***************************************************************************)
EXTENDS Sequences, Integers

CONSTANT AuditMayFail     \* TRUE with JsonlAuditLog, FALSE in memory

ASSUME AuditAssumption == AuditMayFail \in BOOLEAN

VARIABLES
  audit,                  \* the lines of the file, or the list of events
  ended                   \* whether the last line has its newline

auditVars == <<audit, ended>>

(* A line that is no JSON: a piece of an event, or two run together.       *)
Garbled == [type |-> "Garbled"]

AuditInit == audit = <<>> /\ ended = TRUE

AppendText(line) ==
  audit' = IF ended THEN Append(audit, line) ELSE [audit EXCEPT ![Len(audit)] = Garbled]

WriteAudit(event) ==
  /\ AppendText(event)
  /\ ended' = TRUE

AuditRaises(event) ==
  /\ AuditMayFail
  /\ \/ UNCHANGED auditVars
     \/ WriteAudit(event)
     \/ /\ \E line \in {event, Garbled} : AppendText(line)
        /\ ended' = FALSE

Events(type) == {i \in DOMAIN audit : audit[i].type = type}

(* read_all parses every line, and raises at the first it cannot parse.    *)
Readable == Events("Garbled") = {}
=============================================================================
