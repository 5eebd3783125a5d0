--------------------------- MODULE AuditRegistry ---------------------------
(***************************************************************************)
(* gateway/agent_identity.go: the audit history, kept three times.  One    *)
(* lock covers the whole of RecordDetailed: the entry is appended to the   *)
(* slice in memory, which is trimmed, then to a JSONL file, then to table  *)
(* audit_events.  A failure of either write is logged and the other is     *)
(* still tried.  A new process fills its memory from the file.             *)
(*                                                                         *)
(* Entries are numbered in the order in which they take the lock.          *)
(***************************************************************************)
EXTENDS GatewayLife, Sequences

CONSTANTS MaxInMemory,  \* maxInMemoryAuditEntries
          MaxEntries    \* bound: entries recorded

ASSUME AuditAssumption ==
  MaxInMemory \in Nat \ {0} /\ MaxEntries \in Nat

VARIABLES
  entries,     \* the slice in memory
  lines,       \* the entries on the lines of the file that can be parsed
  fragment,    \* does the file end in a part of a line?
  rows,        \* entries in audit_events
  long,        \* will the line of the entry under way exceed 64 KB?
  overlong,    \* has the file a line that bufio.Scanner will not take?
  step,        \* "free" when the lock is, or the write that comes next
  last,        \* the number of the last entry that took the lock
  recorded     \* entries whose RecordDetailed has returned

auditVars == <<entries, lines, fragment, rows, long, overlong, step, last, recorded>>

Lines(s) == {s[n] : n \in DOMAIN s}

AuditInit ==
  /\ entries = <<>> /\ lines = <<>> /\ fragment = FALSE /\ rows = {}
  /\ long = FALSE /\ overlong = FALSE
  /\ step = "free" /\ last = 0 /\ recorded = {}

(* Variant for the mutation runs: the oldest are kept.                     *)
TrimNewest(s) == IF Len(s) <= MaxInMemory THEN s ELSE SubSeq(s, 1, MaxInMemory)

(* trimLocked.                                                             *)
Trim(s) ==
  IF Len(s) <= MaxInMemory THEN s ELSE SubSeq(s, Len(s) - MaxInMemory + 1, Len(s))

----------------------------------------------------------------------------
(* RecordDetailed, all of it under the lock.                               *)

(* big: its line, with a fragment before it, will exceed the scanner's     *)
(* buffer.                                                                 *)
Record(big) ==
  /\ up /\ step = "free" /\ last < MaxEntries
  /\ last' = last + 1
  /\ entries' = Trim(Append(entries, last'))
  /\ long' = big
  /\ step' = "file"
  /\ UNCHANGED <<up, faults, lines, fragment, rows, overlong, recorded>>

(* Variant: the append is repeated although it had succeeded.              *)
AppendLineAgain ==
  /\ lines' = IF fragment THEN Append(lines, last) ELSE lines \o <<last, last>>
  /\ fragment' = FALSE /\ overlong' = (overlong \/ long)

(* What the file is after a whole line was appended: behind a fragment it  *)
(* only completes a line that nobody can parse.                            *)
AppendLine ==
  /\ lines' = IF fragment THEN lines ELSE Append(lines, last)
  /\ fragment' = FALSE /\ overlong' = (overlong \/ long)

(* What it may be after an append that broke off.                          *)
AppendPart ==
  /\ fragment' \in {fragment, TRUE}
  /\ overlong' \in {overlong, overlong \/ (fragment' /\ long)}
  /\ UNCHANGED lines

(* Variant: the database is not tried when the file failed.                *)
AppendAuditLogOrReturn ==
  /\ up /\ step = "file"
  /\ \/ AppendLine /\ step' = "row" /\ UNCHANGED <<faults, recorded>>
     \/ /\ Fault /\ AppendPart
        /\ step' = "free" /\ recorded' = recorded \cup {last}
  /\ UNCHANGED <<up, entries, rows, long, last>>

(* appendAuditLog: an append that fails may have written a part.           *)
AppendAuditLog ==
  /\ up /\ step = "file"
  /\ \/ AppendLine /\ UNCHANGED faults
     \/ Fault /\ AppendPart
  /\ step' = "row"
  /\ UNCHANGED <<up, entries, rows, long, last, recorded>>

(* metadata.RecordAudit, and the lock is released.                         *)
RecordAudit ==
  /\ up /\ step = "row"
  /\ \/ rows' = rows \cup {last} /\ UNCHANGED faults
     \/ Fault /\ UNCHANGED rows
  /\ step' = "free" /\ long' = FALSE
  /\ recorded' = recorded \cup {last}
  /\ UNCHANGED <<up, entries, lines, fragment, overlong, last>>

----------------------------------------------------------------------------
(* The life of the process.                                                *)

(* loadAuditLog: malformed lines are skipped, but a line that is too long  *)
(* makes the scan fail, which is logged, and nothing is loaded.            *)
AuditLoad ==
  /\ entries' = IF overlong THEN <<>> ELSE Trim(lines)
  /\ UNCHANGED <<lines, fragment, rows, long, overlong, step, last, recorded>>

(* The process dies; in the middle of an append it may leave a fragment,   *)
(* which counts as a fault.                                                *)
AuditStop ==
  /\ entries' = <<>> /\ step' = "free" /\ long' = FALSE
  /\ \/ UNCHANGED <<fragment, overlong, faults>>
     \/ /\ step = "file" /\ Fault /\ fragment' = TRUE
        /\ overlong' \in {overlong, overlong \/ long}
  /\ UNCHANGED <<lines, rows, last, recorded>>

AuditStep == (\E big \in BOOLEAN : Record(big)) \/ AppendAuditLog \/ RecordAudit

----------------------------------------------------------------------------
(* Properties.                                                             *)

AuditTypeOK ==
  /\ entries \in Seq(Nat) /\ lines \in Seq(Nat) /\ fragment \in BOOLEAN
  /\ rows \subseteq Nat /\ recorded \subseteq Nat
  /\ long \in BOOLEAN /\ overlong \in BOOLEAN
  /\ step \in {"free", "file", "row"} /\ last \in Nat

(* What makes TwoFaultsToLose inductive: only a fault leaves a fragment    *)
(* behind, or an entry whose turn in the file is over and that is not in   *)
(* it.                                                                     *)
OneFaultInv ==
  /\ fragment => faults >= 1
  /\ step = "row" => last \in Lines(lines) \/ faults >= 1

(* A decision that was recorded is on disk: it takes two faults for an     *)
(* entry to be in neither of the two durable stores once RecordDetailed    *)
(* has returned, even if one of them was the fragment of an earlier entry  *)
(* that swallows the next line.                                            *)
TwoFaultsToLose ==
  \A e \in recorded : e \in Lines(lines) \/ e \in rows \/ faults >= 2

Increasing(s) == \A n, k \in DOMAIN s : n < k => s[n] < s[k]

(* Entry e is in memory, or was pushed out by MaxInMemory later ones.      *)
Covers(s, e) ==
  e \in Lines(s) \/ (Len(s) = MaxInMemory /\ \A n \in DOMAIN s : s[n] > e)

(* What makes the history's properties inductive: memory and file are in   *)
(* the order of the numbers, the entry under way is the newest in memory,  *)
(* without a fault no recorded entry is missing from the file, and without *)
(* an overlong line no entry of the file is missing from memory.           *)
HistoryInv ==
  /\ \A n \in DOMAIN entries : entries[n] <= last
  /\ step # "free" => up /\ Len(entries) > 0 /\ entries[Len(entries)] = last
  /\ Increasing(lines)
  /\ \A n \in DOMAIN lines : lines[n] <= last /\ (step = "file" => lines[n] < last)
  /\ faults = 0 => recorded \subseteq Lines(lines)
  /\ up /\ ~overlong => \A e \in Lines(lines) : Covers(entries, e)

(* Without a fault and an overlong line the history that the operator      *)
(* reads is never short: an entry is missing from memory only if there are *)
(* MaxInMemory later ones, before and after any restart.                   *)
HistoryComplete ==
  up /\ faults = 0 /\ ~overlong => \A e \in recorded : Covers(entries, e)

(* The history is in order and has no entry twice, however often the file  *)
(* was read back and whatever failed.                                      *)
HistoryOrdered == Len(entries) <= MaxInMemory /\ Increasing(entries)
=============================================================================
