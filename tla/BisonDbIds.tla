----------------------------- MODULE BisonDbIds -----------------------------
(***************************************************************************)
(* BisonDb with a history variable: the ids insert has returned to its     *)
(* callers.  A caller keeps an id (a session cookie, a foreign key) longer *)
(* than the process and longer than the document.                          *)
(***************************************************************************)
EXTENDS BisonDb

VARIABLE issued  \* the ids insert has returned with Ok

Inserting == pc = "appended" /\ op.kind = "insert"

\* insert returns DocId(id).
InsertReturns == Inserting /\ ret' = [call |-> "write", res |-> "ok"]

Remember == issued' = IF InsertReturns THEN issued \cup {op.id} ELSE issued

IdsInit == Init /\ issued = {}
IdsNext == Next /\ Remember
IdsSpec == IdsInit /\ [][IdsNext]_<<vars, issued>>

(* "DocIds are dense, monotonic, and stable across reopen"                 *)
(* (docs/release/v0.2.0.md:73): insert never returns an id it has returned *)
(* before, in this process or an earlier one.                              *)
NeverReissued == [][InsertReturns => op.id \notin issued]_<<vars, issued>>
=============================================================================
